------------------------------- MODULE MCRelay -------------------------------
(***************************************************************************)
(* Small instances of Relay.                                               *)
(***************************************************************************)
EXTENDS Relay, TLC

CONSTANTS a1, a2

MCControl(type, role, sequence, session) ==
  Encoded([type |-> type, role |-> role, sequence |-> sequence, session |-> session], 0, "none")

MCData(kind, sequence, session) ==
  EncodeFrame(kind, [header |-> [type |-> TypeOf(kind), role |-> RoleOf(kind),
                                 sequence |-> sequence, session |-> session],
                     motors |-> "some"])

\* A guide's role that two sessions contend for, beside a controller.
MCTraffic ==
  {MCControl(t, Guide, n, s) : t \in ControlTypes, n \in 1 .. 2, s \in 1 .. 2}
  \cup {MCControl(RegisterType, Controller, n, 1) : n \in 1 .. 2}
  \cup {MCControl(UnregisterType, Controller, 2, 1)}
  \cup {MCData("command", n, s) : n \in {1, 7}, s \in 1 .. 2}
  \cup {MCData("state", n, 1) : n \in {0, 2, 6}}
  \cup {[MCData("command", 3, 1) EXCEPT !.size = CommandSize + 12],
        [MCData("command", 3, 1) EXCEPT !.size = ControlSize],
        [MCData("command", 1, 1) EXCEPT !.crc = FALSE]}

MCSymmetry == Permutations({a1, a2})
=============================================================================
