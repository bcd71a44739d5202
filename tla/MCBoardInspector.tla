-------------------------- MODULE MCBoardInspector --------------------------
(***************************************************************************)
(* A small instance of BoardInspector.  Motor packets: what the encoders   *)
(* write under any type and role, with every combination of zero           *)
(* identifiers under the right ones, and what differs from a proper packet *)
(* in up to two fields.  Observations: both schemas with every pattern of  *)
(* two doubles, with and without ends of their names, and damaged ones.    *)
(***************************************************************************)
EXTENDS BoardInspector, FiniteSets

CONSTANTS m0, m1, x, y, nan

MCHeader(types, roles, ids) == [type : types, role : roles, sequence : ids, session : ids]

MCEncode(headers, motors) ==
  {EncodeFrame(k, [header |-> h, motors |-> m]) : k \in Kind, h \in headers, m \in motors}
  \cup {EncodeControl(h, m0) : h \in headers}

MCAnyHeader == MCEncode(MCHeader({0, 1, 3, 4, 5}, 0 .. 3, {1}), {m1})
MCAnyId == MCEncode(MCHeader(CommandType .. StateType, Role, 0 .. 1), {m0})

MCProper == {p \in MCAnyHeader : \E k \in Kind : IsFrameOf(k, p)}

MCDamage(p) ==
  {[p EXCEPT !.magic = "other"], [p EXCEPT !.version = 1], [p EXCEPT !.flags = 1],
   [p EXCEPT !.crc = FALSE]}
  \cup {[p EXCEPT !.size = n] : n \in {ControlSize - 1, ControlSize, StateSize, CommandSize}}
  \cup {[p EXCEPT !.payloadSize = n] : n \in {0, StatePayloadSize, CommandPayloadSize}}

MCDamagedOnce == UNION {MCDamage(p) : p \in MCProper}
MCDamagedTwice == UNION {MCDamage(p) : p \in MCDamagedOnce}

\* The filters only make TLC enumerate the sets once.
MCPacket ==
  {p \in MCAnyHeader \cup MCAnyId \cup MCDamagedOnce \cup MCDamagedTwice : p.size \in Nat}

MCEnvelope(s, type, stamp, name, values) ==
  EncodedObservation(s, [type |-> type, stamp |-> stamp, name |-> name, values |-> values])

MCObservation ==
  {MCEnvelope(s, type, 1, 1, values) : s \in Schema, type \in 0 .. 3, values \in Values}
  \cup {MCEnvelope(s, type, 2, name, <<x, y>>) : s \in Schema, type \in 1 .. 3, name \in {2, 3}}
MCObservationDamage(p) ==
  {[p EXCEPT !.magic = "other"], [p EXCEPT !.crc = FALSE],
   [p EXCEPT !.size = 243], [p EXCEPT !.size = IF @ = 244 THEN 844 ELSE 244]}

MCSeen ==
  {p \in MCObservation
         \cup UNION {MCObservationDamage(MCEnvelope(s, type, 2, 2, <<x, x>>)) :
                       s \in Schema, type \in 1 .. 3} : p.size \in Nat}
=============================================================================
