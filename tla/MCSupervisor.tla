----------------------------- MODULE MCSupervisor -----------------------------
(***************************************************************************)
(* A small instance of Supervisor: a workload of three processes, every    *)
(* manifest of up to two profiles over a few settings, sound or not, and   *)
(* ambient environments that agree and differ in what it manages.          *)
(***************************************************************************)
EXTENDS Supervisor, TLC

CONSTANTS p1, p2, p3

MCSettings ==
  {[key \in {} |-> ""], "MODE" :> "1", ("MODE" :> "1") @@ ("ODOM" :> "1"),
   "ODOM" :> NulValue, "BOARD" :> "mine", "lower" :> "1"}

MCAdapter ==
  [metadata : {TRUE}, boardEnv : {"BOARD"}, clearEnv : {{}, {"OLD"}},
   profiles : UNION {[names -> MCSettings] : names \in SUBSET {"motor", "odom"}}]
  \cup [metadata : BOOLEAN, boardEnv : {"BOARD", "lower"}, clearEnv : {{}, {"lower"}},
        profiles : {"motor" :> ("MODE" :> "1")}]

MCAmbient ==
  {"KEEP" :> "ok",
   ("KEEP" :> "ok") @@ ("ODOM" :> "9") @@ ("BOARD" :> "old"),
   ("KEEP" :> "ok") @@ ("MODE" :> "9") @@ ("OLD" :> "9")}

MCJob ==
  [command : {"run"}, adapter : MCAdapter, profile : {"motor"}, base : MCAmbient]
  \cup [command : {"backend"}, adapter : {a \in MCAdapter : Loads(a)}, profile : {"motor", "odom"},
        base : {"KEEP" :> "ok"}]

MCSymmetry == Permutations(Process \ {leader})
=============================================================================
