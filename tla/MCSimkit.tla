------------------------------ MODULE MCSimkit ------------------------------
(***************************************************************************)
(* A small instance of Simkit: the workloads of MCSupervisor; every        *)
(* archive of up to three records of two slots, with the damage that the   *)
(* readers look for in one of them, beside its own manifest, and those of  *)
(* up to one beside one wrong in a field, a foreign one, and one that does *)
(* not decode, has data after it, or ends at or just past the limit; every *)
(* model of up to three joints for a wire of two, each joint sound or with *)
(* one thing wrong, and two runs that prepare it.                          *)
(***************************************************************************)
EXTENDS Simkit, MCSupervisor

CONSTANTS r1, r2

MCGood == {[slot |-> s, size |-> 8, revision |-> r, intact |-> TRUE] :
             s \in {0, 7}, r \in {2, 4, 8}}

MCBad ==
  LET good == [slot |-> 0, size |-> 8, revision |-> 6, intact |-> TRUE] IN
  {[good EXCEPT !.intact = FALSE], [good EXCEPT !.size = 0],
   [good EXCEPT !.size = MaxPayload + 1], [good EXCEPT !.slot = 8],
   [good EXCEPT !.revision = 0], [good EXCEPT !.revision = 3]}

MCRecords ==
  UNION {[1 .. n -> MCGood] : n \in 0 .. 3}
  \cup {<<g, b>> : g \in MCGood, b \in MCBad} \cup {<<b>> : b \in MCBad}

MCFiles(damage) ==
  {[prefix |-> d[1], whole |-> d[2], records |-> r] : d \in damage, r \in MCRecords}

MCFile == MCFiles({<<TRUE, TRUE>>, <<TRUE, FALSE>>, <<FALSE, TRUE>>})

MCManifest(f) ==
  [value |-> TRUE, length |-> 400, trailing |-> FALSE, format |-> TRUE,
   sha |-> f, records |-> Len(f.records), rawBytes |-> RawBytes(f), compressed |-> f]

MCOther == [prefix |-> TRUE, whole |-> TRUE, records |-> << >>]

MCWrong(m) ==
  {[m EXCEPT !.format = FALSE], [m EXCEPT !.sha = MCOther],
   [m EXCEPT !.records = @ + 1], [m EXCEPT !.rawBytes = @ + 1],
   [m EXCEPT !.compressed = MCOther],
   [m EXCEPT !.value = FALSE], [m EXCEPT !.trailing = TRUE],
   [m EXCEPT !.trailing = TRUE, !.sha = MCOther],
   [m EXCEPT !.length = ManifestLimit], [m EXCEPT !.length = ManifestLimit + 1]}

\* A second and a third record are there for the statistics.
MCSidecars(f) ==
  {MCManifest(f)} \cup IF Len(f.records) < 2 THEN MCWrong(MCManifest(f)) ELSE {}

MCJointOrder == <<"FR", "FL">>

MCLimit == [lower |-> 0, upper |-> 2, effort |-> 1, velocity |-> 1]
MCJoint ==
  LET good == [name |-> "FR", type |-> "revolute", limit |-> MCLimit] IN
  [name : {"FR", "FL", "tail"}, type : {"revolute", "fixed", "continuous"}, limit : {MCLimit}]
  \cup {[good EXCEPT !.limit.upper = 1], [good EXCEPT !.limit = NoLimit],
        [good EXCEPT !.limit.lower = NotANumber], [good EXCEPT !.limit.lower = 2],
        [good EXCEPT !.limit.effort = 0], [good EXCEPT !.limit.velocity = 0]}

MCModel ==
  [sound : {TRUE}, joints : UNION {[1 .. n -> MCJoint] : n \in 0 .. 3}]
  \cup {[sound |-> FALSE, joints |-> [i \in 1 .. 2 |->
         [name |-> MCJointOrder[i], type |-> "revolute", limit |-> MCLimit]]]}
=============================================================================
