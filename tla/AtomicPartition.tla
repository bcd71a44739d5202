--------------------------- MODULE AtomicPartition ---------------------------
(***************************************************************************)
(* What one partition of the shared board promises to the programs that    *)
(* use it, with no memory words, no program counters and no retries: the   *)
(* writers append to a history of committed payloads, and a snapshot that  *)
(* succeeds replaces a reader's view, in one step, by the newest committed *)
(* payload together with the revision that names it.  A snapshot that      *)
(* fails is a stuttering step: it leaves the caller's view alone.          *)
(*                                                                         *)
(* SeqlockPartition implements this specification.                         *)
(***************************************************************************)
EXTENDS Naturals, Sequences

CONSTANTS
  Reader,    \* the processes that take snapshots of the partition
  Payload    \* the payloads a writer may commit

VARIABLES
  history,   \* the payloads committed so far, oldest first
  view       \* per reader: the payload and revision its last snapshot gave

avars == <<history, view>>

\* The revision that names the newest commit: two per commit, 0 for none.
NewestRevision == 2 * Len(history)

ANoView == [revision |-> 0, payload |-> << >>]

AInit ==
  /\ history = << >>
  /\ view = [r \in Reader |-> ANoView]

Commit(p) ==
  /\ history' = Append(history, p)
  /\ UNCHANGED view

Snapshot(r) ==
  /\ history # << >>
  /\ view' = [view EXCEPT ![r] = [revision |-> NewestRevision,
                                  payload  |-> history[Len(history)]]]
  /\ UNCHANGED history

ANext ==
  \/ \E p \in Payload : Commit(p)
  \/ \E r \in Reader : Snapshot(r)

ASpec == AInit /\ [][ANext]_avars
=============================================================================
