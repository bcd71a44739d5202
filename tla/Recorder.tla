------------------------------ MODULE Recorder ------------------------------
(***************************************************************************)
(* The recorder of the relay binary (recordBoard): a sampler that copies   *)
(* new snapshots of the board's partitions into a bounded queue, and a     *)
(* writer goroutine that takes them from there into a gzip archive, beside *)
(* which a manifest is left when all went well.  The board's programs      *)
(* publish while both run, the disk may fail at any write, and a signal,   *)
(* the timer or a crash may end the recording at any point.                *)
(*                                                                         *)
(* A snapshot is atomic (SeqlockPartition), and busy when a writer keeps   *)
(* publishing or died half way.  Record sizes and bytes are left out.      *)
(***************************************************************************)
EXTENDS Integers, Sequences, FiniteSetsExt

CONSTANTS
  LastSlot,     \* the partitions are 0 .. LastSlot: 7 in the code
  QueueLimit,   \* capacity of the queue: 128 in the code
  Absent,       \* no sidecar file, no item, or nothing in a channel
  Stale,        \* a sidecar that was there before
  Torn,         \* a sidecar that is not, or not wholly, written
  MaxRevision   \* bound: per partition, the revision no publish goes beyond

ASSUME RecorderAssumption ==
  /\ QueueLimit \in Nat \ {0}
  /\ LastSlot \in Nat /\ MaxRevision \in [0 .. LastSlot -> Nat]
  /\ Absent # Stale /\ Torn \notin {Absent, Stale}
  /\ Absent \notin {"nil", "error"} \cup [slot : 0 .. LastSlot, revision : Nat]
  /\ \A file \in {Absent, Stale, Torn} :
       file \notin [length : Nat, records : Nat, drops : Nat, overwritten : Nat, invalid : Nat]

Slot == 0 .. LastSlot

\* What the queue and the archive hold, and what a manifest says.
Sample == [slot : Slot, revision : Nat]
Manifests == [length : Nat, records : Nat, drops : Nat, overwritten : Nat, invalid : Nat]

VARIABLES
  board,      \* per slot: the newest committed revision, and whether it decodes
  stop,       \* the timer has fired or a signal is waiting
  pc,         \* where recordBoard is
  next,       \* the slot it samples next
  revisions,  \* per slot: the revision sampled last
  counts,     \* the manifest's counters, Records aside
  queue,      \* the channel to the writer goroutine
  writer,     \* where the goroutine is
  item,       \* the snapshot it has taken from the queue
  written,    \* the records it has written, in order: manifest.Records of them
  done,       \* the channel on which it reports its end
  archive,    \* how much of written is in the file, and whether gzip closed it
  sidecar,    \* the manifest file
  result,     \* what recordBoard returned
  sampled     \* history: per slot, the revisions sampled

recorder == <<pc, next, revisions, counts, result, sampled>>
goroutine == <<writer, item, written, done>>
disk == <<archive, sidecar>>
vars == <<board, stop, recorder, queue, goroutine, disk>>
-----------------------------------------------------------------------------
\* The archive is created exclusively: it was not there before.
Init ==
  /\ board = [s \in Slot |-> [revision |-> 0, valid |-> TRUE]]
  /\ stop = FALSE
  /\ pc = "select" /\ next = 0 /\ result = "running"
  /\ revisions = [s \in Slot |-> 0]
  /\ counts = [drops |-> 0, overwritten |-> 0, invalid |-> 0]
  /\ queue = << >> /\ written = << >>
  /\ writer = "receive" /\ item = Absent /\ done = Absent
  /\ archive = [length |-> 0, closed |-> FALSE]
  /\ sidecar \in {Absent, Stale}
  /\ sampled = [s \in Slot |-> << >>]

\* A controller or simulator commits to its partition.
Publish(s) ==
  /\ board[s].revision < MaxRevision[s]
  /\ \E valid \in BOOLEAN :
       board' = [board EXCEPT ![s] = [revision |-> @.revision + 2, valid |-> valid]]
  /\ UNCHANGED <<stop, recorder, queue, goroutine, disk>>

\* The timer fires or SIGINT or SIGTERM arrives.
Interrupt ==
  /\ ~stop /\ stop' = TRUE
  /\ UNCHANGED <<board, recorder, queue, goroutine, disk>>
-----------------------------------------------------------------------------
(***************************************************************************)
(* The sampler.                                                            *)
(***************************************************************************)

Return(r) == pc' = "returned" /\ result' = r

\* select: whatever is ready, in no order.
SelectDone ==
  /\ pc = "select" /\ done # Absent
  /\ done' = Absent
  /\ Return("error")
  /\ UNCHANGED <<board, stop, next, revisions, counts, sampled, queue, writer, item, written,
                 disk>>

SelectStop ==
  /\ pc = "select" /\ stop
  /\ pc' = "closing"     \* close(queue)
  /\ UNCHANGED <<board, stop, next, revisions, counts, result, sampled, queue, goroutine, disk>>

SelectTick ==
  /\ pc = "select"
  /\ pc' = "sample" /\ next' = 0
  /\ UNCHANGED <<board, stop, revisions, counts, result, sampled, queue, goroutine, disk>>

NextSlot ==
  IF next + 1 \in Slot THEN next' = next + 1 /\ UNCHANGED pc
                       ELSE pc' = "select" /\ UNCHANGED next

\* readBoardSlot finds nothing, nothing new, or three times a busy partition.
SkipSlot ==
  /\ pc = "sample"
  /\ NextSlot
  /\ UNCHANGED <<board, stop, revisions, counts, result, sampled, queue, goroutine, disk>>

\* Mutant: the sampled commit counts as overwritten.
OverwrittenWithItself(old, new) == IF old # 0 /\ new > old + 2 THEN (new - old) \div 2 ELSE 0

\* A new snapshot; the send into the queue does not wait.
Overwritten(old, new) == IF old # 0 /\ new > old + 2 THEN (new - old) \div 2 - 1 ELSE 0

\* Mutants: a full queue is not counted; the same revision is sampled again.
SampleSlotUncounted ==
  LET revision == board[next].revision
      queued == board[next].valid /\ Len(queue) < QueueLimit
  IN
  /\ pc = "sample"
  /\ revision \notin {0, revisions[next]}
  /\ counts' = [counts EXCEPT
       !.overwritten = @ + Overwritten(revisions[next], revision),
       !.invalid = @ + IF board[next].valid THEN 0 ELSE 1]
  /\ revisions' = [revisions EXCEPT ![next] = revision]
  /\ queue' = IF queued THEN Append(queue, [slot |-> next, revision |-> revision]) ELSE queue
  /\ sampled' = [sampled EXCEPT ![next] = Append(@, revision)]
  /\ NextSlot
  /\ UNCHANGED <<board, stop, result, goroutine, disk>>
SampleSlotAgain ==
  LET revision == board[next].revision IN
  /\ pc = "sample"
  /\ revision # 0 /\ board[next].valid /\ Len(queue) < QueueLimit
  /\ revisions' = [revisions EXCEPT ![next] = revision]
  /\ queue' = Append(queue, [slot |-> next, revision |-> revision])
  /\ sampled' = [sampled EXCEPT ![next] = Append(@, revision)]
  /\ NextSlot
  /\ UNCHANGED <<board, stop, counts, result, goroutine, disk>>

SampleSlot ==
  LET revision == board[next].revision
      queued == board[next].valid /\ Len(queue) < QueueLimit
      One(condition) == IF condition THEN 1 ELSE 0
  IN
  /\ pc = "sample"
  /\ revision \notin {0, revisions[next]}
  /\ counts' = [counts EXCEPT
       !.overwritten = @ + Overwritten(revisions[next], revision),
       !.invalid = @ + One(~board[next].valid),
       !.drops = @ + One(board[next].valid /\ ~queued)]
  /\ revisions' = [revisions EXCEPT ![next] = revision]
  /\ queue' = IF queued THEN Append(queue, [slot |-> next, revision |-> revision]) ELSE queue
  /\ sampled' = [sampled EXCEPT ![next] = Append(@, revision)]
  /\ NextSlot
  /\ UNCHANGED <<board, stop, result, goroutine, disk>>

\* Mutant: the writer is not waited for.
AwaitNothing ==
  /\ pc = "closing" /\ pc' = "seal"
  /\ UNCHANGED <<board, stop, next, revisions, counts, result, sampled, queue, goroutine, disk>>

\* After close(queue): the writer's last word, then Sync and Stat.
AwaitDone ==
  /\ pc = "closing" /\ done # Absent
  /\ done' = Absent
  /\ \/ done = "nil" /\ pc' = "seal" /\ UNCHANGED result
     \/ Return("error")     \* the writer's error, or that of Sync or Stat
  /\ UNCHANGED <<board, stop, next, revisions, counts, sampled, queue, writer, item, written,
                 disk>>

Manifest ==
  [length |-> archive.length, records |-> Len(written), drops |-> counts.drops,
   overwritten |-> counts.overwritten, invalid |-> counts.invalid]

\* Mutant: a manifest that is there is overwritten.
CreateSidecarOver ==
  /\ pc = "seal" /\ pc' = "fill" /\ sidecar' = Torn
  /\ UNCHANGED <<board, stop, next, revisions, counts, result, sampled, queue, goroutine,
                 archive>>

\* The sidecar is created exclusively as well, then written and closed; a
\* failing write leaves a part of it, a failing close perhaps all of it.
CreateSidecar ==
  /\ pc = "seal"
  /\ IF sidecar = Absent THEN pc' = "fill" /\ sidecar' = Torn /\ UNCHANGED result
                         ELSE Return("error") /\ UNCHANGED sidecar
  /\ UNCHANGED <<board, stop, next, revisions, counts, sampled, queue, goroutine, archive>>

WriteSidecar ==
  /\ pc = "fill"
  /\ \/ sidecar' = Manifest /\ Return("nil")
     \/ sidecar' \in {Torn, Manifest} /\ Return("error")
  /\ UNCHANGED <<board, stop, next, revisions, counts, sampled, queue, goroutine, archive>>

Sampler ==
  \/ SelectDone \/ SelectStop \/ SelectTick
  \/ SkipSlot \/ SampleSlot
  \/ AwaitDone \/ CreateSidecar \/ WriteSidecar
-----------------------------------------------------------------------------
(***************************************************************************)
(* The writer goroutine.                                                   *)
(***************************************************************************)

\* It lives as long as its process does.
Alive == pc # "returned"
Closed == pc = "closing"

Receive ==
  /\ Alive /\ writer = "receive" /\ queue # << >>
  /\ item' = Head(queue) /\ queue' = Tail(queue)
  /\ writer' = "write"
  /\ UNCHANGED <<board, stop, recorder, written, done, disk>>

\* Mutant: a writer that fails tells nobody.
EndQuietly(report) ==
  writer' = "ended" /\ done' = IF report = "nil" THEN report ELSE done

End(report) == writer' = "ended" /\ done' = report

WriteItem ==
  /\ Alive /\ writer = "write"
  /\ item' = Absent
  /\ \/ /\ written' = Append(written, item) /\ writer' = "receive"
        /\ UNCHANGED done
     \/ /\ End("error")
        /\ UNCHANGED written
  /\ UNCHANGED <<board, stop, recorder, queue, disk>>

\* The queue is closed and empty: Flush and gzip's Close, which bring the rest
\* into the file.
CloseArchive ==
  /\ Alive /\ writer = "receive" /\ queue = << >> /\ Closed
  /\ \/ End("nil") /\ archive' = [length |-> Len(written), closed |-> TRUE]
     \/ End("error") /\ UNCHANGED archive
  /\ UNCHANGED <<board, stop, recorder, queue, item, written, sidecar>>

\* The buffers overflow into the file now and then.
Spill ==
  /\ Alive /\ archive.length < Len(written) /\ ~archive.closed
  /\ \E n \in archive.length + 1 .. Len(written) : archive' = [archive EXCEPT !.length = n]
  /\ UNCHANGED <<board, stop, recorder, queue, goroutine, sidecar>>

Goroutine == Receive \/ WriteItem \/ CloseArchive

\* The process is killed; the files stay as they are.
Crash ==
  /\ Alive /\ Return("killed")
  /\ UNCHANGED <<board, stop, next, revisions, counts, sampled, queue, goroutine, disk>>

Next ==
  \/ \E s \in Slot : Publish(s)
  \/ Interrupt \/ Sampler \/ Goroutine \/ Spill \/ Crash

Spec == Init /\ [][Next]_vars

\* Both goroutines run; select picks among ready channels at random, so that
\* none of them is passed over for ever.
FairSpec ==
  /\ Spec
  /\ WF_vars(Sampler) /\ WF_vars(Goroutine)
  /\ SF_vars(SelectStop) /\ SF_vars(SelectDone)
-----------------------------------------------------------------------------
(***************************************************************************)
(* Properties.                                                             *)
(***************************************************************************)

Total(f) == SumFunctionOnSet(f, Slot)

\* Every snapshot taken is written, on its way, dropped or invalid, wherever
\* the two goroutines are; the one the disk refused is the only exception.
SamplesAccounted ==
  LET onTheWay == Len(queue) + (IF item # Absent THEN 1 ELSE 0)
      all == Len(written) + onTheWay + counts.drops + counts.invalid
      taken == Total([s \in Slot |-> Len(sampled[s])])
      failed == writer = "ended" /\ ~archive.closed
  IN  taken - all \in {0} \cup IF failed THEN {1} ELSE {}

\* From the first snapshot of a slot to the last, every commit to it was
\* sampled or is counted as overwritten, over all interleavings of the
\* sampling passes with the board's writers.
Missed(s) ==
  IF sampled[s] = << >> THEN 0
  ELSE (revisions[s] - Head(sampled[s])) \div 2 + 1 - Len(sampled[s])

OverwritesAccounted == counts.overwritten = Total([s \in Slot |-> Missed(s)])

\* The records of a slot are written in the order of their revisions.
WrittenInOrder ==
  \A i, j \in DOMAIN written :
    i < j /\ written[i].slot = written[j].slot => written[i].revision < written[j].revision

\* A manifest that belongs to this recording is only ever beside the complete
\* archive: nothing is left in the queue, in the writer's hands or in its
\* buffers, and its numbers are the final ones, those that account for every
\* snapshot (SamplesAccounted).
OwnSidecar == sidecar \notin {Absent, Stale, Torn}

SealedIsComplete ==
  OwnSidecar =>
    /\ archive.closed /\ queue = << >> /\ item = Absent
    /\ sidecar.length = Len(written) /\ sidecar.records = Len(written)
    /\ sidecar.drops = counts.drops /\ sidecar.invalid = counts.invalid
    /\ sidecar.overwritten = counts.overwritten

\* What analyzeArchive reports as unobserved commits between the records of a
\* sealed archive is explained by the manifest's own counters.
Of(s) == {i \in 1 .. Len(written) : written[i].slot = s}

Unobserved(s) ==
  IF Of(s) = {} THEN 0
  ELSE (written[Max(Of(s))].revision - written[Min(Of(s))].revision) \div 2
         + 1 - Cardinality(Of(s))

GapsExplained ==
  OwnSidecar =>
    Total([s \in Slot |-> Unobserved(s)])
      <= sidecar.overwritten + sidecar.drops + sidecar.invalid

\* Success is reported only with the recording's own manifest in place, and a
\* manifest that was there before survives.
SuccessIsSealed ==
  [][(result' = "nil" => OwnSidecar') /\ (sidecar = Stale => sidecar' = Stale)]_vars

\* Once the timer has fired or a signal has arrived, the recorder ends,
\* whatever the disk and the writer do, and a writer that fails ends it, too.
RecorderEnds == (stop \/ done = "error") ~> pc = "returned"
-----------------------------------------------------------------------------
(***************************************************************************)
(* What makes the invariants inductive.                                    *)
(***************************************************************************)

RecorderTypeOK ==
  /\ board \in [Slot -> [revision : Nat, valid : BOOLEAN]]
  /\ pc \in {"select", "sample", "closing", "seal", "fill", "returned"}
  /\ next \in Slot
  /\ revisions \in [Slot -> Nat]
  /\ counts \in [drops : Nat, overwritten : Nat, invalid : Nat]
  /\ queue \in Seq(Sample) /\ Len(queue) <= QueueLimit
  /\ written \in Seq(Sample)
  /\ writer \in {"receive", "write", "ended"}
  /\ item \in IF writer = "write" THEN Sample ELSE {Absent}
  /\ done \in {Absent, "nil", "error"}
  /\ archive \in [length : Nat, closed : BOOLEAN]
  /\ sidecar \in {Absent, Stale, Torn} \cup Manifests

\* The archive is closed by a goroutine that has emptied a closed queue; the
\* manifest is written after that, once.
EndsInOrder ==
  /\ archive.closed =>
       /\ writer = "ended" /\ queue = << >> /\ archive.length = Len(written)
       /\ pc \notin {"select", "sample"}
  /\ done = "nil" => archive.closed
  /\ pc \in {"seal", "fill"} => archive.closed
  /\ pc = "fill" => sidecar = Torn
  /\ OwnSidecar => archive.closed /\ pc = "returned" /\ sidecar = Manifest
  /\ result = "nil" => OwnSidecar

\* From the archive through the writer's hands and the queue to the board, the
\* revisions of a slot rise.
Rises(early, late) == early.slot = late.slot => early.revision < late.revision
Known(r, newest) == r.revision <= newest[r.slot]

RevisionsRise ==
  /\ \A s \in Slot : revisions[s] <= board[s].revision
  /\ \A i \in 1 .. Len(written) : Known(written[i], revisions)
  /\ \A i \in 1 .. Len(queue) : Known(queue[i], revisions)
  /\ item # Absent => Known(item, revisions)
  /\ \A i, j \in 1 .. Len(written) : i < j => Rises(written[i], written[j])
  /\ \A i, j \in 1 .. Len(queue) : i < j => Rises(queue[i], queue[j])
  /\ \A i \in 1 .. Len(written), j \in 1 .. Len(queue) : Rises(written[i], queue[j])
  /\ item # Absent =>
       /\ \A i \in 1 .. Len(written) : Rises(written[i], item)
       /\ \A j \in 1 .. Len(queue) : Rises(item, queue[j])

RecorderInv == RecorderTypeOK /\ EndsInOrder /\ RevisionsRise

\* A commit adds two to a revision; from a slot's first snapshot on, nothing
\* older than that goes into the queue.
SinceFirst(r) == sampled[r.slot] # << >> /\ Head(sampled[r.slot]) <= r.revision

SampledFromFirst ==
  /\ sampled \in [Slot -> Seq(Nat)]
  /\ \A s \in Slot :
       /\ board[s].revision % 2 = 0 /\ revisions[s] % 2 = 0
       /\ sampled[s] = << >> <=> revisions[s] = 0
       /\ sampled[s] # << >> => /\ Head(sampled[s]) <= revisions[s]
                               /\ Head(sampled[s]) % 2 = 0
  /\ \A i \in 1 .. Len(written) : SinceFirst(written[i])
  /\ \A i \in 1 .. Len(queue) : SinceFirst(queue[i])
  /\ item # Absent => SinceFirst(item)

CountsInv == RecorderInv /\ SampledFromFirst /\ SamplesAccounted /\ OverwritesAccounted
=============================================================================
