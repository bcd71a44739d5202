--------------------------- MODULE RecorderProofs ---------------------------
(***************************************************************************)
(* For every number of slots, every capacity of the queue and every        *)
(* schedule of commits, disk failures, signals and crashes: the archive    *)
(* holds the records of a slot in the order of their revisions, and a      *)
(* manifest of the recording is beside the complete archive or nowhere.    *)
(***************************************************************************)
EXTENDS Recorder, DataFacts, SequenceTheorems, TLAPS

LEMMA SlotFacts == Slot \subseteq Int /\ 0 \in Slot
  BY RecorderAssumption DEF Slot

LEMMA Markers ==
  /\ Absent # Stale /\ Torn # Absent /\ Torn # Stale
  /\ Absent # "nil" /\ Absent # "error" /\ Absent \notin Sample
  /\ Absent \notin Manifests /\ Stale \notin Manifests /\ Torn \notin Manifests
<1>1. Sample \subseteq [slot : 0 .. LastSlot, revision : Nat]
  BY DEF Sample, Slot
<1> QED
  BY <1>1, RecorderAssumption DEF Manifests

LEMMA ManifestType == RecorderTypeOK => Manifest \in Manifests
<1> SUFFICES ASSUME RecorderTypeOK PROVE Manifest \in Manifests
  OBVIOUS
<1>1. Len(written) \in Nat
  BY LenProperties DEF RecorderTypeOK
<1>2. archive.length \in Nat
  BY DEF RecorderTypeOK
<1>3. counts.drops \in Nat /\ counts.overwritten \in Nat /\ counts.invalid \in Nat
  BY DEF RecorderTypeOK
<1> QED
  BY <1>1, <1>2, <1>3 DEF Manifest, Manifests

LEMMA OverwrittenType ==
  ASSUME NEW old \in Nat, NEW new \in Nat
  PROVE  Overwritten(old, new) \in Nat
<1>1. CASE old # 0 /\ new > old + 2
  <2> DEFINE d == new - old
  <2>1. d \in Nat /\ d >= 2
    BY <1>1
  <2> HIDE DEF d
  <2>2. d \div 2 \in Nat /\ d \div 2 >= 1
    BY <2>1
  <2>3. Overwritten(old, new) = d \div 2 - 1
    BY <1>1 DEF Overwritten, d
  <2> QED
    BY <2>2, <2>3
<1>2. CASE ~(old # 0 /\ new > old + 2)
  BY <1>2 DEF Overwritten
<1> QED
  BY <1>1, <1>2

-----------------------------------------------------------------------------
(***************************************************************************)
(* Types.                                                                  *)
(***************************************************************************)

LEMMA InitType == Init => RecorderTypeOK
<1> SUFFICES ASSUME Init PROVE RecorderTypeOK
  OBVIOUS
<1>1. << >> \in Seq(Sample) /\ Len(<< >>) = 0
  BY EmptySeq
<1>2. queue \in Seq(Sample) /\ Len(queue) <= QueueLimit /\ written \in Seq(Sample)
  BY <1>1, RecorderAssumption DEF Init
<1>3. board \in [Slot -> [revision : Nat, valid : BOOLEAN]] /\ revisions \in [Slot -> Nat]
  BY DEF Init
<1>4. counts \in [drops : Nat, overwritten : Nat, invalid : Nat]
  BY DEF Init
<1>5. next \in Slot /\ item \in IF writer = "write" THEN Sample ELSE {Absent}
  BY SlotFacts DEF Init
<1> QED
  BY <1>2, <1>3, <1>4, <1>5 DEF Init, RecorderTypeOK

\* One slot is sampled, whatever is in it.
LEMMA SampleType ==
  ASSUME RecorderTypeOK, SampleSlot
  PROVE  RecorderTypeOK'
<1> DEFINE revision == board[next].revision
           sample == [slot |-> next, revision |-> revision]
<1>1. revision \in Nat /\ next \in Slot /\ sample \in Sample
  BY DEF RecorderTypeOK, Sample
<1>2. revisions' \in [Slot -> Nat]
  BY <1>1 DEF SampleSlot, RecorderTypeOK
<1>3. revisions[next] \in Nat
  BY <1>1 DEF RecorderTypeOK
<1>4. Overwritten(revisions[next], revision) \in Nat
  BY <1>1, <1>3, OverwrittenType
<1>5. counts' \in [drops : Nat, overwritten : Nat, invalid : Nat]
  <2> DEFINE o == Overwritten(revisions[next], revision)
  <2>1. PICK i \in {0, 1}, d \in {0, 1} :
          counts' = [counts EXCEPT !.overwritten = @ + o, !.invalid = @ + i, !.drops = @ + d]
    <3> DEFINE valid == board[next].valid
               i == IF ~valid THEN 1 ELSE 0
               d == IF valid /\ ~(valid /\ Len(queue) < QueueLimit) THEN 1 ELSE 0
    <3>1. i \in {0, 1} /\ d \in {0, 1}
      OBVIOUS
    <3>2. counts' = [counts EXCEPT !.overwritten = @ + o, !.invalid = @ + i, !.drops = @ + d]
      BY Zenon DEF SampleSlot
    <3> HIDE DEF valid, i, d, o
    <3> QED
      BY <3>1, <3>2
  <2>2. o \in Nat
    BY <1>4
  <2> HIDE DEF o
  <2> QED
    <3>1. counts \in [drops : Nat, overwritten : Nat, invalid : Nat]
      BY DEF RecorderTypeOK
    <3>2. /\ counts.drops + d \in Nat /\ counts.overwritten + o \in Nat
          /\ counts.invalid + i \in Nat
      BY <2>2, <3>1
    <3>3. counts' = [drops |-> counts.drops + d, overwritten |-> counts.overwritten + o,
                     invalid |-> counts.invalid + i]
      BY <2>1, <3>1
    <3> QED
      BY <3>2, <3>3
<1>6. queue' \in Seq(Sample) /\ Len(queue') <= QueueLimit
  <2>1. CASE queue' = queue
    BY <2>1 DEF RecorderTypeOK
  <2>2. CASE queue' = Append(queue, sample) /\ Len(queue) < QueueLimit
    <3>1. queue \in Seq(Sample) /\ Len(queue) \in Nat /\ QueueLimit \in Nat
      BY LenProperties, RecorderAssumption DEF RecorderTypeOK
    <3>2. queue' \in Seq(Sample) /\ Len(queue') = Len(queue) + 1
      BY <1>1, <2>2, <3>1, AppendProperties
    <3> QED
      BY <2>2, <3>1, <3>2
  <2> QED
    BY <2>1, <2>2 DEF SampleSlot
<1>7. next' \in Slot /\ pc' \in {"select", "sample"}
  BY <1>1 DEF SampleSlot, NextSlot
<1> QED
  BY <1>2, <1>5, <1>6, <1>7 DEF SampleSlot, goroutine, disk, RecorderTypeOK

LEMMA SamplerType ==
  ASSUME RecorderTypeOK, Sampler
  PROVE  RecorderTypeOK'
<1>1. CASE SelectDone
  BY <1>1 DEF SelectDone, Return, disk, RecorderTypeOK
<1>2. CASE SelectStop
  BY <1>2 DEF SelectStop, goroutine, disk, RecorderTypeOK
<1>3. CASE SelectTick
  BY <1>3, SlotFacts DEF SelectTick, goroutine, disk, RecorderTypeOK
<1>4. CASE SkipSlot
  BY <1>4 DEF SkipSlot, NextSlot, goroutine, disk, RecorderTypeOK
<1>5. CASE SampleSlot
  BY <1>5, SampleType
<1>6. CASE AwaitDone
  BY <1>6 DEF AwaitDone, Return, disk, RecorderTypeOK
<1>7. CASE CreateSidecar
  BY <1>7 DEF CreateSidecar, Return, goroutine, RecorderTypeOK
<1>8. CASE WriteSidecar
  BY <1>8, ManifestType DEF WriteSidecar, Return, goroutine, RecorderTypeOK
<1> QED
  BY <1>1, <1>2, <1>3, <1>4, <1>5, <1>6, <1>7, <1>8 DEF Sampler

LEMMA GoroutineType ==
  ASSUME RecorderTypeOK, Goroutine
  PROVE  RecorderTypeOK'
<1>1. CASE Receive
  <2>1. queue \in Seq(Sample) /\ queue # << >> /\ Len(queue) \in Nat /\ QueueLimit \in Nat
    BY <1>1, LenProperties, RecorderAssumption DEF Receive, RecorderTypeOK
  <2>2. /\ Head(queue) \in Sample /\ Tail(queue) \in Seq(Sample)
        /\ Len(Tail(queue)) = Len(queue) - 1
    BY <2>1, HeadTailProperties
  <2>3. Len(Tail(queue)) <= QueueLimit
    BY <2>1, <2>2 DEF RecorderTypeOK
  <2> QED
    BY <1>1, <2>2, <2>3 DEF Receive, recorder, disk, RecorderTypeOK
<1>2. CASE WriteItem
  <2>1. item \in Sample /\ written \in Seq(Sample)
    BY <1>2 DEF WriteItem, RecorderTypeOK
  <2>2. Append(written, item) \in Seq(Sample)
    BY <2>1, AppendProperties
  <2> QED
    BY <1>2, <2>2 DEF WriteItem, End, recorder, disk, RecorderTypeOK
<1>3. CASE CloseArchive
  <2>1. Len(written) \in Nat /\ archive \in [length : Nat, closed : BOOLEAN]
    BY LenProperties DEF RecorderTypeOK
  <2>2. archive' \in {archive, [length |-> Len(written), closed |-> TRUE]}
    BY <1>3 DEF CloseArchive
  <2>5. [length |-> Len(written), closed |-> TRUE] \in [length : Nat, closed : BOOLEAN]
    BY <2>1
  <2>3. writer' = "ended" /\ done' \in {"nil", "error"} /\ item = Absent /\ item' = item
    BY <1>3 DEF CloseArchive, End, RecorderTypeOK
  <2>4. UNCHANGED <<board, recorder, queue, written, sidecar>>
    BY <1>3 DEF CloseArchive
  <2> QED
    BY <2>1, <2>2, <2>3, <2>4, <2>5 DEF recorder, RecorderTypeOK
<1> QED
  BY <1>1, <1>2, <1>3 DEF Goroutine

LEMMA NextType ==
  ASSUME RecorderTypeOK, [Next]_vars
  PROVE  RecorderTypeOK'
<1>1. CASE \E s \in Slot : Publish(s)
  BY <1>1 DEF Publish, recorder, goroutine, disk, RecorderTypeOK
<1>2. CASE Interrupt
  BY <1>2 DEF Interrupt, recorder, goroutine, disk, RecorderTypeOK
<1>3. CASE Spill
  <2>1. Len(written) \in Nat /\ archive.length \in Nat
    BY LenProperties DEF RecorderTypeOK
  <2>2. PICK n \in archive.length + 1 .. Len(written) :
          archive' = [archive EXCEPT !.length = n]
    BY <1>3 DEF Spill
  <2>3. n \in Nat
    BY <2>1, <2>2
  <2>4. archive' \in [length : Nat, closed : BOOLEAN]
    BY <2>2, <2>3 DEF RecorderTypeOK
  <2>5. UNCHANGED <<board, recorder, queue, goroutine, sidecar>>
    BY <1>3 DEF Spill
  <2> QED
    BY <2>4, <2>5 DEF recorder, goroutine, RecorderTypeOK
<1>4. CASE Crash
  BY <1>4 DEF Crash, Return, goroutine, disk, RecorderTypeOK
<1>5. CASE UNCHANGED vars
  BY <1>5 DEF vars, recorder, goroutine, disk, RecorderTypeOK
<1> QED
  BY <1>1, <1>2, <1>3, <1>4, <1>5, SamplerType, GoroutineType DEF Next

-----------------------------------------------------------------------------
(***************************************************************************)
(* How a recording ends.                                                   *)
(***************************************************************************)

LEMMA InitEnds == Init => EndsInOrder
  BY Markers DEF Init, EndsInOrder, OwnSidecar

\* A step before the end of the recording that leaves the writer's report, the
\* archive and the manifest alone.
LEMMA BeforeTheEnd ==
  ASSUME EndsInOrder, ~archive.closed, UNCHANGED <<archive, sidecar, result>>,
         done' # "nil", pc' \notin {"seal", "fill"}
  PROVE  EndsInOrder'
  BY DEF EndsInOrder, OwnSidecar

LEMMA SamplerEnds ==
  ASSUME RecorderTypeOK, EndsInOrder, Sampler
  PROVE  EndsInOrder'
<1>1. CASE SelectDone \/ SelectStop \/ SelectTick \/ SkipSlot \/ SampleSlot
  <2>1. pc \in {"select", "sample"} /\ ~archive.closed /\ ~OwnSidecar
    BY <1>1 DEF SelectDone, SelectStop, SelectTick, SkipSlot, SampleSlot, EndsInOrder
  <2>2. UNCHANGED <<archive, sidecar>> /\ pc' \notin {"seal", "fill"}
    BY <1>1 DEF SelectDone, SelectStop, SelectTick, SkipSlot, SampleSlot, NextSlot, Return, disk
  <2>3. done' \in {done, Absent} /\ result' \in {result, "error"}
    BY <1>1 DEF SelectDone, SelectStop, SelectTick, SkipSlot, SampleSlot, NextSlot, Return,
                goroutine
  <2> QED
    BY <2>1, <2>2, <2>3, Markers DEF EndsInOrder, OwnSidecar
<1>2. CASE AwaitDone
  BY <1>2, Markers DEF AwaitDone, Return, disk, EndsInOrder, OwnSidecar
<1>3. CASE CreateSidecar
  BY <1>3, Markers DEF CreateSidecar, Return, goroutine, EndsInOrder, OwnSidecar
<1>4. CASE WriteSidecar
  <2>1. archive.closed /\ Manifest' = Manifest /\ pc' = "returned"
    BY <1>4 DEF WriteSidecar, Return, goroutine, EndsInOrder, Manifest
  <2>2. Manifest \in Manifests
    BY ManifestType
  <2> QED
    BY <1>4, <2>1, <2>2, Markers DEF WriteSidecar, Return, goroutine, EndsInOrder, OwnSidecar
<1> QED
  BY <1>1, <1>2, <1>3, <1>4 DEF Sampler

\* The writer has ended once the archive is closed.
LEMMA GoroutineEnds ==
  ASSUME RecorderTypeOK, EndsInOrder, Goroutine
  PROVE  EndsInOrder'
<1>1. ~archive.closed /\ ~OwnSidecar /\ pc \notin {"seal", "fill"} /\ result # "nil"
  BY DEF Goroutine, Receive, WriteItem, CloseArchive, EndsInOrder
<1>2. CASE Receive
  BY <1>1, <1>2 DEF Receive, recorder, disk, EndsInOrder, OwnSidecar
<1>3. CASE WriteItem
  BY <1>1, <1>3 DEF WriteItem, End, recorder, disk, EndsInOrder, OwnSidecar
<1>4. CASE CloseArchive
  BY <1>1, <1>4 DEF CloseArchive, Closed, End, recorder, EndsInOrder, OwnSidecar
<1> QED
  BY <1>2, <1>3, <1>4 DEF Goroutine

LEMMA NextEnds ==
  ASSUME RecorderTypeOK, EndsInOrder, [Next]_vars
  PROVE  EndsInOrder'
<1>1. CASE (\E s \in Slot : Publish(s)) \/ Interrupt \/ UNCHANGED vars
  <2>1. UNCHANGED <<recorder, queue, goroutine, disk>>
    BY <1>1 DEF Publish, Interrupt, vars
  <2> QED
    BY <2>1 DEF recorder, goroutine, disk, EndsInOrder, OwnSidecar, Manifest
<1>2. CASE Spill
  BY <1>2 DEF Spill, recorder, goroutine, EndsInOrder, OwnSidecar
<1>3. CASE Crash
  BY <1>3 DEF Crash, Alive, Return, goroutine, disk, EndsInOrder, OwnSidecar
<1> QED
  BY <1>1, <1>2, <1>3, SamplerEnds, GoroutineEnds DEF Next

-----------------------------------------------------------------------------
(***************************************************************************)
(* Revisions rise on their way into the archive.                           *)
(***************************************************************************)

LEMMA InitRises == Init => RevisionsRise
<1> SUFFICES ASSUME Init PROVE RevisionsRise
  OBVIOUS
<1>1. Len(<< >>) = 0
  BY EmptySeq
<1>2. 1 .. Len(written) = {} /\ 1 .. Len(queue) = {}
  BY <1>1 DEF Init
<1>3. \A s \in Slot : revisions[s] <= board[s].revision
  BY DEF Init
<1>4. item = Absent
  BY DEF Init
<1> QED
  BY <1>2, <1>3, <1>4 DEF RevisionsRise

\* Nothing that is on its way, or has arrived, changes.
LEMMA SameRises ==
  ASSUME RevisionsRise, UNCHANGED <<board, revisions, queue, item, written>>
  PROVE  RevisionsRise'
  BY DEF RevisionsRise, Known

LEMMA PublishRises ==
  ASSUME RecorderTypeOK, RevisionsRise, NEW s \in Slot, Publish(s)
  PROVE  RevisionsRise'
<1>1. \A t \in Slot : revisions'[t] <= board'[t].revision
  <2> SUFFICES ASSUME NEW t \in Slot PROVE revisions[t] <= board'[t].revision
    BY DEF Publish, recorder
  <2>1. /\ revisions[t] \in Nat /\ board[t].revision \in Nat
        /\ revisions[t] <= board[t].revision
    BY DEF RecorderTypeOK, RevisionsRise
  <2>2. board'[t].revision \in {board[t].revision, board[t].revision + 2}
    BY DEF Publish, RecorderTypeOK
  <2> QED
    BY <2>1, <2>2
<1>2. UNCHANGED <<revisions, queue, item, written>>
  BY DEF Publish, recorder, goroutine
<1> QED
  BY <1>1, <1>2 DEF RevisionsRise, Known

\* A new snapshot is newer than all of its slot that were taken before.
LEMMA SampleRises ==
  ASSUME RecorderTypeOK, RevisionsRise, SampleSlot
  PROVE  RevisionsRise'
<1> DEFINE revision == board[next].revision
           sample == [slot |-> next, revision |-> revision]
           Older(r) == r \in Sample /\ Known(r, revisions)
<1>1. /\ next \in Slot /\ revision \in Nat /\ sample \in Sample
      /\ sample.slot = next /\ sample.revision = revision
      /\ revisions[next] \in Nat /\ revisions[next] < revision
      /\ \A s \in Slot : revisions[s] \in Nat
  <2>1. next \in Slot /\ revisions[next] \in Nat /\ revision \in Nat
    BY DEF RecorderTypeOK
  <2>2. revisions[next] <= revision /\ revisions[next] # revision
    BY <2>1 DEF RevisionsRise, SampleSlot
  <2> QED
    BY <2>1, <2>2 DEF Sample, RecorderTypeOK
<1>2. revisions' = [revisions EXCEPT ![next] = revision]
  BY DEF SampleSlot
<1> HIDE DEF revision, sample
<1>3. ASSUME NEW r, Older(r)
      PROVE  Known(r, revisions') /\ Rises(r, sample)
  <2>1. r.slot \in Slot /\ r.revision \in Nat /\ r.revision <= revisions[r.slot]
    BY <1>3 DEF Sample, Known
  <2>2. revisions'[r.slot] = IF r.slot = next THEN revision ELSE revisions[r.slot]
    BY <1>1, <1>2, <2>1 DEF RecorderTypeOK
  <2>3. Known(r, revisions')
    BY <1>1, <2>1, <2>2 DEF Known
  <2>4. Rises(r, sample)
    BY <1>1, <2>1 DEF Rises
  <2> QED
    BY <2>3, <2>4
<1>4. Known(sample, revisions')
  <2>1. revisions'[next] = revision
    BY <1>1, <1>2 DEF RecorderTypeOK
  <2> QED
    BY <1>1, <2>1 DEF Known
<1>5. UNCHANGED <<board, item, written>>
  BY DEF SampleSlot, goroutine
<1>6. \A i \in 1 .. Len(written) : Older(written[i])
  BY ElementOfSeq DEF RecorderTypeOK, RevisionsRise
<1>7. \A i \in 1 .. Len(queue) : Older(queue[i])
  BY ElementOfSeq DEF RecorderTypeOK, RevisionsRise
<1>8. item # Absent => Older(item)
  BY DEF RecorderTypeOK, RevisionsRise
<1>9. \A s \in Slot : revisions'[s] <= board'[s].revision
  <2> SUFFICES ASSUME NEW s \in Slot PROVE revisions'[s] <= board[s].revision
    BY <1>5
  <2>1. revisions'[s] = IF s = next THEN revision ELSE revisions[s]
    BY <1>1, <1>2 DEF RecorderTypeOK
  <2>2. CASE s = next
    BY <1>1, <2>1, <2>2 DEF revision
  <2>3. CASE s # next
    BY <2>1, <2>3 DEF RevisionsRise
  <2> QED
    BY <2>2, <2>3
<1> HIDE DEF Older
<1>10. CASE queue' = queue
  BY <1>3, <1>5, <1>6, <1>7, <1>8, <1>9, <1>10 DEF RevisionsRise
<1>11. CASE queue' = Append(queue, sample)
  <2>1. /\ queue \in Seq(Sample) /\ Len(queue) \in Nat
        /\ Len(queue') = Len(queue) + 1 /\ queue'[Len(queue) + 1] = sample
        /\ \A i \in 1 .. Len(queue) : queue'[i] = queue[i]
    BY <1>1, <1>11, AppendProperties, LenProperties DEF RecorderTypeOK
  <2>2. \A j \in 1 .. Len(queue') : j \in 1 .. Len(queue) \/ j = Len(queue) + 1
    BY <2>1
  <2>3. \A j \in 1 .. Len(queue') : Known(queue'[j], revisions')
    BY <1>3, <1>4, <1>7, <2>1, <2>2
  <2>4. \A i, j \in 1 .. Len(queue') : i < j => Rises(queue'[i], queue'[j])
    <3> SUFFICES ASSUME NEW i \in 1 .. Len(queue'), NEW j \in 1 .. Len(queue'), i < j
                 PROVE  Rises(queue'[i], queue'[j])
      OBVIOUS
    <3>1. i \in 1 .. Len(queue)
      BY <2>1
    <3>2. queue'[i] = queue[i]
      BY <2>1, <3>1
    <3>3. CASE j \in 1 .. Len(queue)
      BY <2>1, <3>1, <3>2, <3>3 DEF RevisionsRise
    <3>4. CASE j = Len(queue) + 1
      BY <1>3, <1>7, <2>1, <3>1, <3>2, <3>4
    <3> QED
      BY <2>2, <3>3, <3>4
  <2>5. \A i \in 1 .. Len(written), j \in 1 .. Len(queue') : Rises(written[i], queue'[j])
    BY <1>3, <1>6, <2>1, <2>2 DEF RevisionsRise
  <2>6. item # Absent => \A j \in 1 .. Len(queue') : Rises(item, queue'[j])
    BY <1>3, <1>8, <2>1, <2>2 DEF RevisionsRise
  <2>7. \A i \in 1 .. Len(written) : Known(written[i], revisions')
    BY <1>3, <1>6
  <2>8. item # Absent => Known(item, revisions')
    BY <1>3, <1>8
  <2> QED
    BY <1>5, <1>9, <2>3, <2>4, <2>5, <2>6, <2>7, <2>8 DEF RevisionsRise, Known
<1> QED
  BY <1>10, <1>11 DEF SampleSlot, revision, sample

\* The head of the queue is older than its tail.
LEMMA ReceiveRises ==
  ASSUME RecorderTypeOK, RevisionsRise, Receive
  PROVE  RevisionsRise'
<1>1. /\ queue \in Seq(Sample) /\ queue # << >> /\ Len(queue) \in Nat
      /\ Len(queue) # 0
  BY LenProperties, EmptySeq DEF Receive, RecorderTypeOK
<1>2. /\ Len(queue') = Len(queue) - 1
      /\ \A i \in 1 .. Len(queue') : queue'[i] = queue[i + 1]
      /\ item' = queue[1]
  BY <1>1, HeadTailProperties DEF Receive
<1>3. 1 \in 1 .. Len(queue)
  BY <1>1
<1>4. \A i \in 1 .. Len(queue') : i + 1 \in 1 .. Len(queue) /\ 1 < i + 1
  BY <1>1, <1>2
<1>5. UNCHANGED <<board, revisions, written>>
  BY DEF Receive, recorder
<1>6. \A i, j \in 1 .. Len(queue') : i < j => Rises(queue'[i], queue'[j])
  <2> SUFFICES ASSUME NEW i \in 1 .. Len(queue'), NEW j \in 1 .. Len(queue'), i < j
               PROVE  Rises(queue[i + 1], queue[j + 1])
    BY <1>2
  <2>1. i + 1 \in 1 .. Len(queue) /\ j + 1 \in 1 .. Len(queue) /\ i + 1 < j + 1
    BY <1>4
  <2> QED
    BY <2>1 DEF RevisionsRise
<1>7. \A i \in 1 .. Len(queue') : Known(queue'[i], revisions') /\ Rises(item', queue'[i])
  BY <1>2, <1>3, <1>4, <1>5 DEF RevisionsRise, Known
<1>8. \A i \in 1 .. Len(written), j \in 1 .. Len(queue') : Rises(written[i], queue'[j])
  BY <1>2, <1>4 DEF RevisionsRise
<1>9. Known(item', revisions') /\ \A i \in 1 .. Len(written) : Rises(written[i], item')
  BY <1>2, <1>3, <1>5 DEF RevisionsRise, Known
<1> QED
  BY <1>5, <1>6, <1>7, <1>8, <1>9 DEF RevisionsRise, Known

LEMMA WriteRises ==
  ASSUME RecorderTypeOK, RevisionsRise, WriteItem
  PROVE  RevisionsRise'
<1>1. UNCHANGED <<board, revisions, queue>> /\ item' = Absent
  BY DEF WriteItem, recorder
<1>2. CASE written' = written
  BY <1>1, <1>2 DEF RevisionsRise, Known
<1>3. CASE written' = Append(written, item)
  <2>1. item \in Sample /\ item # Absent
    BY Markers DEF WriteItem, RecorderTypeOK
  <2>2. /\ written \in Seq(Sample) /\ Len(written) \in Nat
        /\ Len(written') = Len(written) + 1 /\ written'[Len(written) + 1] = item
        /\ \A i \in 1 .. Len(written) : written'[i] = written[i]
    BY <1>3, <2>1, AppendProperties, LenProperties DEF RecorderTypeOK
  <2>3. \A j \in 1 .. Len(written') : j \in 1 .. Len(written) \/ j = Len(written) + 1
    BY <2>2
  <2>4. \A j \in 1 .. Len(written') : Known(written'[j], revisions')
    BY <1>1, <2>1, <2>2, <2>3 DEF RevisionsRise, Known
  <2>5. \A i, j \in 1 .. Len(written') : i < j => Rises(written'[i], written'[j])
    <3> SUFFICES ASSUME NEW i \in 1 .. Len(written'), NEW j \in 1 .. Len(written'), i < j
                 PROVE  Rises(written'[i], written'[j])
      OBVIOUS
    <3>1. i \in 1 .. Len(written)
      BY <2>2
    <3>2. CASE j \in 1 .. Len(written)
      BY <2>2, <3>1, <3>2 DEF RevisionsRise
    <3>3. CASE j = Len(written) + 1
      BY <2>1, <2>2, <3>1, <3>3 DEF RevisionsRise
    <3> QED
      BY <2>3, <3>2, <3>3
  <2>6. \A i \in 1 .. Len(written'), j \in 1 .. Len(queue) : Rises(written'[i], queue[j])
    BY <2>1, <2>2, <2>3 DEF RevisionsRise
  <2> QED
    BY <1>1, <2>4, <2>5, <2>6 DEF RevisionsRise, Known
<1> QED
  BY <1>2, <1>3 DEF WriteItem

LEMMA NextRises ==
  ASSUME RecorderTypeOK, RevisionsRise, [Next]_vars
  PROVE  RevisionsRise'
<1>1. CASE Interrupt \/ Spill \/ Crash \/ CloseArchive \/ UNCHANGED vars
  BY <1>1, SameRises DEF Interrupt, Spill, Crash, CloseArchive, vars, recorder, goroutine
<1>2. CASE SelectDone \/ SelectStop \/ SelectTick \/ SkipSlot
  BY <1>2, SameRises DEF SelectDone, SelectStop, SelectTick, SkipSlot, goroutine
<1>3. CASE AwaitDone \/ CreateSidecar \/ WriteSidecar
  BY <1>3, SameRises DEF AwaitDone, CreateSidecar, WriteSidecar, goroutine
<1> QED
  BY <1>1, <1>2, <1>3, PublishRises, SampleRises, ReceiveRises, WriteRises
  DEF Next, Sampler, Goroutine

-----------------------------------------------------------------------------
(***************************************************************************)
(* From the first snapshot of a slot on.                                   *)
(***************************************************************************)

LEMMA InitSampled == Init => SampledFromFirst
<1> SUFFICES ASSUME Init PROVE SampledFromFirst
  OBVIOUS
<1>1. 1 .. Len(written) = {} /\ 1 .. Len(queue) = {}
  BY EmptySeq DEF Init
<1>2. sampled \in [Slot -> Seq(Nat)]
  BY DEF Init
<1>3. \A s \in Slot : board[s].revision = 0 /\ revisions[s] = 0 /\ sampled[s] = << >>
  BY DEF Init
<1>4. item = Absent
  BY DEF Init
<1> QED
  BY <1>1, <1>2, <1>3, <1>4 DEF SampledFromFirst

LEMMA SameSampled ==
  ASSUME SampledFromFirst, UNCHANGED <<board, revisions, sampled, queue, item, written>>
  PROVE  SampledFromFirst'
  BY DEF SampledFromFirst, SinceFirst

LEMMA PublishSampled ==
  ASSUME RecorderTypeOK, SampledFromFirst, NEW s \in Slot, Publish(s)
  PROVE  SampledFromFirst'
<1>1. UNCHANGED <<revisions, sampled, queue, item, written>>
  BY DEF Publish, recorder, goroutine
<1>2. ASSUME NEW t \in Slot PROVE board'[t].revision % 2 = 0
  <2>1. board[t].revision \in Nat /\ board[t].revision % 2 = 0
    BY DEF RecorderTypeOK, SampledFromFirst
  <2>2. board'[t].revision \in {board[t].revision, board[t].revision + 2}
    BY DEF Publish, RecorderTypeOK
  <2> QED
    BY <2>1, <2>2
<1> QED
  BY <1>1, <1>2 DEF SampledFromFirst, SinceFirst

\* What a snapshot of a slot does to the history of that slot.
LEMMA SampleHistory ==
  ASSUME RecorderInv, SampledFromFirst, SampleSlot
  PROVE  /\ next \in Slot /\ revisions[next] \in Nat /\ board[next].revision \in Nat
         /\ revisions[next] < board[next].revision
         /\ revisions' \in [Slot -> Nat] /\ revisions'[next] = board[next].revision
         /\ \A s \in Slot \ {next} : revisions'[s] = revisions[s] /\ sampled'[s] = sampled[s]
         /\ sampled' \in [Slot -> Seq(Nat)] /\ sampled'[next] # << >>
         /\ Len(sampled[next]) \in Nat /\ Len(sampled'[next]) = Len(sampled[next]) + 1
         /\ Head(sampled'[next]) = IF sampled[next] = << >> THEN board[next].revision
                                                           ELSE Head(sampled[next])
<1> DEFINE new == board[next].revision
           old == sampled[next]
<1>1. next \in Slot /\ revisions[next] \in Nat /\ new \in Nat /\ old \in Seq(Nat)
  BY DEF RecorderInv, RecorderTypeOK, SampledFromFirst
<1>2. revisions[next] < new
  <2>1. revisions[next] <= new /\ revisions[next] # new
    BY <1>1 DEF RecorderInv, RevisionsRise, SampleSlot
  <2> QED
    BY <1>1, <2>1
<1>3. revisions' = [revisions EXCEPT ![next] = new] /\ revisions \in [Slot -> Nat]
  BY DEF SampleSlot, RecorderInv, RecorderTypeOK
<1>4. sampled' = [sampled EXCEPT ![next] = Append(old, new)] /\ sampled \in [Slot -> Seq(Nat)]
  BY DEF SampleSlot, SampledFromFirst
<1> HIDE DEF new, old
<1>5. /\ Append(old, new) \in Seq(Nat) /\ Len(old) \in Nat
      /\ Len(Append(old, new)) = Len(old) + 1 /\ Append(old, new) # << >>
      /\ Head(Append(old, new)) = IF old = << >> THEN new ELSE Head(old)
  <2>1. Append(old, new) \in Seq(Nat) /\ Len(old) \in Nat
        /\ Len(Append(old, new)) = Len(old) + 1 /\ Append(old, new) # << >>
    BY <1>1, AppendProperties, LenProperties, EmptySeq
  <2>2. Head(Append(old, new)) = Append(old, new)[1] /\ (old # << >> => Head(old) = old[1])
    BY <1>1, <2>1, HeadTailProperties
  <2>3. CASE old = << >>
    BY <1>1, <2>2, <2>3, EmptySeq, AppendProperties
  <2>4. CASE old # << >>
    <3>1. 1 \in 1 .. Len(old)
      BY <1>1, <2>1, <2>4, EmptySeq
    <3> QED
      BY <1>1, <2>2, <2>4, <3>1, AppendProperties
  <2> QED
    BY <2>1, <2>3, <2>4
<1>6. revisions' \in [Slot -> Nat] /\ revisions'[next] = new
      /\ \A s \in Slot \ {next} : revisions'[s] = revisions[s]
  BY <1>1, <1>3
<1>7. sampled' \in [Slot -> Seq(Nat)] /\ sampled'[next] = Append(old, new)
      /\ \A s \in Slot \ {next} : sampled'[s] = sampled[s]
  BY <1>1, <1>4, <1>5
<1> QED
  BY <1>1, <1>2, <1>5, <1>6, <1>7 DEF new, old

LEMMA SampleSampled ==
  ASSUME RecorderInv, SampledFromFirst, SampleSlot
  PROVE  SampledFromFirst'
<1> DEFINE revision == board[next].revision
           sample == [slot |-> next, revision |-> revision]
<1>1. UNCHANGED <<board, item, written>>
  BY DEF SampleSlot, goroutine
<1>2. sample \in Sample /\ sample.slot = next /\ sample.revision = revision
  BY SampleHistory DEF Sample
<1>3. ASSUME NEW s \in Slot
      PROVE  /\ board[s].revision % 2 = 0 /\ revisions'[s] % 2 = 0
             /\ sampled'[s] = << >> <=> revisions'[s] = 0
             /\ sampled'[s] # << >> => /\ Head(sampled'[s]) <= revisions'[s]
                                     /\ Head(sampled'[s]) % 2 = 0
             /\ sampled[s] # << >> => /\ sampled'[s] # << >>
                                    /\ Head(sampled'[s]) = Head(sampled[s])
  <2>1. /\ board[s].revision % 2 = 0 /\ revisions[s] % 2 = 0
        /\ sampled[s] = << >> <=> revisions[s] = 0
        /\ sampled[s] # << >> => Head(sampled[s]) <= revisions[s] /\ Head(sampled[s]) % 2 = 0
    BY DEF SampledFromFirst
  <2>2. CASE s = next
    <3>1. sampled[s] # << >> => Head(sampled[s]) \in Nat
      BY HeadTailProperties DEF SampledFromFirst
    <3> QED
      BY <2>1, <2>2, <3>1, SampleHistory
  <2>3. CASE s # next
    BY <2>1, <2>3, SampleHistory
  <2> QED
    BY <2>2, <2>3
<1> DEFINE Later(r) == sampled'[r.slot] # << >> /\ Head(sampled'[r.slot]) <= r.revision
<1>4. ASSUME NEW r \in Sample, SinceFirst(r) PROVE Later(r)
  <2>1. r.slot \in Slot
    BY DEF Sample
  <2> QED
    BY <1>3, <1>4, <2>1 DEF SinceFirst
<1>5. Later(sample)
  BY <1>2, <1>3, SampleHistory
<1>6. \A i \in 1 .. Len(written) : Later(written[i])
  <2>1. \A i \in 1 .. Len(written) : written[i] \in Sample /\ SinceFirst(written[i])
    BY ElementOfSeq DEF RecorderInv, RecorderTypeOK, SampledFromFirst
  <2> HIDE DEF Later
  <2> QED
    BY <1>4, <2>1
<1>7. \A i \in 1 .. Len(queue') : Later(queue'[i])
  <2>1. \A i \in 1 .. Len(queue) : queue[i] \in Sample /\ SinceFirst(queue[i])
    BY ElementOfSeq DEF RecorderInv, RecorderTypeOK, SampledFromFirst
  <2>2. CASE queue' = queue
    BY <1>4, <2>1, <2>2
  <2>3. CASE queue' = Append(queue, sample)
    <3>1. /\ Len(queue) \in Nat /\ Len(queue') = Len(queue) + 1
          /\ queue'[Len(queue) + 1] = sample
          /\ \A i \in 1 .. Len(queue) : queue'[i] = queue[i]
      BY <1>2, <2>3, AppendProperties, LenProperties DEF RecorderInv, RecorderTypeOK
    <3>2. \A i \in 1 .. Len(queue') : i \in 1 .. Len(queue) \/ i = Len(queue) + 1
      BY <3>1
    <3> HIDE DEF sample, Later
    <3> QED
      BY <1>4, <1>5, <2>1, <3>1, <3>2
  <2> QED
    BY <2>2, <2>3 DEF SampleSlot
<1>8. item # Absent => Later(item)
  <2>1. item # Absent => item \in Sample /\ SinceFirst(item)
    BY DEF RecorderInv, RecorderTypeOK, SampledFromFirst
  <2> QED
    BY <1>4, <2>1
<1> QED
  BY <1>1, <1>3, <1>6, <1>7, <1>8, SampleHistory DEF SampledFromFirst, SinceFirst

LEMMA ReceiveSampled ==
  ASSUME RecorderTypeOK, SampledFromFirst, Receive
  PROVE  SampledFromFirst'
<1>1. queue \in Seq(Sample) /\ queue # << >> /\ Len(queue) \in Nat /\ Len(queue) # 0
  BY LenProperties, EmptySeq DEF Receive, RecorderTypeOK
<1>2. /\ Len(queue') = Len(queue) - 1
      /\ \A i \in 1 .. Len(queue') : queue'[i] = queue[i + 1]
      /\ item' = queue[1]
  BY <1>1, HeadTailProperties DEF Receive
<1>3. 1 \in 1 .. Len(queue) /\ \A i \in 1 .. Len(queue') : i + 1 \in 1 .. Len(queue)
  BY <1>1, <1>2
<1>4. UNCHANGED <<board, revisions, sampled, written>>
  BY DEF Receive, recorder
<1> QED
  BY <1>2, <1>3, <1>4 DEF SampledFromFirst, SinceFirst

LEMMA WriteSampled ==
  ASSUME RecorderTypeOK, SampledFromFirst, WriteItem
  PROVE  SampledFromFirst'
<1>1. UNCHANGED <<board, revisions, sampled, queue>> /\ item' = Absent
  BY DEF WriteItem, recorder
<1>2. CASE written' = written
  BY <1>1, <1>2 DEF SampledFromFirst, SinceFirst
<1>3. CASE written' = Append(written, item)
  <2>1. item \in Sample /\ item # Absent
    BY Markers DEF WriteItem, RecorderTypeOK
  <2>2. /\ written \in Seq(Sample) /\ Len(written) \in Nat
        /\ Len(written') = Len(written) + 1 /\ written'[Len(written) + 1] = item
        /\ \A i \in 1 .. Len(written) : written'[i] = written[i]
    BY <1>3, <2>1, AppendProperties, LenProperties DEF RecorderTypeOK
  <2>3. \A i \in 1 .. Len(written') : i \in 1 .. Len(written) \/ i = Len(written) + 1
    BY <2>2
  <2> QED
    BY <1>1, <2>1, <2>2, <2>3 DEF SampledFromFirst, SinceFirst
<1> QED
  BY <1>2, <1>3 DEF WriteItem

LEMMA NextSampled ==
  ASSUME RecorderInv, SampledFromFirst, [Next]_vars
  PROVE  SampledFromFirst'
<1>1. CASE Interrupt \/ Spill \/ Crash \/ CloseArchive \/ UNCHANGED vars
  BY <1>1, SameSampled DEF Interrupt, Spill, Crash, CloseArchive, vars, recorder, goroutine
<1>2. CASE SelectDone \/ SelectStop \/ SelectTick \/ SkipSlot
  BY <1>2, SameSampled DEF SelectDone, SelectStop, SelectTick, SkipSlot, goroutine
<1>3. CASE AwaitDone \/ CreateSidecar \/ WriteSidecar
  BY <1>3, SameSampled DEF AwaitDone, CreateSidecar, WriteSidecar, goroutine
<1>4. RecorderTypeOK
  BY DEF RecorderInv
<1> QED
  BY <1>1, <1>2, <1>3, <1>4, PublishSampled, SampleSampled, ReceiveSampled, WriteSampled
  DEF Next, Sampler, Goroutine

-----------------------------------------------------------------------------
(***************************************************************************)
(* The manifest's counters.                                                *)
(***************************************************************************)

LEMMA TotalType ==
  ASSUME NEW f, \A s \in Slot : f[s] \in Int
  PROVE  Total(f) \in Int
<1>1. IsFiniteSet(Slot)
  BY RecorderAssumption, FS_Interval DEF Slot
<1> QED
  BY <1>1, SumType DEF Total

LEMMA TotalChange ==
  ASSUME NEW f, \A s \in Slot : f[s] \in Int, NEW s \in Slot,
         NEW g, \A t \in Slot : g[t] \in Int, \A t \in Slot \ {s} : g[t] = f[t]
  PROVE  Total(g) = Total(f) - f[s] + g[s]
<1>1. IsFiniteSet(Slot)
  BY RecorderAssumption, FS_Interval DEF Slot
<1> QED
  BY <1>1, SumChange DEF Total

\* The snapshots taken, and those whose whereabouts are known.
Taken == Total([s \in Slot |-> Len(sampled[s])])
OnTheWay == Len(queue) + (IF item # Absent THEN 1 ELSE 0)
Placed == Len(written) + OnTheWay + counts.drops + counts.invalid
Failed == writer = "ended" /\ ~archive.closed

LEMMA CountTypes ==
  ASSUME RecorderTypeOK, SampledFromFirst
  PROVE  /\ Taken \in Int /\ Len(written) \in Nat /\ Len(queue) \in Nat
         /\ counts.drops \in Nat /\ counts.invalid \in Nat /\ counts.overwritten \in Nat
         /\ \A s \in Slot : Len(sampled[s]) \in Nat
<1>1. \A s \in Slot : Len(sampled[s]) \in Nat
  BY LenProperties DEF SampledFromFirst
<1>2. Taken \in Int
  <2> DEFINE f == [s \in Slot |-> Len(sampled[s])]
  <2>1. \A s \in Slot : f[s] \in Int
    BY <1>1
  <2> HIDE DEF f
  <2>2. Total(f) \in Int
    BY <2>1, TotalType, TotalChange
  <2> QED
    BY <2>2 DEF Taken, f
<1> QED
  BY <1>1, <1>2, LenProperties DEF RecorderTypeOK

LEMMA SamplesMeans ==
  SamplesAccounted <=> Taken - Placed \in {0} \cup IF Failed THEN {1} ELSE {}
BY DEF SamplesAccounted, Taken, Placed, OnTheWay, Failed

\* What a snapshot does to the counters and the queue.
LEMMA SampleCounts ==
  ASSUME RecorderTypeOK, SampleSlot
  PROVE  /\ counts'.overwritten
              = counts.overwritten + Overwritten(revisions[next], board[next].revision)
         /\ Len(queue') + counts'.drops + counts'.invalid
              = Len(queue) + counts.drops + counts.invalid + 1
<1> DEFINE valid == board[next].valid
           room == Len(queue) < QueueLimit
           o == Overwritten(revisions[next], board[next].revision)
           i == IF ~valid THEN 1 ELSE 0
           d == IF valid /\ ~(valid /\ room) THEN 1 ELSE 0
           sample == [slot |-> next, revision |-> board[next].revision]
<1>1. /\ counts' = [counts EXCEPT !.overwritten = @ + o, !.invalid = @ + i, !.drops = @ + d]
      /\ queue' = IF valid /\ room THEN Append(queue, sample) ELSE queue
  BY Zenon DEF SampleSlot
<1>2. counts \in [drops : Nat, overwritten : Nat, invalid : Nat] /\ queue \in Seq(Sample)
      /\ Len(queue) \in Nat /\ sample \in Sample
  BY LenProperties DEF RecorderTypeOK, Sample
<1>3. Len(queue') = Len(queue) + IF valid /\ room THEN 1 ELSE 0
  <2> HIDE DEF valid, room, sample
  <2> QED
    BY <1>1, <1>2, AppendProperties
<1>4. i \in Nat /\ d \in Nat /\ i + d + (IF valid /\ room THEN 1 ELSE 0) = 1
  <2> HIDE DEF valid, room
  <2> QED
    OBVIOUS
<1> DEFINE q == IF valid /\ room THEN 1 ELSE 0
<1> HIDE DEF valid, room, o, i, d
<1>5. /\ counts'.overwritten = counts.overwritten + o
      /\ counts'.invalid = counts.invalid + i /\ counts'.drops = counts.drops + d
  BY <1>1, <1>2
<1>6. /\ counts.invalid \in Nat /\ counts.drops \in Nat
      /\ Len(queue') = Len(queue) + q /\ i + d + q = 1 /\ q \in Nat
  BY <1>2, <1>3, <1>4
<1> HIDE DEF q
<1>7. Len(queue') + counts'.drops + counts'.invalid
        = Len(queue) + counts.drops + counts.invalid + 1
  <2> DEFINE a == Len(queue)
             b == counts.drops
             c == counts.invalid
  <2>1. /\ a \in Nat /\ b \in Nat /\ c \in Nat
        /\ i \in Nat /\ d \in Nat /\ q \in Nat /\ i + d + q = 1
    BY <1>2, <1>4, <1>6
  <2>2. Len(queue') + counts'.drops + counts'.invalid = (a + q) + (b + d) + (c + i)
    BY <1>5, <1>6
  <2> HIDE DEF a, b, c, sample
  <2>3. (a + q) + (b + d) + (c + i) = a + b + c + 1
    BY <2>1
  <2> QED
    BY <2>2, <2>3 DEF a, b, c
<1> QED
  BY <1>5, <1>7 DEF o

\* Steps that take no snapshot.
LEMMA NoSample ==
  ASSUME [Next]_vars, ~SampleSlot
  PROVE  UNCHANGED <<revisions, counts, sampled>>
BY DEF Next, Publish, Interrupt, Sampler, SelectDone, SelectStop, SelectTick, SkipSlot, AwaitDone,
       CreateSidecar, WriteSidecar, Goroutine, Receive, WriteItem, CloseArchive, Spill, Crash,
       vars, recorder

LEMMA SamplesStep ==
  ASSUME RecorderInv, RecorderTypeOK', SampledFromFirst, SampledFromFirst', SamplesAccounted,
         [Next]_vars
  PROVE  SamplesAccounted'
<1>1. /\ RecorderTypeOK /\ EndsInOrder
      /\ Taken - Placed \in {0} \cup IF Failed THEN {1} ELSE {}
  BY SamplesMeans DEF RecorderInv
<1>2. Taken \in Int /\ Len(written) \in Nat /\ Len(queue) \in Nat
      /\ counts.drops \in Nat /\ counts.invalid \in Nat /\ Placed \in Int
  BY <1>1, CountTypes DEF Placed, OnTheWay
<1>3. Failed \/ Taken = Placed
  BY <1>1, <1>2
<1>4. SUFFICES Taken' - Placed' \in {0} \cup IF Failed' THEN {1} ELSE {}
  BY DEF SamplesAccounted, Taken, Placed, OnTheWay, Failed
<1>5. CASE SampleSlot
  <2>1. Taken' = Taken + 1
    <3> DEFINE f == [s \in Slot |-> Len(sampled[s])]
               g == [s \in Slot |-> Len(sampled'[s])]
    <3>1. /\ next \in Slot /\ g[next] = f[next] + 1 /\ f[next] \in Nat
          /\ \A t \in Slot \ {next} : g[t] = f[t]
      BY <1>5, SampleHistory
    <3>2. \A s \in Slot : f[s] \in Int /\ g[s] \in Int
      BY LenProperties DEF SampledFromFirst
    <3> HIDE DEF f, g
    <3>3. Total(g) = Total(f) - f[next] + g[next] /\ Total(f) \in Int
      BY <3>1, <3>2, TotalType, TotalChange
    <3>4. Total(g) = Total(f) + 1
      BY <3>1, <3>2, <3>3
    <3> QED
      BY <3>4 DEF Taken, f, g
  <2>2. Len(queue') + counts'.drops + counts'.invalid
          = Len(queue) + counts.drops + counts.invalid + 1
    BY <1>1, <1>5, SampleCounts
  <2>3. UNCHANGED <<written, item, writer, archive>>
    BY <1>5 DEF SampleSlot, goroutine, disk
  <2>4. Len(queue') \in Nat /\ counts'.drops \in Nat /\ counts'.invalid \in Nat
    BY LenProperties DEF RecorderTypeOK
  <2>5. Placed' = Placed + 1
    <3> DEFINE w == Len(written) + (IF item # Absent THEN 1 ELSE 0)
               others == Len(queue) + counts.drops + counts.invalid
               later == Len(queue') + counts'.drops + counts'.invalid
    <3>1. w \in Nat /\ others \in Nat /\ Placed = w + others
      BY <1>2 DEF Placed, OnTheWay
    <3>2. Placed' = w + later
      BY <1>2, <2>3, <2>4 DEF Placed, OnTheWay
    <3>3. later = others + 1
      BY <2>2
    <3> HIDE DEF w, others, later
    <3> QED
      BY <3>1, <3>2, <3>3
  <2>6. Failed' = Failed
    BY <2>3 DEF Failed
  <2> QED
    BY <1>1, <1>2, <2>1, <2>5, <2>6
<1>6. CASE ~SampleSlot
  <2>1. UNCHANGED <<counts, sampled>> /\ Taken' = Taken
    BY <1>6, NoSample DEF Taken
  <2>2. CASE Receive
    <3>1. Len(queue') = Len(queue) - 1 /\ item = Absent /\ item' # Absent /\ ~Failed
      BY <1>1, <2>2, HeadTailProperties, Markers DEF Receive, RecorderTypeOK, Failed
    <3>2. UNCHANGED written
      BY <2>2 DEF Receive
    <3>3. Placed' = Placed
      BY <1>2, <2>1, <3>1, <3>2 DEF Placed, OnTheWay
    <3> QED
      BY <1>2, <1>3, <2>1, <3>1, <3>3
  <2>3. CASE WriteItem
    <3>1. /\ writer = "write" /\ item # Absent /\ item' = Absent /\ UNCHANGED <<queue, archive>>
          /\ item \in Sample /\ ~archive.closed /\ ~Failed
      BY <1>1, <2>3, Markers DEF WriteItem, RecorderTypeOK, EndsInOrder, disk, Failed
    <3>2. CASE written' = Append(written, item)
      <4>1. Len(written') = Len(written) + 1
        BY <1>1, <3>1, <3>2, AppendProperties DEF RecorderTypeOK
      <4>2. Placed' = Placed
        BY <1>2, <2>1, <3>1, <4>1 DEF Placed, OnTheWay
      <4> QED
        BY <1>2, <1>3, <2>1, <3>1, <4>2
    <3>3. CASE End("error") /\ UNCHANGED written
      <4>1. Placed' = Placed - 1
        BY <1>2, <2>1, <3>1, <3>3 DEF Placed, OnTheWay
      <4>2. Failed'
        BY <3>1, <3>3 DEF End, Failed
      <4> QED
        BY <1>2, <1>3, <2>1, <3>1, <4>1, <4>2
    <3> QED
      BY <2>3, <3>2, <3>3 DEF WriteItem
  <2>4. CASE CloseArchive
    <3>1. UNCHANGED <<queue, item, written>> /\ ~Failed
      BY <2>4 DEF CloseArchive, Failed
    <3>2. Placed' = Placed
      BY <2>1, <3>1 DEF Placed, OnTheWay
    <3> QED
      BY <1>2, <1>3, <2>1, <3>1, <3>2
  <2>5. CASE ~(Receive \/ WriteItem \/ CloseArchive)
    <3>1. UNCHANGED <<queue, item, written, writer>> /\ archive'.closed = archive.closed
      BY <1>1, <1>6, <2>5
         DEF Next, Publish, Interrupt, Sampler, SelectDone, SelectStop, SelectTick, SkipSlot,
             AwaitDone, CreateSidecar, WriteSidecar, Goroutine, Spill, Crash, vars, goroutine,
             disk, RecorderTypeOK
    <3>2. Placed' = Placed /\ Failed' = Failed
      BY <2>1, <3>1 DEF Placed, OnTheWay, Failed
    <3> QED
      BY <1>1, <2>1, <3>2
  <2> QED
    BY <2>2, <2>3, <2>4, <2>5
<1> QED
  BY <1>5, <1>6

\* Counting by differences of even revisions.
LEMMA EvenSteps ==
  ASSUME NEW a \in Nat, NEW b \in Nat, NEW c \in Nat,
         a % 2 = 0, b % 2 = 0, c % 2 = 0, a <= b, b < c, b # 0
  PROVE  /\ (c - a) \div 2 = (b - a) \div 2 + Overwritten(b, c) + 1
         /\ (c - a) \div 2 \in Int /\ (b - a) \div 2 \in Int /\ Overwritten(b, c) \in Int
<1>1. (c - a) \div 2 = (b - a) \div 2 + (c - b) \div 2
  OBVIOUS
<1>2. Overwritten(b, c) = (c - b) \div 2 - 1
  <2>1. CASE c > b + 2
    BY <2>1 DEF Overwritten
  <2>2. CASE ~(c > b + 2)
    <3>1. c = b + 2
      BY <2>2
    <3>2. (c - b) \div 2 - 1 = 0
      BY <3>1
    <3> QED
      BY <2>2, <3>2 DEF Overwritten
  <2> QED
    BY <2>1, <2>2
<1>3. (c - a) \div 2 \in Int /\ (b - a) \div 2 \in Int /\ (c - b) \div 2 \in Int
  OBVIOUS
<1> QED
  BY <1>1, <1>2, <1>3

LEMMA MissedType ==
  ASSUME RecorderTypeOK, SampledFromFirst, NEW s \in Slot
  PROVE  /\ Missed(s) \in Int
         /\ sampled[s] # << >> => Head(sampled[s]) \in Nat
<1>1. revisions[s] \in Nat /\ sampled[s] \in Seq(Nat) /\ Len(sampled[s]) \in Nat
  BY LenProperties DEF RecorderTypeOK, SampledFromFirst
<1>2. sampled[s] # << >> => Head(sampled[s]) \in Nat
  BY <1>1, HeadTailProperties
<1>3. CASE sampled[s] # << >>
  <2> DEFINE h == Head(sampled[s])
  <2>1. (revisions[s] - h) \div 2 \in Int
    BY <1>1, <1>2, <1>3
  <2> HIDE DEF h
  <2> QED
    BY <1>1, <1>2, <1>3, <2>1 DEF Missed, h
<1>4. CASE sampled[s] = << >>
  BY <1>4 DEF Missed
<1> QED
  BY <1>2, <1>3, <1>4

MissedAreNumbers == \A s \in Slot : Missed(s) \in Int

LEMMA MissedTypes == RecorderTypeOK /\ SampledFromFirst => MissedAreNumbers
BY MissedType DEF MissedAreNumbers

LEMMA OverwritesStep ==
  ASSUME RecorderInv, RecorderTypeOK', SampledFromFirst, SampledFromFirst', OverwritesAccounted,
         [Next]_vars
  PROVE  OverwritesAccounted'
<1>1. CASE SampleSlot
  <2> DEFINE f == [s \in Slot |-> Missed(s)]
             g == [s \in Slot |-> Missed(s)']
             new == board[next].revision
             o == Overwritten(revisions[next], new)
  <2>1. /\ next \in Slot /\ revisions[next] \in Nat /\ new \in Nat /\ revisions[next] < new
        /\ revisions[next] % 2 = 0 /\ new % 2 = 0
    BY <1>1, SampleHistory DEF SampledFromFirst
  <2>2. \A s \in Slot : f[s] \in Int /\ g[s] \in Int
    <3>1. MissedAreNumbers
      BY MissedTypes DEF RecorderInv
    <3>2. MissedAreNumbers'
      BY MissedTypes, PTL
    <3> QED
      BY <3>1, <3>2 DEF MissedAreNumbers
  <2>3. \A s \in Slot \ {next} : g[s] = f[s]
    BY <1>1, SampleHistory DEF Missed
  <2>4. g[next] = f[next] + o
    <3> DEFINE m == IF sampled'[next] = << >> THEN 0
                    ELSE (revisions'[next] - Head(sampled'[next])) \div 2
                           + 1 - Len(sampled'[next])
    <3>1. g[next] = m
      BY <2>1 DEF Missed
    <3>2. /\ sampled'[next] # << >> /\ revisions'[next] = new
          /\ Len(sampled'[next]) = Len(sampled[next]) + 1 /\ Len(sampled[next]) \in Nat
          /\ Head(sampled'[next]) = IF sampled[next] = << >> THEN new ELSE Head(sampled[next])
      BY <1>1, SampleHistory
    <3>3. CASE sampled[next] = << >>
      <4>1. revisions[next] = 0 /\ Len(sampled[next]) = 0
        BY <2>1, <3>3, EmptySeq DEF SampledFromFirst
      <4>2. f[next] = 0 /\ o = 0
        BY <2>1, <3>3, <4>1 DEF Missed, Overwritten
      <4>3. m = (new - new) \div 2 + 1 - 1
        BY <3>2, <3>3, <4>1
      <4>4. (new - new) \div 2 = 0
        BY <2>1
      <4> QED
        BY <3>1, <4>2, <4>3, <4>4
    <3>4. CASE sampled[next] # << >>
      <4> DEFINE head == Head(sampled[next])
                 n == Len(sampled[next])
      <4>1. /\ head \in Nat /\ head % 2 = 0 /\ head <= revisions[next] /\ revisions[next] # 0
            /\ n \in Nat
        BY <2>1, <3>2, <3>4, MissedType DEF SampledFromFirst, RecorderInv
      <4>2. m = (new - head) \div 2 + 1 - (n + 1)
        BY <3>2, <3>4
      <4>3. f[next] = (revisions[next] - head) \div 2 + 1 - n
        BY <2>1, <3>4 DEF Missed
      <4> HIDE DEF head, n, m, f, g, new
      <4>4. (new - head) \div 2 + 1 - (n + 1)
              = (revisions[next] - head) \div 2 + 1 - n + Overwritten(revisions[next], new)
        <5> DEFINE old == revisions[next]
        <5>1. /\ head \in Nat /\ head % 2 = 0 /\ head <= old /\ old # 0 /\ n \in Nat
              /\ old \in Nat /\ new \in Nat /\ old < new /\ old % 2 = 0 /\ new % 2 = 0
          BY <2>1, <4>1
        <5> HIDE DEF old, o
        <5>2. /\ (new - head) \div 2 = (old - head) \div 2 + Overwritten(old, new) + 1
              /\ (new - head) \div 2 \in Int /\ (old - head) \div 2 \in Int
              /\ Overwritten(old, new) \in Int
          BY <5>1, EvenSteps
        <5> DEFINE u == (new - head) \div 2
                   v == (old - head) \div 2
                   w == Overwritten(old, new)
        <5>3. u = v + w + 1 /\ u \in Int /\ v \in Int /\ w \in Int
          BY <5>2
        <5> HIDE DEF u, v, w
        <5>4. u + 1 - (n + 1) = v + 1 - n + w
          BY <5>1, <5>3
        <5> QED
          BY <5>4 DEF old, u, v, w
      <4> HIDE DEF o
      <4>5. o = Overwritten(revisions[next], new)
        BY DEF o
      <4> QED
        BY <3>1, <4>2, <4>3, <4>4, <4>5
    <3> QED
      BY <3>3, <3>4
  <2>5. counts'.overwritten = counts.overwritten + o
    BY <1>1, SampleCounts DEF RecorderInv
  <2>6. o \in Nat
    BY <2>1, OverwrittenType
  <2>7. counts.overwritten = Total(f)
    BY DEF OverwritesAccounted
  <2> HIDE DEF f, g, o
  <2>8. Total(g) = Total(f) - f[next] + g[next] /\ Total(f) \in Int
    BY <2>1, <2>2, <2>3, TotalType, TotalChange
  <2>9. counts'.overwritten = Total(g)
    BY <2>1, <2>2, <2>4, <2>5, <2>6, <2>7, <2>8
  <2> QED
    BY <2>9 DEF OverwritesAccounted, g
<1>2. CASE ~SampleSlot
  BY <1>2, NoSample DEF OverwritesAccounted, Missed
<1> QED
  BY <1>1, <1>2

LEMMA InitCounts == Init => SamplesAccounted /\ OverwritesAccounted
<1> SUFFICES ASSUME Init PROVE SamplesAccounted /\ OverwritesAccounted
  OBVIOUS
<1> DEFINE zero == [s \in Slot |-> 0]
<1>1. Total(zero) = 0
  <2> SUFFICES ASSUME TRUE PROVE Total(zero) = 0
    OBVIOUS
  <2>1. IsFiniteSet(Slot)
    BY RecorderAssumption, FS_Interval DEF Slot
  <2> QED
    BY <2>1, SumOfZeros DEF Total
<1>2. /\ [s \in Slot |-> Missed(s)] = zero /\ [s \in Slot |-> Len(sampled[s])] = zero
  BY EmptySeq DEF Init, Missed
<1>3. Len(written) = 0 /\ Len(queue) = 0 /\ item = Absent /\ counts.drops = 0
      /\ counts.invalid = 0 /\ counts.overwritten = 0
  BY EmptySeq DEF Init
<1> HIDE DEF zero
<1> QED
  BY <1>1, <1>2, <1>3 DEF SamplesAccounted, OverwritesAccounted

-----------------------------------------------------------------------------
(***************************************************************************)
(* What the records of a sealed archive leave out.                         *)
(***************************************************************************)

LEMMA Halves ==
  ASSUME NEW a \in Nat, NEW b \in Nat, NEW c \in Nat, NEW d \in Nat, a <= b, d <= c
  PROVE  (d - b) \div 2 <= (c - a) \div 2
OBVIOUS

\* The first and the last record of a slot lie between its first and its last
\* snapshot.
LEMMA UnobservedBound ==
  ASSUME RecorderInv, SampledFromFirst, NEW s \in Slot
  PROVE  /\ Unobserved(s) \in Int /\ Cardinality(Of(s)) \in Nat
         /\ Unobserved(s) + Cardinality(Of(s)) <= Missed(s) + Len(sampled[s])
<1>1. /\ Len(written) \in Nat /\ Of(s) \subseteq 1 .. Len(written)
      /\ Len(sampled[s]) \in Nat /\ revisions[s] \in Nat
  BY LenProperties DEF Of, RecorderInv, RecorderTypeOK, SampledFromFirst
<1>2. IsFiniteSet(Of(s)) /\ Cardinality(Of(s)) \in Nat
  <2>1. IsFiniteSet(1 .. Len(written))
    BY <1>1, FS_Interval
  <2> QED
    BY <1>1, <2>1, FS_Subset, FS_CardinalityType
<1>3. CASE Of(s) = {}
  <2>1. Unobserved(s) = 0 /\ Cardinality(Of(s)) = 0
    BY <1>3, FS_EmptySet DEF Unobserved
  <2>2. CASE sampled[s] = << >>
    BY <1>1, <2>1, <2>2 DEF Missed
  <2>3. CASE sampled[s] # << >>
    <3> DEFINE head == Head(sampled[s])
               newest == revisions[s]
               half == (newest - head) \div 2
               taken == Len(sampled[s])
    <3>1. head \in Nat /\ head <= newest /\ newest \in Nat
      BY <1>1, <2>3, MissedType DEF SampledFromFirst, RecorderInv
    <3>2. Missed(s) = half + 1 - taken /\ taken \in Nat
      BY <1>1, <2>3 DEF Missed
    <3> HIDE DEF head, newest, taken
    <3>3. half \in Nat
      BY <3>1
    <3> HIDE DEF half
    <3>4. Missed(s) + taken >= 0
      BY <3>2, <3>3
    <3> QED
      BY <2>1, <3>4 DEF taken
  <2> QED
    BY <2>2, <2>3
<1>4. CASE Of(s) # {}
  <2> DEFINE i == Min(Of(s))
             j == Max(Of(s))
  <2>1. i \in Of(s) /\ j \in Of(s)
    <3>1. \E x \in Of(s) : \A y \in Of(s) : x <= y
      BY <1>1, <1>4, Least
    <3>2. \E x \in Of(s) : \A y \in Of(s) : y <= x
      <4>1. Of(s) \in SUBSET (0 .. Len(written))
        BY <1>1
      <4> QED
        BY <1>1, <1>4, <4>1, Greatest
    <3>3. \E x \in Of(s) : \A y \in Of(s) : x >= y
      <4>1. \A x, y \in Of(s) : y <= x => x >= y
        BY <1>1
      <4> QED
        BY <3>2, <4>1
    <3> QED
      BY <3>1, <3>3 DEF Min, Max
  <2> HIDE DEF i, j
  <2>2. \A k \in Of(s) : /\ written[k] \in Sample /\ written[k].slot = s
                        /\ written[k].revision <= revisions[s]
                        /\ sampled[s] # << >> /\ Head(sampled[s]) <= written[k].revision
    <3> SUFFICES ASSUME NEW k \in Of(s)
                 PROVE  /\ written[k] \in Sample /\ written[k].slot = s
                        /\ written[k].revision <= revisions[s]
                        /\ sampled[s] # << >> /\ Head(sampled[s]) <= written[k].revision
      OBVIOUS
    <3>1. k \in 1 .. Len(written) /\ written[k].slot = s
      BY DEF Of
    <3>2. written[k] \in Sample
      BY <3>1, ElementOfSeq DEF RecorderInv, RecorderTypeOK
    <3>3. Known(written[k], revisions) /\ SinceFirst(written[k])
      BY <3>1 DEF RecorderInv, RevisionsRise, SampledFromFirst
    <3> QED
      BY <3>1, <3>2, <3>3 DEF Known, SinceFirst
  <2> DEFINE first == written[i].revision
             last == written[j].revision
             head == Head(sampled[s])
             newest == revisions[s]
             half == (newest - head) \div 2
             part == (last - first) \div 2
             taken == Len(sampled[s])
             records == Cardinality(Of(s))
  <2>3. /\ first \in Nat /\ last \in Nat /\ head \in Nat /\ newest \in Nat
        /\ head <= first /\ last <= newest /\ sampled[s] # << >>
    BY <1>1, <2>1, <2>2, MissedType DEF Sample, RecorderInv
  <2>4. Missed(s) = half + 1 - taken /\ taken \in Nat
    BY <1>1, <2>3 DEF Missed
  <2>5. Unobserved(s) = part + 1 - records /\ records \in Nat
    BY <1>2, <1>4 DEF Unobserved, i, j
  <2> HIDE DEF first, last, head, newest, taken, records
  <2>6. part \in Int /\ half \in Int /\ part <= half
    BY <2>3, Halves
  <2> HIDE DEF part, half
  <2>7. Unobserved(s) \in Int /\ Unobserved(s) + records <= Missed(s) + taken
    BY <2>4, <2>5, <2>6
  <2> QED
    BY <1>2, <2>7 DEF records, taken
<1> QED
  BY <1>2, <1>3, <1>4 DEF Unobserved

\* Every record is of one slot.
LEMMA RecordsBySlot ==
  ASSUME RecorderTypeOK
  PROVE  Total([s \in Slot |-> Cardinality(Of(s))]) = Len(written)
<1> DEFINE class == [i \in 1 .. Len(written) |-> written[i].slot]
           sizes == [s \in Slot |-> Cardinality({i \in 1 .. Len(written) : class[i] = s})]
<1>1. Len(written) \in Nat /\ IsFiniteSet(Slot)
  BY LenProperties, RecorderAssumption, FS_Interval DEF RecorderTypeOK, Slot
<1>2. \A i \in 1 .. Len(written) : class[i] \in Slot
  <2>1. \A i \in 1 .. Len(written) : written[i] \in Sample
    BY ElementOfSeq DEF RecorderTypeOK
  <2> QED
    BY <2>1 DEF Sample
<1>3. sizes = [s \in Slot |-> Cardinality(Of(s))]
  <2>1. \A s \in Slot : {i \in 1 .. Len(written) : class[i] = s} = Of(s)
    BY DEF Of
  <2> HIDE DEF class
  <2> QED
    BY <2>1
<1> HIDE DEF class
<1>4. SumFunctionOnSet(sizes, Slot) = Len(written)
  BY <1>1, <1>2, CountByClass
<1> QED
  BY <1>3, <1>4 DEF Total

LEMMA GapsFromCounts == CountsInv => GapsExplained
<1> SUFFICES ASSUME CountsInv, OwnSidecar
             PROVE  Total([s \in Slot |-> Unobserved(s)])
                      <= sidecar.overwritten + sidecar.drops + sidecar.invalid
  BY DEF GapsExplained
<1>1. /\ RecorderInv /\ RecorderTypeOK /\ SampledFromFirst /\ SamplesAccounted
      /\ OverwritesAccounted
  BY DEF CountsInv, RecorderInv
<1>2. /\ archive.closed /\ writer = "ended" /\ queue = << >> /\ item = Absent
      /\ sidecar = Manifest
  BY <1>1 DEF RecorderInv, RecorderTypeOK, EndsInOrder
<1> DEFINE f == [s \in Slot |-> Unobserved(s)]
           c == [s \in Slot |-> Cardinality(Of(s))]
           m == [s \in Slot |-> Missed(s)]
           n == [s \in Slot |-> Len(sampled[s])]
           observed == [s \in Slot |-> f[s] + c[s]]
           all == [s \in Slot |-> m[s] + n[s]]
<1>3. /\ \A s \in Slot : f[s] \in Int /\ c[s] \in Int /\ m[s] \in Int /\ n[s] \in Int
      /\ \A s \in Slot : f[s] + c[s] <= m[s] + n[s]
  BY <1>1, UnobservedBound, MissedType, CountTypes
<1>4. Total(c) = Len(written)
  BY <1>1, RecordsBySlot
<1>5. Total(m) = counts.overwritten
  BY <1>1 DEF OverwritesAccounted
<1>6. Total(n) = Len(written) + counts.drops + counts.invalid
  <2>1. Len(queue) = 0 /\ OnTheWay = 0 /\ ~Failed
    BY <1>2, EmptySeq DEF OnTheWay, Failed
  <2>2. Taken = Placed
    BY <1>1, <2>1, SamplesMeans, CountTypes DEF Placed
  <2> QED
    BY <1>1, <2>1, <2>2, CountTypes DEF Taken, Placed
<1>7. IsFiniteSet(Slot)
  BY RecorderAssumption, FS_Interval DEF Slot
<1> HIDE DEF f, c, m, n
<1>8. \A s \in Slot : /\ observed[s] = f[s] + c[s] /\ all[s] = m[s] + n[s]
                     /\ observed[s] \in Int /\ all[s] \in Int /\ observed[s] <= all[s]
  BY <1>3
<1> HIDE DEF observed, all
<1>9. Total(observed) = Total(f) + Total(c) /\ Total(all) = Total(m) + Total(n)
  BY <1>3, <1>7, <1>8, SumPlus DEF Total
<1>10. Total(observed) <= Total(all)
  BY <1>7, <1>8, SumMonotonic DEF Total
<1>11. Total(f) \in Int
  BY <1>3, TotalType
<1>12. /\ sidecar.overwritten = counts.overwritten /\ sidecar.drops = counts.drops
       /\ sidecar.invalid = counts.invalid
  BY <1>2 DEF Manifest
<1> DEFINE w == Len(written)
           o == counts.overwritten
           d == counts.drops
           v == counts.invalid
           t == Total(f)
<1>13. /\ w \in Nat /\ o \in Nat /\ d \in Nat /\ v \in Nat /\ t \in Int
       /\ t + w <= o + (w + d + v)
  BY <1>1, <1>4, <1>5, <1>6, <1>9, <1>10, <1>11, CountTypes
<1> HIDE DEF w, o, d, v, t
<1>14. t <= o + d + v
  BY <1>13
<1> QED
  BY <1>12, <1>14 DEF o, d, v, t, f

-----------------------------------------------------------------------------
(***************************************************************************)
(* The theorems.                                                           *)
(***************************************************************************)

\* The conjuncts above are inductive, over all interleavings of recordBoard's
\* sampling loop with its writer goroutine.
THEOREM RecorderInductive == Spec => []RecorderInv
<1>1. Init => RecorderInv
  BY InitType, InitEnds, InitRises DEF RecorderInv
<1>2. RecorderInv /\ [Next]_vars => RecorderInv'
  BY NextType, NextEnds, NextRises DEF RecorderInv
<1> QED
  BY <1>1, <1>2, PTL DEF Spec

\* A manifest of this recording is only beside its complete archive, with the
\* final counters in it.
THEOREM SealedComplete == Spec => []SealedIsComplete
<1>1. RecorderInv => SealedIsComplete
  <2> SUFFICES ASSUME RecorderInv, OwnSidecar PROVE SealedIsComplete
    BY DEF SealedIsComplete
  <2>1. /\ archive.closed /\ writer = "ended" /\ queue = << >>
        /\ archive.length = Len(written) /\ sidecar = Manifest
    BY DEF RecorderInv, EndsInOrder
  <2>2. item = Absent
    BY <2>1 DEF RecorderInv, RecorderTypeOK
  <2> QED
    BY <2>1, <2>2 DEF SealedIsComplete, Manifest
<1> QED
  BY <1>1, RecorderInductive, PTL

\* The writer's records of a slot are in the order of their revisions.
THEOREM InOrder == Spec => []WrittenInOrder
<1>1. RecorderInv => WrittenInOrder
  <2> SUFFICES ASSUME RecorderInv PROVE WrittenInOrder
    OBVIOUS
  <2>1. DOMAIN written = 1 .. Len(written)
    BY LenProperties DEF RecorderInv, RecorderTypeOK
  <2>2. \A i, j \in 1 .. Len(written) : i < j => Rises(written[i], written[j])
    BY DEF RecorderInv, RevisionsRise
  <2> QED
    BY <2>1, <2>2 DEF WrittenInOrder, Rises
<1> QED
  BY <1>1, RecorderInductive, PTL

\* recordBoard returns nil only with its own manifest in place, and never
\* replaces one that was there.
THEOREM SuccessSealed == Spec => SuccessIsSealed
<1>1. RecorderInv /\ RecorderInv' /\ [Next]_vars =>
        [(result' = "nil" => OwnSidecar') /\ (sidecar = Stale => sidecar' = Stale)]_vars
  <2> SUFFICES ASSUME RecorderInv, RecorderInv', Next
               PROVE  /\ result' = "nil" => OwnSidecar'
                      /\ sidecar = Stale => sidecar' = Stale
    OBVIOUS
  <2>1. result' = "nil" => OwnSidecar'
    BY DEF RecorderInv, EndsInOrder
  <2>2. SUFFICES ASSUME sidecar = Stale, sidecar' # sidecar PROVE FALSE
    BY <2>1
  <2>3. CreateSidecar \/ WriteSidecar
    BY <2>2 DEF Next, Publish, Interrupt, Sampler, SelectDone, SelectStop, SelectTick, SkipSlot,
                SampleSlot, AwaitDone, Goroutine, Receive, WriteItem, CloseArchive, Spill, Crash,
                disk
  <2> QED
    BY <2>2, <2>3, Markers DEF CreateSidecar, WriteSidecar, RecorderInv, EndsInOrder
<1> QED
  BY <1>1, RecorderInductive, PTL DEF Spec, SuccessIsSealed

\* Where every snapshot went, and what the sampling missed, is inductive with
\* the above: the sampler counts in the step in which it takes a snapshot,
\* while the writer moves them on.
THEOREM CountsInductive == Spec => []CountsInv
<1>1. Init => CountsInv
  BY InitType, InitEnds, InitRises, InitSampled, InitCounts DEF CountsInv, RecorderInv
<1>2. CountsInv /\ [Next]_vars => CountsInv'
  <2> SUFFICES ASSUME CountsInv, [Next]_vars PROVE CountsInv'
    OBVIOUS
  <2>1. RecorderInv'
    BY NextType, NextEnds, NextRises DEF CountsInv, RecorderInv
  <2>2. SampledFromFirst' /\ RecorderTypeOK'
    BY <2>1, NextSampled DEF CountsInv, RecorderInv
  <2>3. SamplesAccounted' /\ OverwritesAccounted'
    BY <2>2, SamplesStep, OverwritesStep DEF CountsInv
  <2> QED
    BY <2>1, <2>2, <2>3 DEF CountsInv
<1> QED
  BY <1>1, <1>2, PTL DEF Spec

\* No snapshot that recordBoard takes is lost without a trace between its
\* sampler, the bounded queue and its writer, but the one a failing disk
\* refused.
THEOREM SamplesAddUp == Spec => []SamplesAccounted
<1>1. CountsInv => SamplesAccounted
  BY DEF CountsInv
<1> QED
  BY <1>1, CountsInductive, PTL

\* manifest.Overwritten counts the commits between the first and the last
\* snapshot of every slot that no sampling pass has seen, and no other.
THEOREM OverwritesAddUp == Spec => []OverwritesAccounted
<1>1. CountsInv => OverwritesAccounted
  BY DEF CountsInv
<1> QED
  BY <1>1, CountsInductive, PTL

\* The commits analyzeArchive finds missing between the records of a sealed
\* archive are no more than those its manifest says were overwritten, dropped
\* or invalid, for any number of slots and any size of the queue.
THEOREM GapsAreExplained == Spec => []GapsExplained
<1> QED
  BY GapsFromCounts, CountsInductive, PTL
=============================================================================
