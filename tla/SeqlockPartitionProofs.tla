----------------------- MODULE SeqlockPartitionProofs -----------------------
(***************************************************************************)
(* For every number of writers, readers and words, every capacity and      *)
(* every buffer size: a snapshot is never torn, and the partition          *)
(* implements the atomic cell of AtomicPartition.                          *)
(***************************************************************************)
EXTENDS SeqlockPartition, SequenceTheorems, TLAPS

\* The parity facts every step below rests on, stated once so that no other
\* leaf reasons about the modulus.
LEMMA Parity == \A k \in Nat : ~Odd(2 * k) /\ Odd(2 * k + 1)
  BY DEF Odd

LEMMA NextRevisionValue ==
  \A k \in Nat : NextRevision(2 * k) = 2 * k + 2 /\ NextRevision(2 * k + 1) = 2 * k + 2
  BY Parity DEF NextRevision

LEMMA BlankType == Blank \in [Index -> Word]
  BY PartitionAssumption DEF Blank

LEMMA PayloadOfSize ==
  ASSUME NEW n \in Index, NEW p \in [1 .. n -> Word]
  PROVE  p \in Payload
  BY DEF Payload

\* The initial board: nothing written, nobody inside the partition.
LEMMA InitInv == Init => SeqlockInv
<1> SUFFICES ASSUME Init PROVE SeqlockInv
  OBVIOUS
<1> USE DEF Init
<1>1. TypeOK
  BY BlankType, PartitionAssumption
     DEF TypeOK, ClosedWriter, IdleReader, FreshReader, NoView, WriterPC, ReaderPC, Attempts,
         WriterLocals, ReaderLocals, Views
<1>2. WriterInv
  BY DEF WriterInv, WriterOK, ClosedWriter
<1>3. MemoryInv
  BY DEF MemoryInv, RevisionCountsCommits
<1>4. ReaderInv
  BY DEF ReaderInv, ReaderOK, IdleReader, FreshReader
<1>5. NoTornSnapshot
  BY DEF NoTornSnapshot
<1> QED
  BY <1>1, <1>2, <1>3, <1>4, <1>5 DEF SeqlockInv

\* A step that leaves a caller's view and the log alone keeps the views good.
LEMMA ViewFrame ==
  ASSUME NoTornSnapshot, UNCHANGED <<view, log>>
  PROVE  NoTornSnapshot'
  BY DEF NoTornSnapshot

-----------------------------------------------------------------------------
(***************************************************************************)
(* The reader's steps.                                                     *)
(***************************************************************************)

\* A reader that moves to good locals and touches nothing shared.
LEMMA ReaderFrame ==
  ASSUME SeqlockInv, NEW r \in Reader, NEW local \in ReaderLocals, ReaderOK(local),
         reader' = [reader EXCEPT ![r] = local],
         UNCHANGED <<memory, lock, writer, log>>,
         view' \in [Reader -> Views]
  PROVE  TypeOK' /\ WriterInv' /\ MemoryInv' /\ ReaderInv'
<1> USE DEF SeqlockInv, memory
<1>1. TypeOK'
  BY DEF TypeOK
<1>2. WriterInv'
  BY DEF WriterInv, WriterOK
<1>3. MemoryInv'
  BY DEF MemoryInv, RevisionCountsCommits
<1>4. ReaderInv'
  <2> SUFFICES ASSUME NEW s \in Reader PROVE ReaderOK(reader[s])'
    BY DEF ReaderInv
  <2>1. reader'[s] = local \/ reader'[s] = reader[s]
    BY DEF TypeOK
  <2>2. ReaderOK(reader'[s])
    BY <2>1 DEF ReaderInv
  <2> QED
    BY <2>2 DEF ReaderOK
<1> QED
  BY <1>1, <1>2, <1>3, <1>4

\* A call that starts, returns or tries again holds nothing yet.
LEMMA FreshReaderOK ==
  ASSUME NEW pc \in {"idle", "revision"}, NEW attempt \in 0 .. Attempts - 1
  PROVE  FreshReader(pc, attempt) \in ReaderLocals /\ ReaderOK(FreshReader(pc, attempt))
  BY BlankType, PartitionAssumption DEF FreshReader, ReaderLocals, ReaderPC, ReaderOK

LEMMA ReturnOrRetry ==
  ASSUME TypeOK, NEW r \in Reader, Return(r) \/ Retry(r)
  PROVE  \E local \in ReaderLocals :
           ReaderOK(local) /\ reader' = [reader EXCEPT ![r] = local]
<1>1. CASE Return(r)
  <2>1. "idle" \in {"idle", "revision"} /\ 0 \in 0 .. Attempts - 1
    BY DEF Attempts
  <2>2. reader' = [reader EXCEPT ![r] = FreshReader("idle", 0)]
    BY <1>1 DEF Return, IdleReader
  <2> QED
    BY <2>1, <2>2, FreshReaderOK
<1>2. CASE Retry(r) /\ reader[r].attempt + 1 < Attempts
  <2>1. reader[r].attempt \in 0 .. Attempts - 1
    BY DEF TypeOK, ReaderLocals
  <2>2. reader[r].attempt + 1 \in 0 .. Attempts - 1
    BY <1>2, <2>1 DEF Attempts
  <2> QED
    BY <1>2, <2>2, FreshReaderOK DEF Retry
<1>3. CASE Retry(r) /\ ~(reader[r].attempt + 1 < Attempts)
  BY <1>1, <1>3 DEF Retry
<1> QED
  BY <1>1, <1>2, <1>3

LEMMA BeginSnapshotInv ==
  ASSUME SeqlockInv, NEW r \in Reader, BeginSnapshot(r)
  PROVE  SeqlockInv'
<1>1. view' \in [Reader -> Views]
  BY DEF BeginSnapshot, SeqlockInv, TypeOK
<1>2. /\ FreshReader("revision", 0) \in ReaderLocals
      /\ ReaderOK(FreshReader("revision", 0))
  <2>1. "revision" \in {"idle", "revision"} /\ 0 \in 0 .. Attempts - 1
    BY DEF Attempts
  <2> QED
    BY <2>1, FreshReaderOK
<1>3. TypeOK' /\ WriterInv' /\ MemoryInv' /\ ReaderInv'
  BY <1>1, <1>2, ReaderFrame DEF BeginSnapshot
<1> QED
  BY <1>3, ViewFrame DEF SeqlockInv, BeginSnapshot

LEMMA LoadRevisionInv ==
  ASSUME SeqlockInv, NEW r \in Reader, LoadRevision(r)
  PROVE  SeqlockInv'
<1>1. view' \in [Reader -> Views]
  BY DEF LoadRevision, SeqlockInv, TypeOK
<1>2. \E local \in ReaderLocals : ReaderOK(local) /\ reader' = [reader EXCEPT ![r] = local]
  <2>1. CASE Return(r) \/ Retry(r)
    BY <2>1, ReturnOrRetry DEF SeqlockInv
  <2>2. CASE /\ ~NothingNew(r) /\ ~Odd(revision)
             /\ reader' = [reader EXCEPT ![r].pc = "length", ![r].before = revision]
    <3> DEFINE local == [reader[r] EXCEPT !.pc = "length", !.before = revision]
    <3>1. revision > 0 /\ revision \in Nat
      BY <2>2 DEF NothingNew, SeqlockInv, TypeOK
    <3>2. local \in ReaderLocals
      BY <3>1 DEF SeqlockInv, TypeOK, ReaderLocals, ReaderPC
    <3>3. reader[r].loaded = 0
      BY DEF SeqlockInv, ReaderInv, ReaderOK, LoadRevision
    <3>4. local.pc = "length" /\ local.before = revision /\ local.loaded = 0
      BY <3>3 DEF SeqlockInv, TypeOK, ReaderLocals
    <3>5. ReaderOK(local)
      BY <2>2, <3>1, <3>4 DEF ReaderOK
    <3> QED
      BY <2>2, <3>2, <3>5
  <2> QED
    BY <2>1, <2>2 DEF LoadRevision
<1> QED
  BY <1>1, <1>2, ReaderFrame, ViewFrame DEF SeqlockInv, LoadRevision

LEMMA LoadLengthInv ==
  ASSUME SeqlockInv, NEW r \in Reader, LoadLength(r)
  PROVE  SeqlockInv'
<1>1. view' \in [Reader -> Views]
  BY DEF LoadLength, SeqlockInv, TypeOK
<1>2. \E local \in ReaderLocals : ReaderOK(local) /\ reader' = [reader EXCEPT ![r] = local]
  <2>1. CASE Return(r)
    BY <2>1, ReturnOrRetry DEF SeqlockInv
  <2>2. CASE /\ Fits(r, length)
             /\ reader' = [reader EXCEPT ![r].pc = "words", ![r].size = length]
    <3> DEFINE local == [reader[r] EXCEPT !.pc = "words", !.size = length]
    <3>1. length \in Index /\ length \in 0 .. Capacity
      BY <2>2, PartitionAssumption DEF Fits, SeqlockInv, TypeOK, Index
    <3>2. local \in ReaderLocals
      BY <3>1 DEF SeqlockInv, TypeOK, ReaderLocals, ReaderPC
    <3>3. reader[r].loaded = 0 /\ reader[r].before > 0 /\ ~Odd(reader[r].before)
            /\ reader[r].before <= revision
      BY DEF SeqlockInv, ReaderInv, ReaderOK, LoadLength
    <3>4. /\ local.pc = "words" /\ local.size = length
          /\ local.before = reader[r].before /\ local.loaded = 0
      BY <3>3 DEF SeqlockInv, TypeOK, ReaderLocals
    <3>5. length > 0
      BY <3>1, PartitionAssumption DEF Index
    <3>6. ReaderOK(local)
      BY <3>1, <3>3, <3>4, <3>5 DEF ReaderOK
    <3> QED
      BY <2>2, <3>2, <3>6
  <2> QED
    BY <2>1, <2>2 DEF LoadLength
<1> QED
  BY <1>1, <1>2, ReaderFrame, ViewFrame DEF SeqlockInv, LoadLength

LEMMA LoadWordInv ==
  ASSUME SeqlockInv, NEW r \in Reader, LoadWord(r)
  PROVE  SeqlockInv'
<1> DEFINE i == reader[r].loaded + 1
           q == IF i < reader[r].size THEN "words" ELSE "recheck"
           local == [reader[r] EXCEPT !.scratch = [reader[r].scratch EXCEPT ![i] = words[i]],
                                      !.loaded = i, !.pc = q]
<1>1. reader[r] \in ReaderLocals /\ ReaderOK(reader[r]) /\ reader[r].pc = "words"
  BY DEF SeqlockInv, TypeOK, ReaderInv, LoadWord
<1>2. reader[r].size \in Index /\ reader[r].loaded < reader[r].size
  BY <1>1 DEF ReaderOK
<1>3. i \in Index /\ i \in 0 .. Capacity /\ i <= reader[r].size /\ reader[r].loaded \in Nat
  BY <1>1, <1>2, PartitionAssumption DEF ReaderLocals, Index
<1>4. words[i] \in Word
  BY <1>3 DEF SeqlockInv, TypeOK
<1>5. reader' = [reader EXCEPT ![r] = local]
  BY DEF LoadWord
<1>6. /\ local.pc = q /\ local.loaded = i
      /\ local.size = reader[r].size /\ local.before = reader[r].before
      /\ local.scratch = [reader[r].scratch EXCEPT ![i] = words[i]]
  BY <1>1 DEF ReaderLocals
<1>7. local \in ReaderLocals
  BY <1>1, <1>3, <1>4 DEF ReaderLocals, ReaderPC
<1>8. ASSUME reader[r].before = revision, NEW j \in 1 .. i
      PROVE  local.scratch[j] = words[j]
  <2>1. CASE j = i
    BY <1>1, <1>3, <1>6, <2>1 DEF ReaderLocals
  <2>2. CASE j # i
    <3>1. j \in 1 .. reader[r].loaded /\ j \in Index
      BY <1>3, <2>2, PartitionAssumption DEF Index, i
    <3>2. reader[r].scratch[j] = words[j]
      BY <1>1, <1>8, <3>1 DEF ReaderOK
    <3> QED
      BY <1>1, <1>6, <2>2, <3>1, <3>2 DEF ReaderLocals
  <2> QED
    BY <2>1, <2>2
<1>9. \/ q = "words" /\ i < reader[r].size
      \/ q = "recheck" /\ i = reader[r].size
  BY <1>2, <1>3, PartitionAssumption DEF Index
<1> HIDE DEF i, q, local
<1>10. ReaderOK(local)
  BY <1>1, <1>2, <1>6, <1>8, <1>9 DEF ReaderOK
<1>11. TypeOK' /\ WriterInv' /\ MemoryInv' /\ ReaderInv'
  <2>1. view' \in [Reader -> Views]
    BY DEF LoadWord, SeqlockInv, TypeOK
  <2> QED
    BY <1>5, <1>7, <1>10, <2>1, ReaderFrame DEF LoadWord
<1> QED
  BY <1>11, ViewFrame DEF SeqlockInv, LoadWord

\* The step that hands a copy to the caller: the even revision it started from
\* is still there, so the copy is the last commit.
LEMMA Handover ==
  ASSUME SeqlockInv, NEW r \in Reader, Recheck(r)
  PROVE  \/ UNCHANGED view
         \/ /\ Len(log) \in 1 .. Len(log)
            /\ view' = [view EXCEPT ![r] = [revision |-> 2 * Len(log),
                                            payload |-> log[Len(log)]]]
<1> DEFINE copy == [i \in 1 .. reader[r].size |-> reader[r].scratch[i]]
<1>1. CASE revision # reader[r].before
  BY <1>1 DEF Recheck
<1>2. CASE revision = reader[r].before
  <2>1. ReaderOK(reader[r]) /\ reader[r].pc = "recheck" /\ Len(log) \in Nat
    BY DEF SeqlockInv, TypeOK, ReaderInv, Recheck
  <2>2. revision > 0 /\ ~Odd(revision) /\ reader[r].loaded = reader[r].size
    BY <1>2, <2>1 DEF ReaderOK
  <2>3. revision = 2 * Len(log) /\ Len(log) \in 1 .. Len(log)
    BY <2>1, <2>2, Parity DEF SeqlockInv, MemoryInv, RevisionCountsCommits
  <2>4. log[Len(log)] = [i \in 1 .. length |-> words[i]]
    BY <2>2 DEF SeqlockInv, MemoryInv
  <2>5. reader[r].size = length /\ \A i \in 1 .. reader[r].size : reader[r].scratch[i] = words[i]
    BY <1>2, <2>1, <2>2 DEF ReaderOK
  <2>6. copy = log[Len(log)]
    BY <2>4, <2>5
  <2>7. view' = [view EXCEPT ![r] = [revision |-> reader[r].before, payload |-> copy]]
    BY <1>2 DEF Recheck
  <2> QED
    BY <1>2, <2>3, <2>6, <2>7
<1> QED
  BY <1>1, <1>2

LEMMA RecheckInv ==
  ASSUME SeqlockInv, NEW r \in Reader, Recheck(r)
  PROVE  SeqlockInv'
<1> DEFINE got == [revision |-> 2 * Len(log), payload |-> log[Len(log)]]
<1>1. view' = view \/ (Len(log) \in 1 .. Len(log) /\ view' = [view EXCEPT ![r] = got])
  BY Handover
<1>2. log \in Seq(Payload) /\ Len(log) \in Nat
  BY DEF SeqlockInv, TypeOK
<1>3. Len(log) \in 1 .. Len(log) => got \in Views
  BY <1>2 DEF Views
<1>4. view' \in [Reader -> Views]
  BY <1>1, <1>3 DEF SeqlockInv, TypeOK
<1>5. Return(r) \/ Retry(r)
  BY DEF Recheck
<1>6. \E local \in ReaderLocals : ReaderOK(local) /\ reader' = [reader EXCEPT ![r] = local]
  BY <1>5, ReturnOrRetry DEF SeqlockInv
<1>7. TypeOK' /\ WriterInv' /\ MemoryInv' /\ ReaderInv'
  BY <1>4, <1>6, ReaderFrame DEF Recheck
<1>8. NoTornSnapshot'
  <2> SUFFICES ASSUME NEW s \in Reader
               PROVE  \/ view'[s] = NoView
                      \/ \E k \in 1 .. Len(log) :
                           view'[s] = [revision |-> 2 * k, payload |-> log[k]]
    BY DEF NoTornSnapshot, Recheck
  <2>1. view'[s] = view[s] \/ (Len(log) \in 1 .. Len(log) /\ view'[s] = got)
    BY <1>1 DEF SeqlockInv, TypeOK
  <2> QED
    BY <2>1 DEF SeqlockInv, NoTornSnapshot
<1> QED
  BY <1>7, <1>8 DEF SeqlockInv

-----------------------------------------------------------------------------
(***************************************************************************)
(* The writer's steps.                                                     *)
(***************************************************************************)

\* The OFD lock at work: while w is inside, or nobody is, every other writer
\* is closed, and a closed writer owes the invariant nothing.
LEMMA WriterFrame ==
  ASSUME SeqlockInv, NEW w \in Writer, writer[w].pc # "closed" \/ lock = NoWriter,
         NEW local \in WriterLocals, writer' = [writer EXCEPT ![w] = local],
         WriterOK(w, writer[w])'
  PROVE  writer' \in [Writer -> WriterLocals] /\ WriterInv'
<1>1. writer' \in [Writer -> WriterLocals]
  BY DEF SeqlockInv, TypeOK
<1>2. ASSUME NEW v \in Writer PROVE WriterOK(v, writer[v])'
  <2>1. CASE v = w
    BY <2>1
  <2>2. CASE v # w
    <3>1. writer[v].pc = "closed"
      BY <2>2, PartitionAssumption DEF SeqlockInv, WriterInv, WriterOK
    <3>2. writer'[v].pc = "closed"
      BY <2>2, <3>1 DEF SeqlockInv, TypeOK
    <3> QED
      BY <3>2 DEF WriterOK
  <2> QED
    BY <2>1, <2>2
<1> QED
  BY <1>1, <1>2 DEF WriterInv

\* A writer's step that leaves memory alone disturbs no reader.
LEMMA MemoryFrame ==
  ASSUME SeqlockInv, UNCHANGED <<memory, log, reader, view>>
  PROVE  MemoryInv' /\ ReaderInv' /\ NoTornSnapshot'
  BY DEF SeqlockInv, MemoryInv, RevisionCountsCommits, ReaderInv, ReaderOK,
         NoTornSnapshot, memory

LEMMA OpenWriterInv ==
  ASSUME SeqlockInv, NEW w \in Writer, OpenWriter(w)
  PROVE  SeqlockInv'
<1>1. IdleWriter \in WriterLocals /\ IdleWriter.pc = "idle"
  BY PartitionAssumption DEF IdleWriter, ClosedWriter, WriterLocals, WriterPC
<1>2. writer' = [writer EXCEPT ![w] = IdleWriter] /\ lock' = w /\ lock = NoWriter
  BY DEF OpenWriter
<1>3. writer'[w] = IdleWriter
  BY <1>2 DEF SeqlockInv, TypeOK
<1>4. WriterOK(w, writer[w])'
  BY <1>1, <1>2, <1>3 DEF WriterOK
<1>5. writer' \in [Writer -> WriterLocals] /\ WriterInv'
  BY <1>1, <1>2, <1>4, WriterFrame
<1>6. TypeOK'
  BY <1>2, <1>5 DEF OpenWriter, SeqlockInv, TypeOK, memory
<1> QED
  BY <1>5, <1>6, MemoryFrame DEF OpenWriter, SeqlockInv

\* Closing and crashing leave the same state behind.
LEMMA LeaveInv ==
  ASSUME SeqlockInv, NEW w \in Writer, CloseWriter(w) \/ CrashWriter(w)
  PROVE  SeqlockInv'
<1>1. ClosedWriter \in WriterLocals /\ ClosedWriter.pc = "closed"
  BY PartitionAssumption DEF ClosedWriter, WriterLocals, WriterPC
<1>2. /\ writer' = [writer EXCEPT ![w] = ClosedWriter] /\ lock' = NoWriter
      /\ writer[w].pc # "closed" /\ UNCHANGED <<memory, reader, view, log>>
  BY DEF CloseWriter, CrashWriter
<1>3. writer'[w] = ClosedWriter
  BY <1>2 DEF SeqlockInv, TypeOK
<1>4. WriterOK(w, writer[w])'
  BY <1>1, <1>3 DEF WriterOK
<1>5. writer' \in [Writer -> WriterLocals] /\ WriterInv'
  BY <1>1, <1>2, <1>4, WriterFrame
<1>6. TypeOK'
  BY <1>2, <1>5 DEF SeqlockInv, TypeOK, memory
<1> QED
  BY <1>2, <1>5, <1>6, MemoryFrame DEF SeqlockInv

LEMMA BeginPublishInv ==
  ASSUME SeqlockInv, NEW w \in Writer, NEW n \in Index, NEW data \in [1 .. n -> Word],
         BeginPublish(w, n, data)
  PROVE  SeqlockInv'
<1> DEFINE local == [pc |-> "load", size |-> n, data |-> data, next |-> 0, stored |-> 0]
<1>1. local \in WriterLocals
  BY PayloadOfSize, PartitionAssumption DEF WriterLocals, WriterPC, Index
<1>2. local.pc = "load" /\ local.size = n /\ local.data = data /\ local.stored = 0
  OBVIOUS
<1> HIDE DEF local
<1>3. writer' = [writer EXCEPT ![w] = local] /\ writer[w].pc = "idle"
  BY DEF BeginPublish, local
<1>4. writer'[w] = local
  BY <1>3 DEF SeqlockInv, TypeOK
<1>5. lock' = w
  BY <1>3 DEF BeginPublish, SeqlockInv, WriterInv, WriterOK
<1>6. WriterOK(w, writer[w])'
  BY <1>2, <1>4, <1>5 DEF WriterOK
<1>7. writer' \in [Writer -> WriterLocals] /\ WriterInv'
  BY <1>1, <1>3, <1>6, WriterFrame
<1>8. TypeOK'
  BY <1>7 DEF BeginPublish, SeqlockInv, TypeOK, memory
<1> QED
  BY <1>7, <1>8, MemoryFrame DEF BeginPublish, SeqlockInv

LEMMA LoadPreviousInv ==
  ASSUME SeqlockInv, NEW w \in Writer, LoadPrevious(w)
  PROVE  SeqlockInv'
<1> DEFINE local == [writer[w] EXCEPT !.pc = "mark", !.next = NextRevision(revision)]
<1>1. writer[w] \in WriterLocals /\ WriterOK(w, writer[w]) /\ writer[w].pc = "load"
  BY DEF LoadPrevious, SeqlockInv, TypeOK, WriterInv
<1>2. NextRevision(revision) = 2 * Len(log) + 2 /\ NextRevision(revision) \in Nat
  <2>1. Len(log) \in Nat
    BY DEF SeqlockInv, TypeOK
  <2> QED
    BY <2>1, NextRevisionValue DEF SeqlockInv, MemoryInv, RevisionCountsCommits
<1>3. local \in WriterLocals
  BY <1>1, <1>2 DEF WriterLocals, WriterPC
<1>4. /\ local.pc = "mark" /\ local.next = 2 * Len(log) + 2
      /\ local.size = writer[w].size /\ local.data = writer[w].data
      /\ local.stored = writer[w].stored
  BY <1>1, <1>2 DEF WriterLocals
<1>5. writer' = [writer EXCEPT ![w] = local]
  BY DEF LoadPrevious
<1> HIDE DEF local
<1>6. writer'[w] = local
  BY <1>5 DEF SeqlockInv, TypeOK
<1>7. WriterOK(w, writer[w])'
  <2>1. WriterOK(w, local)
    BY <1>1, <1>4 DEF WriterOK
  <2> QED
    BY <1>4, <1>6, <2>1 DEF WriterOK, LoadPrevious, memory
<1>8. writer' \in [Writer -> WriterLocals] /\ WriterInv'
  BY <1>1, <1>3, <1>5, <1>7, WriterFrame
<1>9. TypeOK'
  BY <1>8 DEF LoadPrevious, SeqlockInv, TypeOK, memory
<1> QED
  BY <1>8, <1>9, MemoryFrame DEF LoadPrevious, SeqlockInv

\* Inside the odd window no reader holds the revision that memory shows, so no
\* store can spoil a copy that will be handed over.
LEMMA OddWindow ==
  ASSUME SeqlockInv, NEW w \in Writer, writer[w].pc \in {"length", "words", "commit"}
  PROVE  /\ revision = 2 * Len(log) + 1 /\ Odd(revision) /\ Len(log) \in Nat
         /\ \A r \in Reader : reader[r].pc \in {"words", "recheck"} =>
              reader[r].before # revision
<1>1. revision = 2 * Len(log) + 1 /\ Len(log) \in Nat
  BY DEF SeqlockInv, TypeOK, WriterInv, WriterOK
<1>2. Odd(revision)
  BY <1>1, Parity
<1> QED
  BY <1>1, <1>2 DEF SeqlockInv, ReaderInv, ReaderOK

LEMMA StoreOddInv ==
  ASSUME SeqlockInv, NEW w \in Writer, StoreOdd(w)
  PROVE  SeqlockInv'
<1> DEFINE local == [writer[w] EXCEPT !.pc = "length"]
<1>1. writer[w] \in WriterLocals /\ WriterOK(w, writer[w]) /\ writer[w].pc = "mark"
  BY DEF StoreOdd, SeqlockInv, TypeOK, WriterInv
<1>2. /\ Len(log) \in Nat /\ revision' = 2 * Len(log) + 1 /\ Odd(revision')
      /\ revision \in Nat /\ revision <= revision'
  <2>1. Len(log) \in Nat /\ revision \in Nat
    BY DEF SeqlockInv, TypeOK
  <2>2. revision' = 2 * Len(log) + 1
    BY <1>1, <2>1 DEF WriterOK, StoreOdd
  <2> QED
    BY <2>1, <2>2, Parity DEF SeqlockInv, MemoryInv, RevisionCountsCommits
<1>3. local \in WriterLocals
  BY <1>1 DEF WriterLocals, WriterPC
<1>4. /\ local.pc = "length" /\ local.next = writer[w].next
      /\ local.size = writer[w].size /\ local.data = writer[w].data
      /\ local.stored = writer[w].stored
  BY <1>1 DEF WriterLocals
<1>5. writer' = [writer EXCEPT ![w] = local]
  BY DEF StoreOdd
<1> HIDE DEF local
<1>6. writer'[w] = local
  BY <1>5 DEF SeqlockInv, TypeOK
<1>7. WriterOK(w, writer[w])'
  BY <1>1, <1>2, <1>4, <1>6 DEF WriterOK, StoreOdd
<1>8. writer' \in [Writer -> WriterLocals] /\ WriterInv'
  BY <1>1, <1>3, <1>5, <1>7, WriterFrame
<1>9. TypeOK'
  BY <1>2, <1>8 DEF StoreOdd, SeqlockInv, TypeOK
<1>10. MemoryInv'
  BY <1>2 DEF StoreOdd, MemoryInv, RevisionCountsCommits
<1>11. ReaderInv'
  <2> SUFFICES ASSUME NEW r \in Reader PROVE ReaderOK(reader[r])'
    BY DEF ReaderInv
  <2>1. ReaderOK(reader[r]) /\ reader[r].before \in Nat /\ reader' = reader
    BY DEF SeqlockInv, TypeOK, ReaderInv, ReaderLocals, StoreOdd
  <2> QED
    BY <1>2, <2>1 DEF ReaderOK
<1>12. NoTornSnapshot'
  BY ViewFrame DEF SeqlockInv, StoreOdd
<1> QED
  BY <1>8, <1>9, <1>10, <1>11, <1>12 DEF SeqlockInv

\* StoreLength and StoreWord change words that no reader may trust.
LEMMA OddWindowFrame ==
  ASSUME SeqlockInv, NEW w \in Writer, writer[w].pc \in {"length", "words"},
         UNCHANGED <<revision, reader, view, log>>
  PROVE  MemoryInv' /\ ReaderInv' /\ NoTornSnapshot'
<1>1. revision = 2 * Len(log) + 1 /\ Odd(revision)
  BY OddWindow
<1>2. MemoryInv'
  BY <1>1 DEF MemoryInv, RevisionCountsCommits
<1>3. ReaderInv'
  BY OddWindow DEF SeqlockInv, ReaderInv, ReaderOK
<1> QED
  BY <1>2, <1>3, ViewFrame DEF SeqlockInv

LEMMA StoreLengthInv ==
  ASSUME SeqlockInv, NEW w \in Writer, StoreLength(w)
  PROVE  SeqlockInv'
<1> DEFINE local == [writer[w] EXCEPT !.pc = "words"]
<1>1. writer[w] \in WriterLocals /\ WriterOK(w, writer[w]) /\ writer[w].pc = "length"
  BY DEF StoreLength, SeqlockInv, TypeOK, WriterInv
<1>2. local \in WriterLocals
  BY <1>1 DEF WriterLocals, WriterPC
<1>3. /\ local.pc = "words" /\ local.next = writer[w].next
      /\ local.size = writer[w].size /\ local.data = writer[w].data
      /\ local.stored = 0
  BY <1>1 DEF WriterLocals, WriterOK
<1>4. writer' = [writer EXCEPT ![w] = local]
  BY DEF StoreLength
<1> HIDE DEF local
<1>5. writer'[w] = local
  BY <1>4 DEF SeqlockInv, TypeOK
<1>6. writer[w].size \in Index /\ writer[w].size > 0
  BY <1>1, PartitionAssumption DEF WriterOK, Index
<1>7. WriterOK(w, writer[w])'
  BY <1>1, <1>3, <1>5, <1>6 DEF WriterOK, StoreLength
<1>8. writer' \in [Writer -> WriterLocals] /\ WriterInv'
  BY <1>1, <1>2, <1>4, <1>7, WriterFrame
<1>9. TypeOK'
  BY <1>1, <1>8 DEF StoreLength, SeqlockInv, TypeOK, WriterLocals
<1> QED
  BY <1>1, <1>8, <1>9, OddWindowFrame DEF StoreLength, SeqlockInv

LEMMA StoreWordInv ==
  ASSUME SeqlockInv, NEW w \in Writer, StoreWord(w)
  PROVE  SeqlockInv'
<1> DEFINE i == writer[w].stored + 1
           q == IF i < writer[w].size THEN "words" ELSE "commit"
           local == [writer[w] EXCEPT !.stored = i, !.pc = q]
<1>1. writer[w] \in WriterLocals /\ WriterOK(w, writer[w]) /\ writer[w].pc = "words"
  BY DEF StoreWord, SeqlockInv, TypeOK, WriterInv
<1>2. /\ writer[w].size \in Index /\ writer[w].stored < writer[w].size
      /\ writer[w].data \in [1 .. writer[w].size -> Word]
  BY <1>1 DEF WriterOK
<1>3. /\ i \in Index /\ i \in 0 .. Capacity /\ i \in 1 .. writer[w].size
      /\ writer[w].stored \in Nat
  BY <1>1, <1>2, PartitionAssumption DEF WriterLocals, Index
<1>4. \/ q = "words" /\ i < writer[w].size
      \/ q = "commit" /\ i = writer[w].size
  BY <1>2, <1>3, PartitionAssumption DEF Index
<1>5. writer' = [writer EXCEPT ![w] = local] /\ words' = [words EXCEPT ![i] = writer[w].data[i]]
  BY DEF StoreWord
<1>6. local \in WriterLocals
  BY <1>1, <1>3 DEF WriterLocals, WriterPC
<1>7. /\ local.pc = q /\ local.next = writer[w].next
      /\ local.size = writer[w].size /\ local.data = writer[w].data
      /\ local.stored = i
  BY <1>1 DEF WriterLocals
<1>8. ASSUME NEW j \in 1 .. i PROVE words'[j] = writer[w].data[j]
  <2>1. CASE j = i
    BY <1>3, <1>5, <2>1 DEF SeqlockInv, TypeOK
  <2>2. CASE j # i
    <3>1. j \in 1 .. writer[w].stored /\ j \in Index
      BY <1>3, <2>2, PartitionAssumption DEF Index
    <3>2. words[j] = writer[w].data[j]
      BY <1>1, <3>1 DEF WriterOK
    <3> QED
      BY <1>5, <2>2, <3>1, <3>2 DEF SeqlockInv, TypeOK
  <2> QED
    BY <2>1, <2>2
<1> HIDE DEF i, q, local
<1>9. writer'[w] = local
  BY <1>5 DEF SeqlockInv, TypeOK
<1>10. WriterOK(w, writer[w])'
  BY <1>1, <1>4, <1>7, <1>8, <1>9 DEF WriterOK, StoreWord
<1>11. writer' \in [Writer -> WriterLocals] /\ WriterInv'
  BY <1>1, <1>5, <1>6, <1>10, WriterFrame
<1>12. TypeOK'
  <2>1. writer[w].data[i] \in Word
    BY <1>2, <1>3
  <2> QED
    BY <1>3, <1>5, <1>11, <2>1 DEF StoreWord, SeqlockInv, TypeOK
<1> QED
  BY <1>1, <1>11, <1>12, OddWindowFrame DEF StoreWord, SeqlockInv

\* The commit: the revision turns even over exactly the words just stored.
LEMMA StoreEvenInv ==
  ASSUME SeqlockInv, NEW w \in Writer, StoreEven(w)
  PROVE  SeqlockInv'
<1> DEFINE data == writer[w].data
<1>1. writer[w] \in WriterLocals /\ WriterOK(w, writer[w]) /\ writer[w].pc = "commit"
  BY DEF StoreEven, SeqlockInv, TypeOK, WriterInv
<1>2. /\ writer[w].size \in Index /\ data \in [1 .. writer[w].size -> Word]
      /\ length = writer[w].size
      /\ \A i \in 1 .. writer[w].size : words[i] = data[i]
      /\ revision = 2 * Len(log) + 1 /\ writer[w].next = 2 * Len(log) + 2
  BY <1>1 DEF WriterOK
<1>3. data \in Payload
  BY <1>2, PayloadOfSize
<1>4. /\ log' \in Seq(Payload) /\ Len(log') = Len(log) + 1 /\ Len(log) \in Nat
      /\ log'[Len(log')] = data
      /\ \A k \in 1 .. Len(log) : log'[k] = log[k]
  <2>1. log \in Seq(Payload) /\ log' = Append(log, data)
    BY DEF SeqlockInv, TypeOK, StoreEven
  <2> QED
    BY <1>3, <2>1, AppendProperties
<1>5. revision' = 2 * Len(log') /\ revision' \in Nat /\ revision < revision'
  BY <1>2, <1>4 DEF StoreEven
<1>6. IdleWriter \in WriterLocals /\ IdleWriter.pc = "idle"
  BY PartitionAssumption DEF IdleWriter, ClosedWriter, WriterLocals, WriterPC
<1>7. writer' = [writer EXCEPT ![w] = IdleWriter] /\ writer'[w] = IdleWriter
  BY DEF StoreEven, SeqlockInv, TypeOK
<1>8. WriterOK(w, writer[w])'
  BY <1>1, <1>6, <1>7 DEF WriterOK, StoreEven
<1>9. writer' \in [Writer -> WriterLocals] /\ WriterInv'
  BY <1>1, <1>6, <1>7, <1>8, WriterFrame
<1>10. TypeOK'
  BY <1>4, <1>5, <1>9 DEF StoreEven, SeqlockInv, TypeOK
<1>11. MemoryInv'
  <2>1. data = [i \in 1 .. length |-> words[i]]
    BY <1>2
  <2>2. length' = length /\ words' = words
    BY DEF StoreEven
  <2>3. length' \in Index /\ log'[Len(log')] = [i \in 1 .. length' |-> words'[i]]
    BY <1>2, <1>4, <2>1, <2>2
  <2> QED
    BY <1>5, <2>3 DEF MemoryInv, RevisionCountsCommits
<1>12. ReaderInv'
  <2> SUFFICES ASSUME NEW r \in Reader PROVE ReaderOK(reader[r])'
    BY DEF ReaderInv
  <2>1. ReaderOK(reader[r]) /\ reader[r].before \in Nat /\ reader' = reader /\ revision \in Nat
    BY DEF SeqlockInv, TypeOK, ReaderInv, ReaderLocals, StoreEven
  <2> QED
    BY <1>5, <2>1 DEF ReaderOK
<1>13. NoTornSnapshot'
  <2> SUFFICES ASSUME NEW r \in Reader
               PROVE  \/ view[r] = NoView
                      \/ \E k \in 1 .. Len(log') :
                           view[r] = [revision |-> 2 * k, payload |-> log'[k]]
    BY DEF NoTornSnapshot, StoreEven
  <2>1. CASE view[r] = NoView
    BY <2>1
  <2>2. CASE \E k \in 1 .. Len(log) : view[r] = [revision |-> 2 * k, payload |-> log[k]]
    <3>1. PICK k \in 1 .. Len(log) : view[r] = [revision |-> 2 * k, payload |-> log[k]]
      BY <2>2
    <3>2. k \in 1 .. Len(log') /\ log'[k] = log[k]
      BY <1>4
    <3> QED
      BY <3>1, <3>2
  <2> QED
    BY <2>1, <2>2 DEF SeqlockInv, NoTornSnapshot
<1> QED
  BY <1>9, <1>10, <1>11, <1>12, <1>13 DEF SeqlockInv

-----------------------------------------------------------------------------
(***************************************************************************)
(* The theorems.                                                           *)
(***************************************************************************)

LEMMA NextInv == SeqlockInv /\ [Next]_vars => SeqlockInv'
<1> SUFFICES ASSUME SeqlockInv, [Next]_vars PROVE SeqlockInv'
  OBVIOUS
<1>1. ASSUME NEW w \in Writer, WriterNext(w) PROVE SeqlockInv'
  <2>1. CASE OpenWriter(w)
    BY <2>1, OpenWriterInv
  <2>2. CASE CloseWriter(w) \/ CrashWriter(w)
    BY <2>2, LeaveInv
  <2>3. CASE \E n \in Index : \E data \in [1 .. n -> Word] : BeginPublish(w, n, data)
    BY <2>3, BeginPublishInv
  <2>4. CASE PublishStep(w)
    BY <2>4, LoadPreviousInv, StoreOddInv, StoreLengthInv, StoreWordInv, StoreEvenInv
       DEF PublishStep
  <2> QED
    BY <1>1, <2>1, <2>2, <2>3, <2>4 DEF WriterNext
<1>2. ASSUME NEW r \in Reader, ReaderNext(r) PROVE SeqlockInv'
  BY <1>2, BeginSnapshotInv, LoadRevisionInv, LoadLengthInv, LoadWordInv, RecheckInv
     DEF ReaderNext, ReadStep
<1>3. CASE UNCHANGED vars
  <2>1. UNCHANGED <<memory, log, reader, view, lock, writer>>
    BY <1>3 DEF vars, memory
  <2>2. TypeOK'
    BY <2>1 DEF SeqlockInv, TypeOK, memory
  <2>3. WriterInv'
    BY <2>1 DEF SeqlockInv, WriterInv, WriterOK, memory
  <2> QED
    BY <2>1, <2>2, <2>3, MemoryFrame DEF SeqlockInv
<1> QED
  BY <1>1, <1>2, <1>3 DEF Next

\* The inductive invariant holds in every reachable state.
THEOREM Inductive == Spec => []SeqlockInv
  BY InitInv, NextInv, PTL DEF Spec

\* Every load and store of publish, snapshot and readBoardSlot keeps words,
\* locals and outputs within their ranges.
THEOREM TypeCorrect == Spec => []TypeOK
<1>1. SeqlockInv => TypeOK
  BY DEF SeqlockInv
<1> QED
  BY <1>1, Inductive, PTL

\* Board::snapshot and readBoardSlot never hand out a mixture of two
\* publishes, nor the remains of one that a crash cut short.
THEOREM NeverTorn == Spec => []NoTornSnapshot
<1>1. SeqlockInv => NoTornSnapshot
  BY DEF SeqlockInv
<1> QED
  BY <1>1, Inductive, PTL

\* (previous | 1) + 1 makes the revision a count of commits.
THEOREM RevisionsCount == Spec => []RevisionCountsCommits
<1>1. SeqlockInv => RevisionCountsCommits
  BY DEF SeqlockInv, MemoryInv
<1> QED
  BY <1>1, Inductive, PTL

\* A step changes at most one caller's view, by a successful recheck.
LEMMA ViewStep ==
  ASSUME SeqlockInv, [Next]_vars, view' # view
  PROVE  \E r \in Reader :
           /\ Len(log) \in 1 .. Len(log) /\ UNCHANGED log
           /\ view' = [view EXCEPT ![r] = [revision |-> 2 * Len(log),
                                           payload |-> log[Len(log)]]]
<1>1. \E r \in Reader : Recheck(r)
  BY DEF Next, vars, WriterNext, OpenWriter, CloseWriter, CrashWriter, BeginPublish,
         PublishStep, LoadPrevious, StoreOdd, StoreLength, StoreWord, StoreEven,
         ReaderNext, BeginSnapshot, ReadStep, LoadRevision, LoadLength, LoadWord
<1>2. PICK r \in Reader : Recheck(r)
  BY <1>1
<1>3. UNCHANGED log
  BY <1>2 DEF Recheck
<1> QED
  BY <1>2, <1>3, Handover

\* last_revision only grows, and the payload changes only with it, over
\* failed attempts, retries, crashes and new writers.
THEOREM Monotonic == Spec => ViewNeverRegresses
<1>1. ASSUME SeqlockInv, [Next]_vars, NEW r \in Reader, view'[r] # view[r]
      PROVE  view'[r].revision > view[r].revision
  <2>1. view' # view
    BY <1>1
  <2>2. PICK s \in Reader :
          /\ Len(log) \in 1 .. Len(log) /\ UNCHANGED log
          /\ view' = [view EXCEPT ![s] = [revision |-> 2 * Len(log),
                                          payload |-> log[Len(log)]]]
    BY <1>1, <2>1, ViewStep
  <2>3. s = r /\ view'[r] = [revision |-> 2 * Len(log), payload |-> log[Len(log)]]
    BY <1>1, <2>2 DEF SeqlockInv, TypeOK
  <2>4. Len(log) \in Nat /\ Len(log) > 0
    BY <2>2 DEF SeqlockInv, TypeOK
  <2>5. CASE view[r] = NoView
    BY <2>3, <2>4, <2>5 DEF NoView
  <2>6. CASE \E k \in 1 .. Len(log) : view[r] = [revision |-> 2 * k, payload |-> log[k]]
    <3>1. PICK k \in 1 .. Len(log) : view[r] = [revision |-> 2 * k, payload |-> log[k]]
      BY <2>6
    <3>2. k # Len(log)
      BY <1>1, <2>3, <3>1
    <3> QED
      BY <2>3, <2>4, <3>1, <3>2
  <2> QED
    BY <1>1, <2>5, <2>6 DEF SeqlockInv, NoTornSnapshot
<1>2. SeqlockInv /\ [Next]_vars =>
        [\A r \in Reader : view'[r] # view[r] => view'[r].revision > view[r].revision]_view
  BY <1>1
<1> QED
  BY <1>2, Inductive, PTL DEF Spec, ViewNeverRegresses

\* The log grows only by a commit of a payload.
LEMMA LogStep ==
  ASSUME SeqlockInv, [Next]_vars, log' # log
  PROVE  UNCHANGED view /\ \E p \in Payload : log' = Append(log, p)
<1>1. PICK w \in Writer : StoreEven(w)
  BY DEF Next, vars, WriterNext, OpenWriter, CloseWriter, CrashWriter, BeginPublish,
         PublishStep, LoadPrevious, StoreOdd, StoreLength, StoreWord,
         ReaderNext, BeginSnapshot, ReadStep, LoadRevision, LoadLength, LoadWord, Recheck
<1>2. writer[w].size \in Index /\ writer[w].data \in [1 .. writer[w].size -> Word]
  BY <1>1 DEF StoreEven, SeqlockInv, WriterInv, WriterOK
<1>3. writer[w].data \in Payload
  BY <1>2, PayloadOfSize
<1> QED
  BY <1>1, <1>3 DEF StoreEven

\* The sequence lock implements the atomic cell: every behaviour of readers,
\* writers and crashes is, at the callers' interface, one of atomic commits
\* and atomic snapshots.
THEOREM Refinement == Spec => ImplementsAtomicPartition
<1>1. Init => Atomic!AInit
  BY DEF Init, Atomic!AInit, Atomic!ANoView, NoView
<1>2. ASSUME SeqlockInv, [Next]_vars
      PROVE  [Atomic!ANext]_<<log, view>>
  <2>1. CASE view' # view
    <3>1. PICK r \in Reader :
            /\ Len(log) \in 1 .. Len(log) /\ UNCHANGED log
            /\ view' = [view EXCEPT ![r] = [revision |-> 2 * Len(log),
                                            payload |-> log[Len(log)]]]
      BY <1>2, <2>1, ViewStep
    <3>2. log # << >>
      BY <3>1 DEF SeqlockInv, TypeOK
    <3>3. Atomic!Snapshot(r)
      BY <3>1, <3>2 DEF Atomic!Snapshot, Atomic!NewestRevision
    <3> QED
      BY <3>3 DEF Atomic!ANext
  <2>2. CASE log' # log
    <3>1. PICK p \in Payload : log' = Append(log, p) /\ UNCHANGED view
      BY <1>2, <2>2, LogStep
    <3>2. Atomic!Commit(p)
      BY <3>1 DEF Atomic!Commit
    <3> QED
      BY <3>2 DEF Atomic!ANext
  <2> QED
    BY <2>1, <2>2
<1> QED
  BY <1>1, <1>2, Inductive, PTL DEF Spec, ImplementsAtomicPartition, Atomic!ASpec, Atomic!avars

-----------------------------------------------------------------------------
(***************************************************************************)
(* What a snapshot holds fits its caller's buffer.                         *)
(***************************************************************************)

\* A reader's step that hands nothing over leaves a checked size alone.
LEMMA FitFrame ==
  ASSUME TypeOK, FitInv, NEW r \in Reader, NEW local,
         reader' = [reader EXCEPT ![r] = local], UNCHANGED view,
         local.pc \in {"words", "recheck"} =>
           r \in GoReader \/ local.size <= Available[r]
  PROVE  FitInv'
<1>1. \A s \in Reader : reader'[s] = IF s = r THEN local ELSE reader[s]
  BY DEF TypeOK
<1>2. SnapshotFitsCaller'
  BY DEF FitInv, SnapshotFitsCaller
<1> QED
  BY <1>1, <1>2 DEF FitInv

LEMMA NotReading ==
  ASSUME NEW r \in Reader, Return(r) \/ Retry(r)
  PROVE  \E local : /\ reader' = [reader EXCEPT ![r] = local]
                    /\ local.pc \notin {"words", "recheck"}
<1>1. ASSUME NEW place \in {"idle", "revision"}, NEW attempt
      PROVE  FreshReader(place, attempt).pc = place
  BY DEF FreshReader
<1>2. IdleReader.pc = "idle"
  BY <1>1 DEF IdleReader
<1>3. CASE Return(r)
  BY <1>2, <1>3 DEF Return
<1>4. CASE Retry(r) /\ ~Return(r)
  <2>1. reader' = [reader EXCEPT ![r] = FreshReader("revision", reader[r].attempt + 1)]
    BY <1>4 DEF Retry
  <2>2. FreshReader("revision", reader[r].attempt + 1).pc = "revision"
    BY <1>1
  <2> QED
    BY <2>1, <2>2
<1> QED
  BY <1>3, <1>4

LEMMA FitStep == TypeOK /\ FitInv /\ [Next]_vars => FitInv'
<1> SUFFICES ASSUME TypeOK, FitInv, [Next]_vars PROVE FitInv'
  OBVIOUS
<1>1. ASSUME NEW w \in Writer, WriterNext(w) PROVE FitInv'
  <2>1. UNCHANGED <<reader, view>>
    BY <1>1 DEF WriterNext, PublishStep, OpenWriter, CloseWriter, CrashWriter, BeginPublish,
                LoadPrevious, StoreOdd, StoreLength, StoreWord, StoreEven
  <2> QED
    BY <2>1 DEF FitInv, SnapshotFitsCaller
<1>2. ASSUME NEW r \in Reader, ReaderNext(r) PROVE FitInv'
  <2>1. CASE BeginSnapshot(r)
    BY <2>1, FitFrame DEF BeginSnapshot, FreshReader
  <2>2. CASE LoadRevision(r) /\ (Return(r) \/ Retry(r))
    BY <2>2, NotReading, FitFrame DEF LoadRevision
  <2>3. CASE LoadRevision(r) /\ ~(Return(r) \/ Retry(r))
    <3>1. reader' = [reader EXCEPT ![r] = [reader[r] EXCEPT !.pc = "length",
                                                           !.before = revision]]
      BY <2>3 DEF LoadRevision
    <3>2. [reader[r] EXCEPT !.pc = "length", !.before = revision].pc = "length"
      BY DEF TypeOK, ReaderLocals
    <3> QED
      BY <2>3, <3>1, <3>2, FitFrame DEF LoadRevision
  <2>4. CASE LoadLength(r) /\ Return(r)
    BY <2>4, NotReading, FitFrame DEF LoadLength
  <2>5. CASE LoadLength(r) /\ Fits(r, length)
    <3> DEFINE local == [reader[r] EXCEPT !.pc = "words", !.size = length]
    <3>1. reader' = [reader EXCEPT ![r] = local]
      BY <2>5 DEF LoadLength
    <3>2. local.size = length
      BY DEF TypeOK, ReaderLocals
    <3>3. r \in GoReader \/ length <= Available[r]
      BY <2>5 DEF Fits
    <3> HIDE DEF local
    <3> QED
      BY <2>5, <3>1, <3>2, <3>3, FitFrame DEF LoadLength
  <2>6. CASE LoadWord(r)
    <3> DEFINE i == reader[r].loaded + 1
               local == [reader[r] EXCEPT
                           !.scratch = [reader[r].scratch EXCEPT ![i] = words[i]],
                           !.loaded = i,
                           !.pc = IF i < reader[r].size THEN "words" ELSE "recheck"]
    <3>1. reader' = [reader EXCEPT ![r] = local] /\ reader[r].pc = "words"
      BY <2>6 DEF LoadWord
    <3>2. local.size = reader[r].size
      BY DEF TypeOK, ReaderLocals
    <3>3. r \in GoReader \/ reader[r].size <= Available[r]
      BY <3>1 DEF FitInv
    <3> HIDE DEF local
    <3> QED
      BY <2>6, <3>1, <3>2, <3>3, FitFrame DEF LoadWord
  <2>7. CASE Recheck(r) /\ UNCHANGED view
    <3>1. Return(r) \/ Retry(r)
      BY <2>7 DEF Recheck
    <3> QED
      BY <2>7, <3>1, NotReading, FitFrame
  <2>8. CASE Recheck(r) /\ ~UNCHANGED view
    <3> DEFINE copy == [i \in 1 .. reader[r].size |-> reader[r].scratch[i]]
    <3>1. /\ reader[r].pc = "recheck"
          /\ view' = [view EXCEPT ![r] = [revision |-> reader[r].before, payload |-> copy]]
          /\ Return(r)
      BY <2>8 DEF Recheck
    <3>2. PICK local : /\ reader' = [reader EXCEPT ![r] = local]
                      /\ local.pc \notin {"words", "recheck"}
      BY <3>1, NotReading
    <3>3. \A s \in Reader : reader'[s] = IF s = r THEN local ELSE reader[s]
      BY <3>2 DEF TypeOK
    <3>4. \A s \in Reader : s # r => view'[s] = view[s]
      BY <3>1 DEF TypeOK
    <3>5. r \notin GoReader => DOMAIN view'[r].payload \subseteq 1 .. Available[r]
      <4>1. view'[r].payload = copy
        BY <3>1 DEF TypeOK
      <4>2. DOMAIN copy = 1 .. reader[r].size /\ reader[r].size \in Nat
        BY DEF TypeOK, ReaderLocals
      <4>3. Available[r] \in Nat
        BY PartitionAssumption
      <4>4. r \notin GoReader => reader[r].size <= Available[r]
        BY <3>1 DEF FitInv
      <4> QED
        BY <4>1, <4>2, <4>3, <4>4
    <3>6. SnapshotFitsCaller'
      BY <3>4, <3>5 DEF FitInv, SnapshotFitsCaller
    <3> QED
      BY <3>2, <3>3, <3>6 DEF FitInv
  <2> QED
    BY <1>2, <2>1, <2>2, <2>3, <2>4, <2>5, <2>6, <2>7, <2>8
       DEF ReaderNext, ReadStep, LoadLength
<1>3. CASE UNCHANGED vars
  BY <1>3 DEF vars, FitInv, SnapshotFitsCaller
<1> QED
  BY <1>1, <1>2, <1>3 DEF Next

\* A snapshot never holds more words than its caller has room for.
THEOREM FitsTheCaller == Spec => []SnapshotFitsCaller
<1>1. Init => FitInv
  <2> SUFFICES ASSUME Init PROVE FitInv
    OBVIOUS
  <2>1. \A r \in Reader : view[r] = NoView /\ reader[r].pc = "idle"
    BY DEF Init, IdleReader, FreshReader
  <2> QED
    BY <2>1 DEF FitInv, SnapshotFitsCaller
<1>2. FitInv => SnapshotFitsCaller
  BY DEF FitInv
<1> QED
  BY <1>1, <1>2, FitStep, TypeCorrect, PTL DEF Spec
=============================================================================
