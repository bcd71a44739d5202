-------------------------- MODULE SeqlockPartition --------------------------
(***************************************************************************)
(* One partition of the shared state board: a sequence lock in shared      *)
(* memory, with the OFD lock that admits one writer at a time, the C++     *)
(* writer (Board::publish), the C++ reader (Board::snapshot) and the       *)
(* read-only Go reader (readBoardSlot) of the inspector and the recorder.  *)
(*                                                                         *)
(* Every access to a shared word is sequentially consistent in the code    *)
(* (__ATOMIC_SEQ_CST, atomic.LoadUint64), so each load and each store is   *)
(* one action here and the interleavings of the actions are the behaviours *)
(* of the program.  Sizes are counted in 8-byte words.                     *)
(***************************************************************************)
EXTENDS Naturals, Sequences

CONSTANTS
  Writer,       \* processes that open the partition for writing
  Reader,       \* processes that take snapshots
  GoReader,     \* the readers that run readBoardSlot instead of snapshot
  Word,         \* the values of one 8-byte payload word
  ZeroWord,     \* the word a newly created board is filled with
  Capacity,     \* payload words in a partition
  Available,    \* per reader: words its output buffer holds
  MaxRevision,  \* bound: no publish starts at this revision
  NoWriter      \* the lock is free

ASSUME PartitionAssumption ==
  /\ GoReader \subseteq Reader
  /\ ZeroWord \in Word
  /\ Capacity \in Nat \ {0}
  /\ Available \in [Reader -> Nat]
  /\ MaxRevision \in Nat
  /\ NoWriter \notin Writer

VARIABLES
  revision,     \* word 0 of the partition: odd while a write is in progress
  length,       \* word 1: the payload's size
  words,        \* words 2...: the payload
  lock,         \* who holds the OFD lock on the partition's byte range
  writer,       \* per writer: where it is in publish, and its locals
  reader,       \* per reader: where it is in snapshot, and its locals
  view,         \* per reader: the caller's output buffer and last_revision
  log           \* history: the payloads committed so far, oldest first

memory == <<revision, length, words>>
vars == <<revision, length, words, lock, writer, reader, view, log>>
-----------------------------------------------------------------------------
Index == 1 .. Capacity
Payload == UNION {[1 .. n -> Word] : n \in Index}

Attempts == 3

Odd(n) == n % 2 = 1

\* Mutant: publish forgets that a writer may have died at an odd revision.
NextRevisionOfEven(previous) == previous + 2

\* (previous | 1) + 1: the next even revision, whether or not the previous
\* writer died between its odd and its even store.
NextRevision(previous) == IF Odd(previous) THEN previous + 1 ELSE previous + 2

WriterPC == {"closed", "idle", "load", "mark", "length", "words", "commit"}
ReaderPC == {"idle", "revision", "length", "words", "recheck"}

Blank == [i \in Index |-> ZeroWord]

\* The locals of publish and of snapshot, and what a caller of snapshot holds.
WriterLocals == [pc : WriterPC, size : 0 .. Capacity, data : Payload \cup {<< >>},
                 next : Nat, stored : 0 .. Capacity]
ReaderLocals == [pc : ReaderPC, attempt : 0 .. Attempts - 1, before : Nat,
                 size : 0 .. Capacity, scratch : [Index -> Word], loaded : 0 .. Capacity]
Views == [revision : Nat, payload : Payload \cup {<< >>}]

ClosedWriter == [pc |-> "closed", size |-> 0, data |-> << >>, next |-> 0, stored |-> 0]
IdleWriter == [ClosedWriter EXCEPT !.pc = "idle"]

\* A reader that has loaded nothing yet.
FreshReader(pc, attempt) == [pc |-> pc, attempt |-> attempt, before |-> 0, size |-> 0,
                             scratch |-> Blank, loaded |-> 0]
IdleReader == FreshReader("idle", 0)

NoView == [revision |-> 0, payload |-> << >>]

Init ==
  /\ revision = 0
  /\ length = 0
  /\ words = Blank
  /\ lock = NoWriter
  /\ writer = [w \in Writer |-> ClosedWriter]
  /\ reader = [r \in Reader |-> IdleReader]
  /\ view = [r \in Reader |-> NoView]
  /\ log = << >>
-----------------------------------------------------------------------------
(***************************************************************************)
(* The writer.                                                             *)
(***************************************************************************)

\* Board::open with a writer slot: fcntl(F_OFD_SETLK) either takes the
\* partition's range or the open fails and changes nothing.
OpenWriter(w) ==
  /\ writer[w].pc = "closed"
  /\ lock = NoWriter
  /\ lock' = w
  /\ writer' = [writer EXCEPT ![w] = IdleWriter]
  /\ UNCHANGED <<memory, reader, view, log>>

\* Board::close between two publishes: unmap, then close the descriptor,
\* which drops the lock.
CloseWriter(w) ==
  /\ writer[w].pc = "idle"
  /\ lock' = NoWriter
  /\ writer' = [writer EXCEPT ![w] = ClosedWriter]
  /\ UNCHANGED <<memory, reader, view, log>>

\* The writing process dies anywhere, also inside publish.  The kernel drops
\* its lock; the shared words stay as they are.
CrashWriter(w) ==
  /\ writer[w].pc # "closed"
  /\ lock' = NoWriter
  /\ writer' = [writer EXCEPT ![w] = ClosedWriter]
  /\ UNCHANGED <<memory, reader, view, log>>

\* publish is called with n words of data; calls with no data or more than
\* the capacity return false and change nothing.
BeginPublish(w, n, data) ==
  /\ writer[w].pc = "idle"
  /\ revision < MaxRevision
  /\ writer' = [writer EXCEPT ![w] =
       [pc |-> "load", size |-> n, data |-> data, next |-> 0, stored |-> 0]]
  /\ UNCHANGED <<memory, lock, reader, view, log>>

LoadPrevious(w) ==
  /\ writer[w].pc = "load"
  /\ writer' = [writer EXCEPT ![w].pc = "mark", ![w].next = NextRevision(revision)]
  /\ UNCHANGED <<memory, lock, reader, view, log>>

\* Mutant: publish does not mark the partition as being written.
StoreOddSkipped(w) ==
  /\ writer[w].pc = "mark"
  /\ writer' = [writer EXCEPT ![w].pc = "length"]
  /\ UNCHANGED <<memory, lock, reader, view, log>>

StoreOdd(w) ==
  /\ writer[w].pc = "mark"
  /\ revision' = writer[w].next - 1
  /\ writer' = [writer EXCEPT ![w].pc = "length"]
  /\ UNCHANGED <<length, words, lock, reader, view, log>>

StoreLength(w) ==
  /\ writer[w].pc = "length"
  /\ length' = writer[w].size
  /\ writer' = [writer EXCEPT ![w].pc = "words"]
  /\ UNCHANGED <<revision, words, lock, reader, view, log>>

StoreWord(w) ==
  LET i == writer[w].stored + 1 IN
  /\ writer[w].pc = "words"
  /\ words' = [words EXCEPT ![i] = writer[w].data[i]]
  /\ writer' = [writer EXCEPT ![w].stored = i,
                              ![w].pc = IF i < writer[w].size THEN "words" ELSE "commit"]
  /\ UNCHANGED <<revision, length, lock, reader, view, log>>

StoreEven(w) ==
  /\ writer[w].pc = "commit"
  /\ revision' = writer[w].next
  /\ log' = Append(log, writer[w].data)
  /\ writer' = [writer EXCEPT ![w] = IdleWriter]
  /\ UNCHANGED <<length, words, lock, reader, view>>
-----------------------------------------------------------------------------
(***************************************************************************)
(* The readers.  The locals of a call die with it.                         *)
(***************************************************************************)

BeginSnapshot(r) ==
  /\ reader[r].pc = "idle"
  /\ reader' = [reader EXCEPT ![r] = FreshReader("revision", 0)]
  /\ UNCHANGED <<memory, lock, writer, view, log>>

\* The call returns.  Only Recheck writes output, size and last_revision.
Return(r) == reader' = [reader EXCEPT ![r] = IdleReader]

\* Mutant: the attempts are not counted.
RetryForever(r) == reader' = [reader EXCEPT ![r] = FreshReader("revision", 0)]

\* continue: the next attempt, or false after the last one.
Retry(r) ==
  IF reader[r].attempt + 1 < Attempts
  THEN reader' = [reader EXCEPT ![r] = FreshReader("revision", reader[r].attempt + 1)]
  ELSE Return(r)

\* snapshot refuses a revision its caller already holds; readBoardSlot does
\* not know what its caller holds.
NothingNew(r) ==
  \/ revision = 0
  \/ r \notin GoReader /\ revision = view[r].revision

LoadRevision(r) ==
  /\ reader[r].pc = "revision"
  /\ \/ NothingNew(r) /\ Return(r)
     \/ ~NothingNew(r) /\ Odd(revision) /\ Retry(r)
     \/ /\ ~NothingNew(r) /\ ~Odd(revision)
        /\ reader' = [reader EXCEPT ![r].pc = "length", ![r].before = revision]
  /\ UNCHANGED <<memory, lock, writer, view, log>>

\* Mutants: the caller's room is forgotten; a full partition does not fit.
FitsAnyone(r, n) == n # 0 /\ n <= Capacity
FitsAlmost(r, n) == n # 0 /\ n < Capacity /\ (r \in GoReader \/ n <= Available[r])

\* What the caller can take: readBoardSlot allocates, snapshot copies out.
Fits(r, n) == n # 0 /\ n <= Capacity /\ (r \in GoReader \/ n <= Available[r])

LoadLength(r) ==
  /\ reader[r].pc = "length"
  /\ IF Fits(r, length)
     THEN reader' = [reader EXCEPT ![r].pc = "words", ![r].size = length]
     ELSE Return(r)
  /\ UNCHANGED <<memory, lock, writer, view, log>>

LoadWord(r) ==
  LET i == reader[r].loaded + 1 IN
  /\ reader[r].pc = "words"
  /\ reader' = [reader EXCEPT
       ![r].scratch[i] = words[i],
       ![r].loaded = i,
       ![r].pc = IF i < reader[r].size THEN "words" ELSE "recheck"]
  /\ UNCHANGED <<memory, lock, writer, view, log>>

\* Mutant: the revision is not loaded again.
RecheckSkipped(r) ==
  /\ reader[r].pc = "recheck"
  /\ view' = [view EXCEPT ![r] =
       [revision |-> reader[r].before,
        payload |-> [i \in 1 .. reader[r].size |-> reader[r].scratch[i]]]]
  /\ Return(r)
  /\ UNCHANGED <<memory, lock, writer, log>>

\* The second load of the revision: equal, the copy is handed to the caller;
\* different, the copy is thrown away.
Recheck(r) ==
  /\ reader[r].pc = "recheck"
  /\ \/ /\ revision = reader[r].before
        /\ view' = [view EXCEPT ![r] =
             [revision |-> reader[r].before,
              payload |-> [i \in 1 .. reader[r].size |-> reader[r].scratch[i]]]]
        /\ Return(r)
     \/ revision # reader[r].before /\ Retry(r) /\ UNCHANGED view
  /\ UNCHANGED <<memory, lock, writer, log>>
-----------------------------------------------------------------------------
PublishStep(w) ==
  \/ LoadPrevious(w) \/ StoreOdd(w) \/ StoreLength(w) \/ StoreWord(w) \/ StoreEven(w)

ReadStep(r) == LoadRevision(r) \/ LoadLength(r) \/ LoadWord(r) \/ Recheck(r)

WriterNext(w) ==
  \/ OpenWriter(w) \/ CloseWriter(w) \/ CrashWriter(w)
  \/ \E n \in Index : \E data \in [1 .. n -> Word] : BeginPublish(w, n, data)
  \/ PublishStep(w)

ReaderNext(r) == BeginSnapshot(r) \/ ReadStep(r)

Next == (\E w \in Writer : WriterNext(w)) \/ (\E r \in Reader : ReaderNext(r))

Spec == Init /\ [][Next]_vars

\* A process that is inside publish or snapshot keeps running unless it
\* crashes, and a consumer polls.  Nothing obliges a writer to open or publish.
Fairness ==
  /\ \A w \in Writer : WF_vars(PublishStep(w))
  /\ \A r \in Reader : WF_vars(ReaderNext(r))

FairSpec == Spec /\ Fairness
-----------------------------------------------------------------------------
(***************************************************************************)
(* Properties.                                                             *)
(***************************************************************************)

\* Every variable keeps its shape; in particular the shared length never
\* exceeds the partition and a reader's locals stay inside its buffers.
TypeOK ==
  /\ revision \in Nat
  /\ length \in 0 .. Capacity
  /\ words \in [Index -> Word]
  /\ lock \in Writer \cup {NoWriter}
  /\ writer \in [Writer -> WriterLocals]
  /\ reader \in [Reader -> ReaderLocals]
  /\ view \in [Reader -> Views]
  /\ log \in Seq(Payload)

\* What a caller holds is nothing, or exactly one committed payload - all of
\* its words and its size - under the revision of its commit: no snapshot
\* mixes two publishes, or a publish and the remains of a crashed one.
NoTornSnapshot ==
  \A r \in Reader :
    \/ view[r] = NoView
    \/ \E k \in 1 .. Len(log) : view[r] = [revision |-> 2 * k, payload |-> log[k]]

\* The revision counts commits: a write abandoned by a crash is overwritten
\* under its own odd revision and never consumes an even one.  The recorder
\* and the archive analysis turn revision gaps into numbers of missed
\* commits and rely on it.
RevisionCountsCommits ==
  revision = 2 * Len(log) \/ revision = 2 * Len(log) + 1

\* A snapshot never holds more words than its caller has room for, although
\* the length is loaded once and the words are copied out later.
SnapshotFitsCaller ==
  \A r \in Reader \ GoReader :
    view[r] # NoView => DOMAIN view[r].payload \subseteq 1 .. Available[r]

(***************************************************************************)
(* The inductive invariant behind NoTornSnapshot.                          *)
(***************************************************************************)

\* Only the lock holder is inside the partition; what it has stored so far is
\* in memory, behind an odd revision that nobody else changes.
WriterOK(w, local) ==
  /\ local.pc # "closed" => lock = w
  /\ local.pc \notin {"closed", "idle"} =>
       local.size \in Index /\ local.data \in [1 .. local.size -> Word]
  /\ local.pc \in {"mark", "length", "words", "commit"} => local.next = 2 * Len(log) + 2
  /\ local.pc \in {"length", "words", "commit"} => revision = 2 * Len(log) + 1
  /\ local.pc \in {"words", "commit"} =>
       /\ length = local.size
       /\ \A i \in 1 .. local.stored : words[i] = local.data[i]
  /\ local.pc \in {"load", "mark", "length"} => local.stored = 0
  /\ local.pc = "words" => local.stored < local.size
  /\ local.pc = "commit" => local.stored = local.size

WriterInv == \A w \in Writer : WriterOK(w, writer[w])

\* At an even revision memory is the last commit, whatever came in between.
MemoryInv ==
  /\ RevisionCountsCommits
  /\ (~Odd(revision) /\ revision > 0) =>
       length \in Index /\ log[Len(log)] = [i \in 1 .. length |-> words[i]]

\* As long as the revision a reader started from is still there, what it has
\* copied so far is what memory holds.
ReaderOK(local) ==
  /\ local.pc \in {"length", "words", "recheck"} =>
       local.before > 0 /\ ~Odd(local.before) /\ local.before <= revision
  /\ local.pc \in {"words", "recheck"} =>
       /\ local.size \in Index
       /\ local.before = revision =>
            /\ local.size = length
            /\ \A i \in 1 .. local.loaded : local.scratch[i] = words[i]
  /\ local.pc \in {"revision", "length"} => local.loaded = 0
  /\ local.pc = "words" => local.loaded < local.size
  /\ local.pc = "recheck" => local.loaded = local.size

ReaderInv == \A r \in Reader : ReaderOK(reader[r])

SeqlockInv == TypeOK /\ WriterInv /\ MemoryInv /\ ReaderInv /\ NoTornSnapshot

\* SnapshotFitsCaller needs that a size, once checked, stays for the attempt.
FitInv ==
  /\ SnapshotFitsCaller
  /\ \A r \in Reader \ GoReader :
       reader[r].pc \in {"words", "recheck"} => reader[r].size <= Available[r]

\* A caller's revision never goes back and its payload changes only together
\* with it: a failed snapshot leaves the previous one intact.
ViewNeverRegresses ==
  [][\A r \in Reader :
       view'[r] # view[r] => view'[r].revision > view[r].revision]_view

\* The partition implements an atomic cell: a successful snapshot takes
\* effect in one step, on the newest commit of that moment.
Atomic == INSTANCE AtomicPartition WITH history <- log
ImplementsAtomicPartition == Atomic!ASpec

\* snapshot and readBoardSlot return whatever the writers do: after at most
\* three attempts, also over the odd revision a dead writer left.
SnapshotReturns == \A r \in Reader : []<>(reader[r].pc = "idle")

\* Once the writers stop at a committed revision, a consumer that keeps
\* polling with a large enough buffer gets that revision, and keeps it.
WritersPause == revision > 0 /\ ~Odd(revision)

ReadersCatchUp ==
  \A r \in Reader :
    Available[r] >= Capacity =>
      (<>[]WritersPause => <>[](view[r].revision = revision))
=============================================================================
