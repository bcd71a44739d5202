------------------------------ MODULE BoardFile ------------------------------
(***************************************************************************)
(* The life of a board's file: the Go program that creates and initialises *)
(* it (initializeBoard), the C++ Board objects that open it for one slot   *)
(* or for reading only, and the removal of its directory at the end of a   *)
(* run.  Each system call is a step, so that the programs interleave       *)
(* between them, and any program may die between two of them.  What goes   *)
(* through an open board is SeqlockPartition's matter.                     *)
(***************************************************************************)
CONSTANTS
  Initializer,  \* runs of -init-board on the path; a file is named by its maker
  Program,      \* programs with one Board object each
  Slot,         \* the partitions
  ReadOnly,     \* writer_slot == slots: a Board that is opened for reading
  None          \* no file, no slot, no lock

ASSUME BoardFileAssumption ==
  /\ ReadOnly \notin Slot /\ None \notin Slot \cup {ReadOnly}
  /\ None \notin Program /\ None \notin Initializer

File == Initializer

VARIABLES
  path,      \* the file the path leads to
  unlinked,  \* history: the files whose directory simkit has removed
  full,      \* per file: it has the size of a board
  magic,     \* per file: its header is written
  lock,      \* per file and slot: the Board that holds the OFD write lock
  init,      \* per initializer: where it is, or how it has ended
  board      \* per program: where its Board is, its file and its slot

files == <<path, unlinked, full, magic>>
vars == <<files, lock, init, board>>

UnderWay == {"truncate", "header", "close", "remove"}
InitPlace ==
  {"idle"} \cup UnderWay \cup {"refused", "made", "removed", "unremoved", "killed"}
BoardPlace == {"closed", "stat", "lock", "map", "check", "open", "closing"}
BoardState ==
  [pc : BoardPlace, file : File \cup {None}, slot : Slot \cup {ReadOnly, None}]

Closed == [pc |-> "closed", file |-> None, slot |-> None]

Init ==
  /\ path = None /\ unlinked = {}
  /\ full = [f \in File |-> FALSE] /\ magic = [f \in File |-> FALSE]
  /\ lock = [f \in File |-> [s \in Slot |-> None]]
  /\ init = [i \in Initializer |-> "idle"]
  /\ board = [p \in Program |-> Closed]
-----------------------------------------------------------------------------
(***************************************************************************)
(* initializeBoard.                                                        *)
(***************************************************************************)

Goto(i, place) == init' = [init EXCEPT ![i] = place]

\* Mutant: whatever is at the path is removed first, as the relay does with
\* its socket.
CreateAfresh(i) ==
  /\ init[i] = "idle"
  /\ path' = i /\ Goto(i, "truncate")
  /\ UNCHANGED <<unlinked, full, magic, lock, board>>

\* O_CREATE|O_EXCL: fails, and leaves everything alone, when the path exists;
\* it may fail otherwise, too.
Create(i) ==
  /\ init[i] = "idle"
  /\ \/ path = None /\ path' = i /\ Goto(i, "truncate")
     \/ Goto(i, "refused") /\ UNCHANGED path
  /\ UNCHANGED <<unlinked, full, magic, lock, board>>

Truncate(i) ==
  /\ init[i] = "truncate"
  /\ \/ full' = [full EXCEPT ![i] = TRUE] /\ Goto(i, "header")
     \/ Goto(i, "remove") /\ UNCHANGED full
  /\ UNCHANGED <<path, unlinked, magic, lock, board>>

WriteHeader(i) ==
  /\ init[i] = "header"
  /\ \/ magic' = [magic EXCEPT ![i] = TRUE] /\ Goto(i, "close")
     \/ Goto(i, "remove") /\ UNCHANGED magic
  /\ UNCHANGED <<path, unlinked, full, lock, board>>

\* The deferred Close, whose error counts as well.
CloseNew(i) ==
  /\ init[i] = "close"
  /\ Goto(i, "made") \/ Goto(i, "remove")
  /\ UNCHANGED <<files, lock, board>>

\* After a failure the path is removed, whichever file it leads to; nobody
\* looks at the result.
RemoveFailed(i) ==
  /\ init[i] = "remove"
  /\ \/ path' = None /\ Goto(i, "removed")
     \/ Goto(i, "unremoved") /\ UNCHANGED path
  /\ UNCHANGED <<unlinked, full, magic, lock, board>>

KillInitializer(i) ==
  /\ init[i] \in UnderWay
  /\ Goto(i, "killed")
  /\ UNCHANGED <<files, lock, board>>

Initialize(i) ==
  Create(i) \/ Truncate(i) \/ WriteHeader(i) \/ CloseNew(i) \/ RemoveFailed(i)

\* simkit, which waits for its initializer, removes the run's directory when
\* the run is over.
Unlink ==
  /\ path # None /\ \A i \in Initializer : init[i] \notin UnderWay
  /\ path' = None
  /\ unlinked' = unlinked \cup {path}
  /\ UNCHANGED <<full, magic, lock, init, board>>
-----------------------------------------------------------------------------
(***************************************************************************)
(* Board::open and Board::close, and openReadBoard, which takes the steps  *)
(* of a Board that is opened for reading only.                             *)
(***************************************************************************)

Goes(p, place) == board' = [board EXCEPT ![p].pc = place]

\* Board::open, once the descriptor is there; the path is not looked at again.
Open(p, slot) ==
  /\ board[p].pc = "closed" /\ path # None
  /\ board' = [board EXCEPT ![p] = [pc |-> "stat", file |-> path, slot |-> slot]]
  /\ UNCHANGED <<files, lock, init>>

\* Mutant: the size is not looked at.
StatOfAnySize(p) ==
  /\ board[p].pc = "stat"
  /\ Goes(p, IF board[p].slot = ReadOnly THEN "map" ELSE "lock")
  /\ UNCHANGED <<files, lock, init>>

\* fstat: a file of another size is refused.
Stat(p) ==
  /\ board[p].pc = "stat"
  /\ \/ full[board[p].file] /\ Goes(p, IF board[p].slot = ReadOnly THEN "map" ELSE "lock")
     \/ ~full[board[p].file] /\ Goes(p, "closing")
  /\ UNCHANGED <<files, lock, init>>

\* Mutant: a read lock, which many may hold.
LockShared(p) ==
  /\ board[p].pc = "lock"
  /\ Goes(p, "map")
  /\ UNCHANGED <<files, lock, init>>

\* F_OFD_SETLK on the slot's bytes: taken or refused at once.
Lock(p) ==
  LET file == board[p].file
      slot == board[p].slot
  IN
  /\ board[p].pc = "lock"
  /\ \/ /\ lock[file][slot] = None
        /\ lock' = [lock EXCEPT ![file][slot] = p]
        /\ Goes(p, "map")
     \/ /\ lock[file][slot] # None
        /\ Goes(p, "closing") /\ UNCHANGED lock
  /\ UNCHANGED <<files, init>>

\* mmap may fail.
Map(p) ==
  /\ board[p].pc = "map"
  /\ Goes(p, "check") \/ Goes(p, "closing")
  /\ UNCHANGED <<files, lock, init>>

Check(p) ==
  /\ board[p].pc = "check"
  /\ \/ magic[board[p].file] /\ Goes(p, "open")
     \/ ~magic[board[p].file] /\ Goes(p, "closing")
  /\ UNCHANGED <<files, lock, init>>

\* close() starts with the munmap; so does the end of a process, wherever its
\* Board is.
Unmap(p) ==
  /\ board[p].pc \notin {"closed", "closing"}
  /\ Goes(p, "closing")
  /\ UNCHANGED <<files, lock, init>>

\* ... and then closes the descriptor, with which its lock goes.
CloseDescriptor(p) ==
  /\ board[p].pc = "closing"
  /\ board' = [board EXCEPT ![p] = Closed]
  /\ lock' = [f \in File |-> [s \in Slot |-> IF lock[f][s] = p THEN None ELSE lock[f][s]]]
  /\ UNCHANGED <<files, init>>

BoardStep(p) ==
  \/ \E slot \in Slot \cup {ReadOnly} : Open(p, slot)
  \/ Stat(p) \/ Lock(p) \/ Map(p) \/ Check(p)
  \/ Unmap(p) \/ CloseDescriptor(p)

Next ==
  \/ \E i \in Initializer : Initialize(i) \/ KillInitializer(i)
  \/ Unlink
  \/ \E p \in Program : BoardStep(p)

Spec == Init /\ [][Next]_vars
-----------------------------------------------------------------------------
(***************************************************************************)
(* Properties.                                                             *)
(***************************************************************************)

TypeOK ==
  /\ path \in File \cup {None} /\ unlinked \subseteq File
  /\ full \in [File -> BOOLEAN] /\ magic \in [File -> BOOLEAN]
  /\ lock \in [File -> [Slot -> Program \cup {None}]]
  /\ init \in [Initializer -> InitPlace] /\ board \in [Program -> BoardState]
  /\ \A p \in Program : board[p].pc # "closed" => board[p].file \in File

\* The comment above the lock promises one writer per slot: no two programs
\* have a partition of one file mapped for writing, through all openings,
\* failures, closings, deaths and replacements of the file under the path.
Mapped(p) == board[p].pc \in {"check", "open"}
Writes(p) == Mapped(p) /\ board[p].slot \in Slot

OneWriter ==
  \A p, q \in Program :
    /\ Writes(p) /\ Writes(q)
    /\ board[p].file = board[q].file /\ board[p].slot = board[q].slot
    => p = q

\* Whoever has mapped a file may touch all of it, and whoever has it open found
\* it initialised, although the three steps of the initialisation interleave
\* with those of the opening.
OpenIsReady ==
  \A p \in Program :
    /\ Mapped(p) => full[board[p].file]
    /\ board[p].pc = "open" => magic[board[p].file]

\* initializeBoard undoes its own work and nobody else's, whatever other runs
\* of it do, fail or die: the file of a run that is under way, which it may
\* yet remove, is the one at the path, and a board that a run has reported as
\* made stays there, whole, until simkit removes its directory.  Less than a
\* board is left only by a run that was killed or whose os.Remove failed.
PathIsWhole ==
  /\ \A i \in Initializer \ unlinked : init[i] \in UnderWay \cup {"made"} => path = i
  /\ path # None =>
       /\ init[path] \in UnderWay \cup {"made", "unremoved", "killed"}
       /\ init[path] = "made" => full[path] /\ magic[path]

\* What makes them inductive: a Board that is past the lock holds it, one past
\* fstat has a whole file, one past the check an initialised one; ...
LocksAreHeld ==
  \A p \in Program :
    board[p].slot \in Slot /\ board[p].pc \in {"map", "check", "open"}
      => lock[board[p].file][board[p].slot] = p

FilesAreFull ==
  \A p \in Program :
    /\ board[p].pc \in {"lock", "map", "check", "open"} => full[board[p].file]
    /\ board[p].pc = "open" => magic[board[p].file]

\* ... an initializer has done with its file what lies behind it.
MakersAreOnTheirWay ==
  /\ \A i \in Initializer :
       /\ init[i] \in {"header", "close", "made"} => full[i]
       /\ init[i] \in {"close", "made"} => magic[i]
  /\ \A i \in unlinked : init[i] \notin UnderWay \cup {"idle"}

BoardFileInv == TypeOK /\ LocksAreHeld /\ FilesAreFull /\ MakersAreOnTheirWay /\ PathIsWhole
=============================================================================
