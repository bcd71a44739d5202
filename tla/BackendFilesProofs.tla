-------------------------- MODULE BackendFilesProofs --------------------------
(***************************************************************************)
(* For any programs, initializers and partitions, and for any relays on    *)
(* one path: a partition has one writer, whatever is open is a whole       *)
(* board, initializers clean up after themselves, and so do relays.        *)
(***************************************************************************)
EXTENDS BackendFiles, TLAPS

\* The record a Board is kept in.
LEMMA Records ==
  /\ Closed \in BoardState /\ Closed.pc = "closed"
  /\ \A b \in BoardState, place \in BoardPlace :
       /\ [b EXCEPT !.pc = place] \in BoardState
       /\ [b EXCEPT !.pc = place].pc = place /\ [b EXCEPT !.pc = place].file = b.file
       /\ [b EXCEPT !.pc = place].slot = b.slot
BY DEF Closed, BoardState, BoardPlace

\* A Board that goes on to another place keeps its file and its slot.
LEMMA BoardGoes ==
  ASSUME TypeOK, NEW p \in Program, NEW place \in BoardPlace, Goes(p, place)
  PROVE  /\ board' \in [Program -> BoardState]
         /\ board'[p].pc = place /\ board'[p].file = board[p].file
         /\ board'[p].slot = board[p].slot
         /\ \A q \in Program : q # p => board'[q] = board[q]
<1>1. board \in [Program -> BoardState] /\ board[p] \in BoardState
  BY DEF TypeOK
<1>2. board'[p] = [board[p] EXCEPT !.pc = place]
  BY <1>1 DEF Goes
<1>3. [board[p] EXCEPT !.pc = place] \in BoardState
  BY <1>1, Records
<1>4. board' = [board EXCEPT ![p] = [board[p] EXCEPT !.pc = place]]
  BY <1>1 DEF Goes
<1>5. /\ board' \in [Program -> BoardState]
      /\ \A q \in Program : q # p => board'[q] = board[q]
  BY <1>1, <1>3, <1>4
<1>6. QED
  BY <1>1, <1>2, <1>5, Records

LEMMA InitInv == Init => BoardFileInv
<1> SUFFICES ASSUME Init PROVE BoardFileInv
  OBVIOUS
<1>1. /\ board = [p \in Program |-> Closed] /\ Closed \in BoardState /\ Closed.pc = "closed"
      /\ init = [i \in Initializer |-> "idle"] /\ path = None /\ unlinked = {}
  BY Records DEF Init
<1>2. TypeOK
  <2>1. init \in [Initializer -> InitPlace] /\ board \in [Program -> BoardState]
    BY <1>1 DEF InitPlace
  <2>2. \A p \in Program : board[p].pc = "closed"
    BY <1>1
  <2>3. full \in [File -> BOOLEAN] /\ magic \in [File -> BOOLEAN]
    BY DEF Init
  <2>4. lock \in [File -> [Slot -> Program \cup {None}]]
    BY DEF Init
  <2> QED
    BY <1>1, <2>1, <2>2, <2>3, <2>4 DEF TypeOK
<1> QED
  BY <1>1, <1>2 DEF BoardFileInv, LocksAreHeld, FilesAreFull, MakersAreOnTheirWay, PathIsWhole,
                    UnderWay

\* A step of a Board that leaves the locks alone.
LEMMA Quiet ==
  ASSUME TypeOK, LocksAreHeld, FilesAreFull, NEW p \in Program, NEW place \in BoardPlace,
         Goes(p, place), UNCHANGED <<path, unlinked, full, magic, init, lock>>,
         board[p].pc # "closed",
         place = "lock" => full[board[p].file],
         place = "map" =>
           full[board[p].file] /\ (board[p].slot = ReadOnly \/ board[p].slot \notin Slot),
         place = "check" => board[p].pc = "map",
         place = "open" => board[p].pc = "check" /\ magic[board[p].file]
  PROVE  TypeOK' /\ LocksAreHeld' /\ FilesAreFull'
<1>1. /\ board' \in [Program -> BoardState]
      /\ board'[p].pc = place /\ board'[p].file = board[p].file
      /\ board'[p].slot = board[p].slot
      /\ \A q \in Program : q # p => board'[q] = board[q]
  BY BoardGoes
<1>2. TypeOK'
  BY <1>1 DEF TypeOK
<1>3. LocksAreHeld'
  BY <1>1, BoardFileAssumption DEF LocksAreHeld
<1>4. FilesAreFull'
  BY <1>1 DEF FilesAreFull
<1>5. QED
  BY <1>2, <1>3, <1>4

\* What the steps of a Board keep.
LEMMA BoardStepInv ==
  ASSUME BoardFileInv, NEW p \in Program, BoardStep(p)
  PROVE  BoardFileInv'
<1>0. TypeOK /\ LocksAreHeld /\ FilesAreFull /\ MakersAreOnTheirWay /\ PathIsWhole
  BY DEF BoardFileInv
<1>1. UNCHANGED <<path, unlinked, full, magic, init>>
  BY DEF BoardStep, Open, Stat, Lock, Map, Check, Unmap, CloseDescriptor, files
<1>2. MakersAreOnTheirWay' /\ PathIsWhole'
  BY <1>0, <1>1 DEF MakersAreOnTheirWay, PathIsWhole
<1>3. TypeOK' /\ LocksAreHeld' /\ FilesAreFull'
  <2>1. ASSUME NEW slot \in Slot \cup {ReadOnly}, Open(p, slot)
        PROVE  TypeOK' /\ LocksAreHeld' /\ FilesAreFull'
    <3> DEFINE b == [pc |-> "stat", file |-> path, slot |-> slot]
    <3>1. board' = [board EXCEPT ![p] = b] /\ path # None /\ UNCHANGED lock
      BY <2>1 DEF Open
    <3>2. b \in BoardState /\ b.pc = "stat" /\ b.file = path
      BY <1>0 DEF TypeOK, BoardState, BoardPlace
    <3> HIDE DEF b
    <3>3. /\ board' \in [Program -> BoardState] /\ board'[p] = b
          /\ \A q \in Program : q # p => board'[q] = board[q]
      BY <1>0, <3>1, <3>2 DEF TypeOK
    <3>4. TypeOK'
      BY <1>0, <1>1, <3>1, <3>2, <3>3 DEF TypeOK
    <3>5. LocksAreHeld' /\ FilesAreFull'
      BY <1>0, <1>1, <3>1, <3>2, <3>3 DEF LocksAreHeld, FilesAreFull
    <3>6. QED
      BY <3>4, <3>5
  <2>2. CASE Stat(p)
    <3>1. board[p].pc = "stat" /\ UNCHANGED lock
      BY <2>2 DEF Stat
    <3>2. \/ full[board[p].file] /\ board[p].slot = ReadOnly /\ Goes(p, "map")
          \/ full[board[p].file] /\ Goes(p, "lock")
          \/ Goes(p, "closing")
      BY <2>2 DEF Stat
    <3>3. QED
      BY <1>0, <1>1, <3>1, <3>2, Quiet DEF BoardPlace
  <2>3. CASE Lock(p)
    <3>1. CASE Goes(p, "closing") /\ UNCHANGED lock
      BY <1>0, <1>1, <2>3, <3>1, Quiet DEF BoardPlace, Lock
    <3>2. CASE /\ lock[board[p].file][board[p].slot] = None
               /\ lock' = [lock EXCEPT ![board[p].file][board[p].slot] = p]
               /\ Goes(p, "map")
      <4>1. /\ board' \in [Program -> BoardState]
            /\ board'[p].pc = "map" /\ board'[p].file = board[p].file
            /\ board'[p].slot = board[p].slot
            /\ \A q \in Program : q # p => board'[q] = board[q]
        BY <1>0, <3>2, BoardGoes DEF BoardPlace
      <4>2. board[p].pc = "lock" /\ board[p].file \in File
        BY <1>0, <2>3 DEF Lock, TypeOK
      <4>3. lock \in [File -> [Slot -> Program \cup {None}]]
        BY <1>0 DEF TypeOK
      <4>4. /\ lock' \in [File -> [Slot -> Program \cup {None}]]
            /\ \A f \in File, s \in Slot :
                 lock'[f][s] = IF f = board[p].file /\ s = board[p].slot THEN p ELSE lock[f][s]
        BY <3>2, <4>2, <4>3
      <4>5. TypeOK'
        BY <1>0, <1>1, <4>1, <4>2, <4>4 DEF TypeOK
      <4>6. ASSUME NEW q \in Program, board'[q].slot \in Slot,
                   board'[q].pc \in {"map", "check", "open"}
            PROVE  lock'[board'[q].file][board'[q].slot] = q
        <5>1. CASE q = p
          BY <4>1, <4>2, <4>4, <4>6, <5>1
        <5>2. CASE q # p
          <6>1. board'[q] = board[q] /\ lock[board[q].file][board[q].slot] = q
            BY <1>0, <4>1, <4>6, <5>2 DEF LocksAreHeld
          <6>2. board[q].file \in File /\ q # None
            BY <1>0, <4>6, <6>1, BoardFileAssumption DEF TypeOK
          <6>3. ~(board[q].file = board[p].file /\ board[q].slot = board[p].slot)
            BY <3>2, <6>1, <6>2
          <6>4. QED
            BY <4>4, <4>6, <6>1, <6>2, <6>3
        <5>3. QED
          BY <5>1, <5>2
      <4>7. LocksAreHeld'
        BY <4>6 DEF LocksAreHeld
      <4>8. FilesAreFull'
        BY <1>0, <1>1, <4>1, <4>2 DEF FilesAreFull
      <4>9. QED
        BY <4>5, <4>7, <4>8
    <3>3. QED
      BY <2>3, <3>1, <3>2 DEF Lock
  <2>4. CASE Map(p) \/ Check(p) \/ Unmap(p)
    <3>1. board[p].pc # "closed" /\ UNCHANGED lock
      BY <2>4 DEF Map, Check, Unmap
    <3>2. \/ Goes(p, "closing")
          \/ Goes(p, "check") /\ board[p].pc = "map"
          \/ Goes(p, "open") /\ board[p].pc = "check" /\ magic[board[p].file]
      BY <2>4 DEF Map, Check, Unmap
    <3>3. QED
      BY <1>0, <1>1, <3>1, <3>2, Quiet DEF BoardPlace
  <2>5. CASE CloseDescriptor(p)
    <3>1. board' = [board EXCEPT ![p] = Closed]
      BY <2>5 DEF CloseDescriptor
    <3>2. /\ board' \in [Program -> BoardState] /\ board'[p].pc = "closed"
          /\ \A q \in Program : q # p => board'[q] = board[q]
      BY <1>0, <3>1, Records DEF TypeOK
    <3>3. /\ lock' \in [File -> [Slot -> Program \cup {None}]]
          /\ \A f \in File, s \in Slot : lock[f][s] # p => lock'[f][s] = lock[f][s]
      BY <1>0, <2>5 DEF CloseDescriptor, TypeOK
    <3>4. TypeOK'
      BY <1>0, <1>1, <3>2, <3>3 DEF TypeOK
    <3>5. LocksAreHeld'
      BY <1>0, <1>1, <3>2, <3>3 DEF LocksAreHeld, TypeOK
    <3>6. FilesAreFull'
      BY <1>0, <1>1, <3>2 DEF FilesAreFull
    <3>7. QED
      BY <3>4, <3>5, <3>6
  <2>6. QED
    BY <2>1, <2>2, <2>3, <2>4, <2>5 DEF BoardStep
<1>4. QED
  BY <1>2, <1>3 DEF BoardFileInv

\* An initializer that goes on leaves the others alone.
LEMMA InitializerGoes ==
  ASSUME TypeOK, NEW i \in Initializer, NEW place \in InitPlace, Goto(i, place)
  PROVE  /\ init' \in [Initializer -> InitPlace] /\ init'[i] = place
         /\ \A j \in Initializer : j # i => init'[j] = init[j]
BY DEF TypeOK, Goto

\* What a step of an initializer may do to files: its own grows, and goes by its
\* place; the path changes only between none and its own.
LEMMA MakerKeeps ==
  ASSUME BoardFileInv, NEW i \in Initializer, NEW place \in InitPlace, Goto(i, place),
         init[i] \in UnderWay \cup {"idle"}, place # "idle",
         full' = full \/ full' = [full EXCEPT ![i] = TRUE],
         magic' = magic \/ magic' = [magic EXCEPT ![i] = TRUE],
         UNCHANGED <<unlinked, lock, board>>,
         place \in {"header", "close", "made"} => full'[i],
         place \in {"close", "made"} => magic'[i],
         \/ init[i] = "idle" /\ path = None /\ path' = i /\ place = "truncate"
         \/ init[i] = "idle" /\ path' = path /\ place = "refused"
         \/ init[i] \in UnderWay /\ path' = None /\ place = "removed"
         \/ /\ init[i] \in UnderWay /\ path' = path
            /\ place \in UnderWay \cup {"made", "unremoved", "killed"}
  PROVE  BoardFileInv'
<1> USE BoardFileAssumption DEF File
<1>0. TypeOK /\ LocksAreHeld /\ FilesAreFull /\ MakersAreOnTheirWay /\ PathIsWhole
  BY DEF BoardFileInv
<1>1. /\ init' \in [Initializer -> InitPlace] /\ init'[i] = place
      /\ \A j \in Initializer : j # i => init'[j] = init[j]
  BY <1>0, InitializerGoes
<1>2. /\ full' \in [File -> BOOLEAN] /\ magic' \in [File -> BOOLEAN]
      /\ \A f \in File : (full[f] => full'[f]) /\ (magic[f] => magic'[f])
  BY <1>0 DEF TypeOK
<1>3. TypeOK'
  BY <1>0, <1>1, <1>2 DEF TypeOK
<1>4. LocksAreHeld' /\ FilesAreFull'
  BY <1>0, <1>2 DEF LocksAreHeld, FilesAreFull, TypeOK
<1>5. i \notin unlinked
  BY <1>0 DEF MakersAreOnTheirWay
<1>6. MakersAreOnTheirWay'
  BY <1>0, <1>1, <1>2, <1>5 DEF MakersAreOnTheirWay, TypeOK
<1>7. PathIsWhole'
  <2>1. init[i] \in UnderWay => path = i
    BY <1>0, <1>5 DEF PathIsWhole
  <2>2. ASSUME NEW j \in Initializer \ unlinked, init'[j] \in UnderWay \cup {"made"}
        PROVE  path' = j
    <3>1. CASE j = i
      BY <1>1, <2>1, <2>2, <3>1 DEF UnderWay
    <3>2. CASE j # i
      <4>1. path = j
        BY <1>0, <1>1, <2>2, <3>2 DEF PathIsWhole
      <4> QED
        BY <2>1, <3>2, <4>1
    <3> QED
      BY <3>1, <3>2
  <2>3. ASSUME path' # None
        PROVE  /\ init'[path'] \in UnderWay \cup {"made", "unremoved", "killed"}
               /\ init'[path'] = "made" => full'[path'] /\ magic'[path']
    <3>1. CASE path' = i
      <4>1. place \in UnderWay \cup {"made", "unremoved", "killed"}
        BY <1>0, <2>3, <3>1 DEF PathIsWhole, UnderWay
      <4> QED
        BY <1>1, <3>1, <4>1
    <3>2. CASE path' # i
      <4>1. path' = path /\ path \in File
        BY <1>0, <2>3, <3>2 DEF TypeOK
      <4> QED
        BY <1>0, <1>1, <1>2, <2>3, <3>2, <4>1 DEF PathIsWhole
    <3> QED
      BY <3>1, <3>2
  <2> QED
    BY <2>2, <2>3 DEF PathIsWhole
<1> QED
  BY <1>3, <1>4, <1>6, <1>7 DEF BoardFileInv

\* The initializers and the unlinking, which no Board and no lock notices.
LEMMA FileStepInv ==
  ASSUME BoardFileInv,
         Unlink \/ \E i \in Initializer : Initialize(i) \/ KillInitializer(i)
  PROVE  BoardFileInv'
<1> USE BoardFileAssumption DEF File
<1>0. TypeOK /\ LocksAreHeld /\ FilesAreFull /\ MakersAreOnTheirWay /\ PathIsWhole
  BY DEF BoardFileInv
<1>1. CASE Unlink
  <2>1. /\ path \in Initializer /\ path' = None /\ unlinked' = unlinked \cup {path}
        /\ UNCHANGED <<full, magic, lock, init, board>>
        /\ \A i \in Initializer : init[i] \notin UnderWay
    BY <1>0, <1>1 DEF Unlink, TypeOK
  <2>2. TypeOK'
    BY <1>0, <2>1 DEF TypeOK
  <2>3. LocksAreHeld' /\ FilesAreFull'
    BY <1>0, <2>1 DEF LocksAreHeld, FilesAreFull
  <2>4. MakersAreOnTheirWay'
    <3>1. init[path] # "idle"
      BY <1>0, <2>1 DEF PathIsWhole, UnderWay
    <3> QED
      BY <1>0, <2>1, <3>1 DEF MakersAreOnTheirWay
  <2>5. PathIsWhole'
    BY <1>0, <2>1 DEF PathIsWhole
  <2> QED
    BY <2>2, <2>3, <2>4, <2>5 DEF BoardFileInv
<1>2. ASSUME NEW i \in Initializer, Initialize(i) \/ KillInitializer(i)
      PROVE  BoardFileInv'
  <2> USE DEF InitPlace, UnderWay
  <2>1. CASE Create(i)
    <3>1. init[i] = "idle" /\ UNCHANGED <<unlinked, full, magic, lock, board>>
      BY <2>1 DEF Create
    <3>2. \/ path = None /\ path' = i /\ Goto(i, "truncate")
          \/ Goto(i, "refused") /\ path' = path
      BY <2>1 DEF Create
    <3> QED
      BY <3>1, <3>2, MakerKeeps
  <2>2. CASE Truncate(i)
    <3>1. init[i] = "truncate" /\ UNCHANGED <<path, unlinked, magic, lock, board>>
      BY <2>2 DEF Truncate
    <3>2. \/ full' = [full EXCEPT ![i] = TRUE] /\ Goto(i, "header")
          \/ Goto(i, "remove") /\ full' = full
      BY <2>2 DEF Truncate
    <3>3. full' = [full EXCEPT ![i] = TRUE] => full'[i]
      BY <1>0 DEF TypeOK
    <3> QED
      BY <3>1, <3>2, <3>3, MakerKeeps
  <2>3. CASE WriteHeader(i)
    <3>1. init[i] = "header" /\ UNCHANGED <<path, unlinked, full, lock, board>>
      BY <2>3 DEF WriteHeader
    <3>2. \/ magic' = [magic EXCEPT ![i] = TRUE] /\ Goto(i, "close")
          \/ Goto(i, "remove") /\ magic' = magic
      BY <2>3 DEF WriteHeader
    <3>3. full[i] /\ (magic' = [magic EXCEPT ![i] = TRUE] => magic'[i])
      BY <1>0, <3>1 DEF TypeOK, MakersAreOnTheirWay
    <3> QED
      BY <3>1, <3>2, <3>3, MakerKeeps
  <2>4. CASE CloseNew(i)
    <3>1. init[i] = "close" /\ UNCHANGED <<path, unlinked, full, magic, lock, board>>
      BY <2>4 DEF CloseNew, files
    <3>2. full[i] /\ magic[i]
      BY <1>0, <3>1 DEF MakersAreOnTheirWay
    <3>3. Goto(i, "made") \/ Goto(i, "remove")
      BY <2>4 DEF CloseNew
    <3> QED
      BY <3>1, <3>2, <3>3, MakerKeeps
  <2>5. CASE RemoveFailed(i)
    <3>1. init[i] = "remove" /\ UNCHANGED <<unlinked, full, magic, lock, board>>
      BY <2>5 DEF RemoveFailed
    <3>2. \/ path' = None /\ Goto(i, "removed")
          \/ Goto(i, "unremoved") /\ path' = path
      BY <2>5 DEF RemoveFailed
    <3> QED
      BY <3>1, <3>2, MakerKeeps
  <2>6. CASE KillInitializer(i)
    <3>1. /\ init[i] \in UnderWay /\ Goto(i, "killed")
          /\ UNCHANGED <<path, unlinked, full, magic, lock, board>>
      BY <2>6 DEF KillInitializer, files
    <3> QED
      BY <3>1, MakerKeeps
  <2> QED
    BY <1>2, <2>1, <2>2, <2>3, <2>4, <2>5, <2>6 DEF Initialize
<1> QED
  BY <1>1, <1>2

\* The invariant of the whole life of a board's file: locks, sizes and headers
\* agree with where every Board and every initializer is.
THEOREM BoardFileInductive == Spec => []BoardFileInv
<1>1. ASSUME BoardFileInv, [Next]_vars PROVE BoardFileInv'
  <2>1. CASE UNCHANGED vars
    BY <1>1, <2>1 DEF vars, files, BoardFileInv, TypeOK, LocksAreHeld, FilesAreFull,
                      MakersAreOnTheirWay, PathIsWhole
  <2>2. CASE Next
    BY <1>1, <2>2, BoardStepInv, FileStepInv DEF Next
  <2>3. QED
    BY <1>1, <2>1, <2>2
<1>2. QED
  BY InitInv, <1>1, PTL DEF Spec

\* Board::open's "writer ownership lock": no two programs ever have one
\* partition of one file mapped for writing.
THEOREM SingleWriter == Spec => []OneWriter
<1>1. BoardFileInv => OneWriter
  BY DEF BoardFileInv, LocksAreHeld, OneWriter, Writes, Mapped
<1>2. QED
  BY <1>1, BoardFileInductive, PTL

\* A Board touches no page the file lacks and opens no file without a header,
\* however its steps fall between those of initializeBoard.
THEOREM OpensWholeBoards == Spec => []OpenIsReady
<1>1. BoardFileInv => OpenIsReady
  BY DEF BoardFileInv, FilesAreFull, OpenIsReady, Mapped
<1>2. QED
  BY <1>1, BoardFileInductive, PTL

\* initializeBoard undoes its own work alone: a board that was made stays at the
\* path, whole, until simkit removes its directory.
THEOREM PathStaysWhole == Spec => []PathIsWhole
<1>1. BoardFileInv => PathIsWhole
  BY DEF BoardFileInv
<1>2. QED
  BY <1>1, BoardFileInductive, PTL
-----------------------------------------------------------------------------
(***************************************************************************)
(* The relay's socket.                                                     *)
(***************************************************************************)

\* Each step of a relay keeps the invariant; only Start lets another one in.
LEMMA RelayKeeps ==
  ASSUME SocketInv, SNext
  PROVE  SocketInv'
<1> USE SocketAssumption
    DEF SocketInv, SocketTypeOK, PathLeadsToTheRelay, LeftAlone, Alive, Over, Turn
<1>1. PICK r \in Run :
        \/ Start(r) \/ RemoveOld(r) \/ Bind(r) \/ Chmod(r)
        \/ Leave(r) \/ RemoveSocket(r) \/ CloseSocket(r) \/ Kill(r)
  BY DEF SNext
<1>2. CASE Start(r)
  BY <1>2 DEF Start
<1>3. CASE RemoveOld(r)
  BY <1>3 DEF RemoveOld
<1>4. CASE Bind(r)
  BY <1>4 DEF Bind
<1>5. CASE Chmod(r)
  BY <1>5 DEF Chmod
<1>6. CASE Leave(r) \/ CloseSocket(r) \/ Kill(r)
  BY <1>6 DEF Leave, CloseSocket, Kill
<1>7. CASE RemoveSocket(r)
  BY <1>7 DEF RemoveSocket
<1> QED
  BY <1>1, <1>2, <1>3, <1>4, <1>5, <1>6, <1>7

\* What is known of the relays on one path holds for any number of them.
THEOREM SocketInductive == SSpec => []SocketInv
<1>1. SInit => SocketInv
  BY DEF SInit, SocketInv, SocketTypeOK, PathLeadsToTheRelay, LeftAlone
<1>2. SocketInv /\ UNCHANGED svars => SocketInv'
  BY DEF svars, SocketInv, SocketTypeOK, PathLeadsToTheRelay, LeftAlone, Alive
<1> QED
  BY <1>1, <1>2, RelayKeeps, PTL DEF SSpec

\* A relay that ends leaves no socket behind, and one that is alone serves at
\* the path.
THEOREM SocketIsTheRelays == SSpec => []PathLeadsToTheRelay
  BY SocketInductive, PTL DEF SocketInv
=============================================================================
