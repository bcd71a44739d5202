----------------------------- MODULE SimkitProofs -----------------------------
(***************************************************************************)
(* What simkit promises, for any workload, any adapter and any ambient     *)
(* environment: SupervisorInv is inductive and implies the invariants of   *)
(* a run.  For any models, joints and runs of prepare-robot: what it       *)
(* leaves in the output directory.  And for any archive: what its report   *)
(* counts, and how its verdict compares with the relay's.                  *)
(***************************************************************************)
EXTENDS Simkit, DataFacts, SequenceTheorems, TLAPS

\* The invariant holds when simkit starts.
LEMMA InitHolds == Init => SupervisorInv
  BY SupervisorAssumption
  DEF Init, SupervisorInv, SupervisorTypeOK, Possessions, Workload, Result, Grace,
      Before, During, After, Gone, Over, Alive, NoResult, BySignal

\* cli, runWithBoard and the beginning of supervise keep it.
LEMMA BeginningKeeps ==
  ASSUME SupervisorInv,
         \/ \E ok \in BOOLEAN : Cli(ok) \/ MakeDirectory(ok) \/ InitBoard(ok)
         \/ Remove \/ Listen
  PROVE  SupervisorInv'
<1> USE SupervisorAssumption
    DEF SupervisorInv, Before, During, After, Gone, Over, Alive, ambient, group, inbox, tty
<1>1. ASSUME NEW ok \in BOOLEAN, Cli(ok) PROVE SupervisorInv'
  BY <1>1 DEF Cli, SupervisorTypeOK, Possessions, Workload, Result, Grace
<1>2. ASSUME NEW ok \in BOOLEAN, MakeDirectory(ok) PROVE SupervisorInv'
  BY <1>2 DEF MakeDirectory, SupervisorTypeOK, Possessions, Workload, Result, Grace
<1>3. ASSUME NEW ok \in BOOLEAN, InitBoard(ok) PROVE SupervisorInv'
  BY <1>3 DEF InitBoard, SupervisorTypeOK, Possessions, Workload, Result, Grace
<1>4. CASE Remove
  BY <1>4 DEF Remove, SupervisorTypeOK, Possessions, Workload, Result, Grace
<1>5. CASE Listen
  BY <1>5 DEF Listen, SupervisorTypeOK, Possessions, Workload, Result, Grace
<1> QED  BY <1>1, <1>2, <1>3, <1>4, <1>5

\* supervise keeps it, from Start to the last deferred call.
LEMMA SuperviseKeeps ==
  ASSUME SupervisorInv,
         \/ Start \/ Wait \/ TakeDone \/ Forward \/ Insist
         \/ KillGroup \/ RestoreTerminal \/ Unsubscribe
  PROVE  SupervisorInv'
<1> USE SupervisorAssumption
    DEF SupervisorInv, Before, During, After, Gone, Over, Alive, ambient, group, inbox, tty
<1>1. CASE Start
  BY <1>1 DEF Start, SupervisorTypeOK, Possessions, Workload, Result, Grace
<1>2. CASE Wait
  BY <1>2 DEF Wait, SupervisorTypeOK, Possessions, Workload, Result, Grace
<1>3. CASE TakeDone
  <2>1. done = fate /\ process[leader] = "exited" /\ doomed \subseteq Process
    BY <1>3 DEF TakeDone, SupervisorTypeOK, Workload
  <2>2. SupervisorTypeOK' /\ Possessions' /\ Result' /\ Grace'
    BY <1>3, <2>1 DEF TakeDone, SupervisorTypeOK, Possessions, Workload, Result, Grace
  <2>3. Workload'
    BY <1>3, <2>1 DEF TakeDone, SupervisorTypeOK, Workload
  <2> QED  BY <2>2, <2>3
<1>4. CASE Forward
  BY <1>4 DEF Forward, SupervisorTypeOK, Possessions, Workload, Result, Grace
<1>5. CASE Insist
  BY <1>5 DEF Insist, SupervisorTypeOK, Possessions, Workload, Result, Grace
<1>6. CASE KillGroup
  BY <1>6 DEF KillGroup, SupervisorTypeOK, Possessions, Workload, Result, Grace
<1>7. CASE RestoreTerminal
  BY <1>7 DEF RestoreTerminal, SupervisorTypeOK, Possessions, Workload, Result, Grace
<1>8. CASE Unsubscribe
  BY <1>8 DEF Unsubscribe, SupervisorTypeOK, Possessions, Workload, Result, Grace
<1> QED  BY <1>1, <1>2, <1>3, <1>4, <1>5, <1>6, <1>7, <1>8

\* Signals, the timer and the workload's own processes keep it.
LEMMA WorldKeeps ==
  ASSUME SupervisorInv,
         \/ FireTimer \/ Signal \/ Hangup \/ Kill
         \/ \E p, child \in Process : Fork(p, child)
         \/ \E p \in Process : Exit(p) \/ Die(p)
         \/ Suspend \/ Resume
  PROVE  SupervisorInv'
<1> USE SupervisorAssumption
    DEF SupervisorInv, Before, During, After, Gone, Over, Alive, ambient, group, inbox, tty
<1>1. CASE FireTimer
  BY <1>1 DEF FireTimer, SupervisorTypeOK, Possessions, Workload, Result, Grace
<1>2. CASE Signal
  BY <1>2 DEF Signal, SupervisorTypeOK, Possessions, Workload, Result, Grace
<1>3. CASE Hangup \/ Kill
  BY <1>3 DEF Hangup, Kill, SupervisorTypeOK, Possessions, Workload, Result, Grace
<1>4. ASSUME NEW p \in Process, NEW child \in Process, Fork(p, child) PROVE SupervisorInv'
  BY <1>4 DEF Fork, SupervisorTypeOK, Possessions, Workload, Result, Grace
<1>5. ASSUME NEW p \in Process, NEW result \in ExitCode \cup {BySignal},
             p \in Alive, End(p, result)
      PROVE  SupervisorInv'
  <2>1. result # NoResult
    BY DEF BySignal, NoResult
  <2> QED  BY <1>5, <2>1 DEF End, SupervisorTypeOK, Possessions, Workload, Result, Grace
<1>6. CASE Suspend \/ Resume
  BY <1>6 DEF Suspend, Resume, SupervisorTypeOK, Possessions, Workload, Result, Grace
<1> QED  BY <1>1, <1>2, <1>3, <1>4, <1>5, <1>6 DEF Exit, Die

LEMMA StutterKeeps == ASSUME SupervisorInv, UNCHANGED vars PROVE SupervisorInv'
  BY DEF SupervisorInv, SupervisorTypeOK, Possessions, Workload, Result, Grace, Alive,
         vars, ambient, group, inbox, tty

LEMMA NextKeeps == SupervisorInv /\ [Next]_vars => SupervisorInv'
  BY BeginningKeeps, SuperviseKeeps, WorldKeeps, StutterKeeps DEF Next, SimkitStep

\* What is known at each place of simkit is known in every run of it.
THEOREM SupervisorInductive == Spec => []SupervisorInv
  BY InitHolds, NextKeeps, PTL DEF Spec

\* The workload has its board for as long as simkit has not killed it: the
\* directory goes after the SIGKILL to the whole group, on every path.
THEOREM BoardIsThere == Spec => []BoardOutlivesWorkload
<1>1. SupervisorInv => BoardOutlivesWorkload
  BY DEF SupervisorInv, Possessions, Workload, BoardOutlivesWorkload, After, Gone
<1> QED  BY <1>1, SupervisorInductive, PTL

\* simkit never stops itself at the terminal, and leaves no directory, no
\* terminal and no process behind when it exits.
THEOREM CleanExit == Spec => []ExitIsClean
<1>1. SupervisorInv => ExitIsClean
  BY DEF SupervisorInv, SupervisorTypeOK, Possessions, Workload, ExitIsClean, Before, During,
         After, Gone, Over
<1> QED  BY <1>1, SupervisorInductive, PTL

\* simkit exits with what its workload's leader ended with.
THEOREM StatusPassesThrough == Spec => []StatusIsTheLeaders
<1>1. SupervisorInv => StatusIsTheLeaders
  BY DEF SupervisorInv, Result, StatusIsTheLeaders, After, Gone
<1> QED  BY <1>1, SupervisorInductive, PTL

\* No SIGKILL for a leader that was not asked first.
THEOREM KillIsLast == Spec => []GraceBeforeKill
<1>1. SupervisorInv => GraceBeforeKill
  BY DEF SupervisorInv, Grace, GraceBeforeKill, Before
<1> QED  BY <1>1, SupervisorInductive, PTL

\* Ambient environments that agree on what no profile manages give the same
\* environment, with the board and all of the selected profile.
LEMMA EnvironmentOfBases ==
  ASSUME NEW a, Loads(a), NEW profile \in DOMAIN a.profiles, NEW board,
         NEW base, NEW other,
         {<<key, other[key]>> : key \in DOMAIN other \ Managed(a)} =
           {<<key, base[key]>> : key \in DOMAIN base \ Managed(a)}
  PROVE  /\ Environment(a, other, profile, board) = Environment(a, base, profile, board)
         /\ Environment(a, base, profile, board)[a.boardEnv] = board
         /\ \A key \in DOMAIN a.profiles[profile] :
              Environment(a, base, profile, board)[key] = a.profiles[profile][key]
<1> DEFINE selected == a.profiles[profile]
           kept(b) == DOMAIN b \ Managed(a)
           names(b) == kept(b) \cup {a.boardEnv} \cup DOMAIN selected
           value(b, key) == CASE key \in DOMAIN selected -> selected[key]
                              [] key = a.boardEnv /\ key \notin DOMAIN selected -> board
                              [] OTHER -> b[key]
<1>1. \A b : Environment(a, b, profile, board) = [key \in names(b) |-> value(b, key)]
  BY DEF Environment
<1>2. a.boardEnv \notin DOMAIN selected
  BY DEF Loads
<1>3. kept(other) = kept(base) /\ \A key \in kept(base) : other[key] = base[key]
  <2>1. \A key \in kept(base) : <<key, base[key]>> \in {<<k, other[k]>> : k \in kept(other)}
    OBVIOUS
  <2>2. \A key \in kept(other) : <<key, other[key]>> \in {<<k, base[k]>> : k \in kept(base)}
    OBVIOUS
  <2>3. \A key \in kept(base) : key \in kept(other) /\ other[key] = base[key]
    BY <2>1
  <2>4. \A key \in kept(other) : key \in kept(base)
    BY <2>2
  <2> QED
    BY <2>3, <2>4
<1>4. ASSUME NEW key \in names(base) PROVE value(other, key) = value(base, key)
  BY <1>3
<1>5. names(other) = names(base)
  BY <1>3
<1>6. value(base, a.boardEnv) = board
  BY <1>2
<1>7. \A key \in DOMAIN selected : value(base, key) = selected[key]
  OBVIOUS
<1>8. a.boardEnv \in names(base) /\ DOMAIN selected \subseteq names(base)
  OBVIOUS
<1> HIDE DEF names, value
<1> QED
  BY <1>1, <1>4, <1>5, <1>6, <1>7, <1>8

LEMMA EnvironmentKept == EnvironmentInv /\ [Next]_vars => EnvironmentInv'
<1> SUFFICES ASSUME EnvironmentInv, [Next]_vars PROVE EnvironmentInv'
  OBVIOUS
<1>1. CASE \E ok \in BOOLEAN : Cli(ok)
  BY <1>1 DEF Cli, EnvironmentInv, ambient
<1>2. CASE \E ok \in BOOLEAN : MakeDirectory(ok) \/ InitBoard(ok)
  BY <1>2 DEF MakeDirectory, InitBoard, EnvironmentInv
<1>3. CASE Start
  BY <1>3 DEF Start, EnvironmentInv
<1>4. CASE UNCHANGED <<job, env>> /\ (pc' \in {"mkdir", "init"} => pc' = pc)
  BY <1>4 DEF EnvironmentInv
<1>5. CASE \/ Remove \/ Listen \/ TakeDone \/ Forward \/ Insist \/ KillGroup
           \/ RestoreTerminal \/ Unsubscribe \/ Wait \/ FireTimer
  BY <1>4, <1>5 DEF Remove, Listen, TakeDone, Forward, Insist, KillGroup, RestoreTerminal,
                    Unsubscribe, Wait, FireTimer, ambient
<1>6. CASE \/ Signal \/ Hangup \/ Kill \/ Suspend \/ Resume \/ UNCHANGED vars
           \/ \E p, child \in Process : Fork(p, child)
           \/ \E p \in Process : Exit(p) \/ Die(p)
  BY <1>4, <1>6 DEF Signal, Hangup, Kill, Suspend, Resume, Fork, Exit, Die, End, vars, ambient
<1> QED
  BY <1>1, <1>2, <1>3, <1>5, <1>6 DEF Next, SimkitStep

\* A workload's environment depends on the ambient one only in what no profile
\* of its adapter manages.
THEOREM EnvironmentIsGiven == Spec => []EnvironmentIsTheProfiles
<1>1. Init => EnvironmentInv
  BY DEF Init, EnvironmentInv
<1>2. EnvironmentInv => EnvironmentIsTheProfiles
  <2> SUFFICES ASSUME EnvironmentInv, job # Nothing, env # Nothing
               PROVE  EnvironmentIsTheProfiles
    BY DEF EnvironmentIsTheProfiles
  <2> DEFINE a == job.adapter
  <2>1. /\ Loads(a) /\ job.profile \in DOMAIN a.profiles
        /\ env = Environment(a, job.base, job.profile, Board)
    BY DEF EnvironmentInv
  <2> HIDE DEF a
  <2>2. /\ env[a.boardEnv] = Board
        /\ \A key \in DOMAIN a.profiles[job.profile] : env[key] = a.profiles[job.profile][key]
    BY <2>1, EnvironmentOfBases
  <2>3. ASSUME NEW base,
               {<<key, base[key]>> : key \in DOMAIN base \ Managed(a)} =
                 {<<key, job.base[key]>> : key \in DOMAIN job.base \ Managed(a)}
        PROVE  env = Environment(a, base, job.profile, Board)
    BY <2>1, <2>3, EnvironmentOfBases
  <2> QED
    BY <2>2, <2>3 DEF EnvironmentIsTheProfiles, a
<1> QED
  BY <1>1, <1>2, EnvironmentKept, PTL DEF Spec
-----------------------------------------------------------------------------
(***************************************************************************)
(* prepare-robot.                                                          *)
(***************************************************************************)

LEMMA UpTo == ASSUME NEW n \in Nat
              PROVE  IsFiniteSet(1 .. n) /\ Cardinality(1 .. n) = n
BY FS_Interval

\* Counting the names, refusing doubles and finding every name of the wire
\* amounts to a one-to-one assignment of the joints to the wire.
LEMMA FittingIsCovered ==
  ASSUME NEW joints, Len(joints) \in Nat, DOMAIN joints = 1 .. Len(joints),
         JointsFit(joints)
  PROVE  Covered(joints)
<1> DEFINE moving == Moving(joints)
           names == {joints[i].name : i \in moving}
           order == {JointOrder[slot] : slot \in Wire}
           chosen(slot) == CHOOSE i \in Named(joints, JointOrder[slot]) : TRUE
<1>1. IsFiniteSet(moving)
  <2>1. IsFiniteSet(1 .. Len(joints))
    BY UpTo
  <2>2. moving \in SUBSET (1 .. Len(joints))
    BY DEF Moving
  <2> QED
    BY <2>1, <2>2, FS_Subset
<1>2. IsFiniteSet(names) /\ Cardinality(names) = Cardinality(moving)
  <2> DEFINE f == [i \in moving |-> joints[i].name]
  <2>1. f \in Bijection(moving, names)
    BY DEF Bijection, Injection, Surjection, IsInjective, JointsFit
  <2>2. ExistsBijection(moving, names)
    BY <2>1 DEF ExistsBijection
  <2> QED
    BY <1>1, <2>2, FS_Bijection
<1>3. Cardinality(names) = Len(JointOrder)
  BY DEF JointsFit
<1>4. IsFiniteSet(order) /\ Cardinality(order) = Len(JointOrder)
  <2> DEFINE g == [slot \in Wire |-> JointOrder[slot]]
  <2>1. g \in Bijection(Wire, order)
    <3>1. \A slot, other \in Wire : JointOrder[slot] = JointOrder[other] => slot = other
      BY RobotAssumption
    <3> HIDE DEF Wire
    <3> QED
      BY <3>1 DEF Bijection, Injection, Surjection, IsInjective
  <2>2. ExistsBijection(Wire, order)
    BY <2>1 DEF ExistsBijection
  <2>3. IsFiniteSet(Wire) /\ Cardinality(Wire) = Len(JointOrder)
    <3>1. Len(JointOrder) \in Nat /\ Wire = 1 .. Len(JointOrder)
      BY RobotAssumption
    <3> HIDE DEF Wire
    <3>2. IsFiniteSet(1 .. Len(JointOrder)) /\ Cardinality(1 .. Len(JointOrder)) = Len(JointOrder)
      BY <3>1, UpTo
    <3> QED
      BY <3>1, <3>2
  <2> QED
    BY <2>2, <2>3, FS_Bijection
<1>5. \A slot \in Wire : chosen(slot) \in Named(joints, JointOrder[slot])
  BY DEF JointsFit
<1>6. order \in SUBSET names
  BY <1>5 DEF Named
<1>7. order = names
  BY <1>2, <1>3, <1>4, <1>6, FS_Subset
<1>8. \A slot \in Wire : \A i \in Named(joints, JointOrder[slot]) : chosen(slot) = i
  BY <1>5 DEF JointsFit, Named
<1>9. \A slot \in Wire :
        /\ Contracts(joints)[slot] =
             [name |-> JointOrder[slot], limit |-> joints[chosen(slot)].limit]
        /\ Contracts(joints)[slot].limit = joints[chosen(slot)].limit
  BY DEF Contracts
<1>10. Cardinality(moving) = Len(JointOrder)
  BY <1>2, <1>3
<1>11. ASSUME NEW i \in moving
       PROVE  \E slot \in Wire :
                Contracts(joints)[slot] = [name |-> joints[i].name, limit |-> joints[i].limit]
  <2>1. PICK slot \in Wire : JointOrder[slot] = joints[i].name
    BY <1>7
  <2>2. i \in Named(joints, JointOrder[slot])
    BY <2>1 DEF Named
  <2>3. chosen(slot) = i
    BY <1>8, <2>2
  <2> HIDE DEF chosen
  <2> QED
    BY <1>9, <2>1, <2>3
<1>12. \A slot \in Wire : GoodLimit(Contracts(joints)[slot].limit)
  <2>1. \A slot \in Wire : GoodLimit(joints[chosen(slot)].limit)
    <3> TAKE slot \in Wire
    <3>1. PICK i \in Named(joints, JointOrder[slot]) : GoodLimit(joints[i].limit)
      BY DEF JointsFit
    <3>2. chosen(slot) = i
      BY <1>8
    <3> HIDE DEF chosen
    <3> QED
      BY <3>1, <3>2
  <2> HIDE DEF chosen
  <2> QED
    BY <1>9, <2>1
<1> QED
  BY <1>10, <1>11, <1>12 DEF Covered
-----------------------------------------------------------------------------
\* What one step does to the places of all runs.
LEMMA Moves ==
  ASSUME RobotTypeOK, NEW p \in Preparer, NEW place, Move(p, place)
  PROVE  /\ preparer'[p] = place
         /\ \A q \in Preparer : q # p => preparer'[q] = preparer[q]
         /\ DOMAIN preparer' = Preparer
BY DEF RobotTypeOK, Move

\* The files of a run.
LEMMA Files ==
  ASSUME NEW p \in Preparer
  PROVE  /\ New(p) # NoFile /\ Whole(p) # NoFile
         /\ New(p).by = p /\ Whole(p).by = p /\ Whole(p).whole
         /\ {New(p), Whole(p)} \subseteq [by : Preparer, whole : BOOLEAN]
<1>1. {New(p), Whole(p)} \subseteq [by : Preparer, whole : BOOLEAN]
  BY DEF New, Whole
<1>2. New(p) # NoFile /\ Whole(p) # NoFile
  BY <1>1, RobotAssumption
<1>3. New(p).by = p /\ Whole(p).by = p
  BY DEF New, Whole
<1>4. Whole(p).whole
  BY Zenon DEF Whole
<1> QED
  BY <1>1, <1>2, <1>3, <1>4

\* A run that fails, dies or goes on to the directory leaves the others and
\* the files alone.
LEMMA StepOutside ==
  ASSUME RobotInv, NEW p \in Preparer, NEW place \in {"mkdir", "failed", "dead"},
         Move(p, place), UNCHANGED <<model, directory, urdf, contract>>,
         place = "mkdir" => JointsFit(model.joints)
  PROVE  RobotInv'
<1>1. /\ preparer'[p] = place
      /\ \A q \in Preparer : q # p => preparer'[q] = preparer[q]
  BY Moves DEF RobotInv
<1>2. RobotTypeOK'
  BY DEF RobotInv, RobotTypeOK, Move, Ended
<1>3. \A q \in Preparer : preparer'[q] \in Inside => preparer[q] = preparer'[q]
  BY <1>1 DEF Inside
<1>4. \A q \in Preparer : preparer'[q] \in Inside => Written(q)'
  BY <1>3 DEF RobotInv, OneMaker, Written, At, New, Whole
<1>5. OneMaker'
  BY <1>3, <1>4 DEF RobotInv, OneMaker
<1>6. OnlyFitting'
  BY <1>1 DEF RobotInv, OnlyFitting, Inside
<1>7. ContractVouches'
  BY <1>3 DEF RobotInv, ContractVouches, Inside
<1> QED
  BY <1>2, <1>5, <1>6, <1>7 DEF RobotInv

\* The run that made the directory is the only one to write in it.
LEMMA StepInside ==
  ASSUME RobotInv, NEW p \in Preparer, preparer[p] \in Inside,
         NEW place \in Inside, Move(p, place), UNCHANGED <<model, directory>>,
         Written(p)',
         \/ UNCHANGED contract /\ contract = NoFile
         \/ contract' \in {New(p), Whole(p)} /\ UNCHANGED urdf /\ urdf = Whole(p),
         urdf' = urdf \/ urdf' \in {New(p), Whole(p)}
  PROVE  RobotInv'
<1>1. /\ preparer'[p] = place
      /\ \A q \in Preparer : q # p => preparer'[q] = preparer[q]
  BY Moves DEF RobotInv
<1>2. RobotTypeOK'
  <2>1. preparer' \in [Preparer -> {"check", "mkdir"} \cup Inside \cup Ended]
    BY DEF RobotInv, RobotTypeOK, Move
  <2>2. {urdf, contract}' \subseteq [by : Preparer, whole : BOOLEAN] \cup {NoFile}
    BY Files DEF RobotInv, RobotTypeOK
  <2> QED
    BY <2>1, <2>2 DEF RobotInv, RobotTypeOK
<1>3. \A q \in Preparer : preparer'[q] \in Inside => q = p
  BY <1>1 DEF RobotInv, OneMaker
<1>4. OneMaker'
  BY <1>3 DEF RobotInv, OneMaker
<1>5. OnlyFitting'
  <2>1. JointsFit(model.joints)
    BY DEF RobotInv, OnlyFitting
  <2> QED
    BY <2>1 DEF OnlyFitting
<1>6. ContractVouches'
  <2>1. (contract # NoFile => urdf # NoFile /\ urdf.whole /\ urdf.by = contract.by)'
    BY Files
  <2>2. (\A q \in Preparer :
           preparer[q] = "done" => contract # NoFile /\ contract.whole /\ contract.by = q)'
    <3> SUFFICES ASSUME NEW q \in Preparer, preparer'[q] = "done"
                 PROVE  contract' # NoFile /\ contract'.whole /\ contract'.by = q
      OBVIOUS
    <3>1. q = p
      BY <1>3 DEF Inside
    <3>2. contract' = Whole(p)'
      BY <3>1 DEF Written, At
    <3>3. Whole(p)' = Whole(p)
      BY DEF Whole
    <3> QED
      BY <3>1, <3>2, <3>3, Files
  <2> QED
    BY <2>1, <2>2 DEF ContractVouches
<1> QED
  BY <1>2, <1>4, <1>5, <1>6 DEF RobotInv

LEMMA RobotInit == RInit => RobotInv
BY DEF RInit, RobotInv, RobotTypeOK, OneMaker, OnlyFitting, ContractVouches, Inside, Ended

LEMMA RobotStep == RobotInv /\ [RNext]_rvars => RobotInv'
<1> SUFFICES ASSUME RobotInv, [RNext]_rvars
             PROVE  RobotInv'
  OBVIOUS
<1>1. CASE UNCHANGED rvars
  BY <1>1 DEF rvars, RobotInv, RobotTypeOK, OneMaker, Written, At, New, Whole, OnlyFitting,
              ContractVouches
<1>2. ASSUME NEW p \in Preparer, CheckModel(p)
      PROVE  RobotInv'
  BY <1>2, StepOutside DEF CheckModel
<1>3. ASSUME NEW p \in Preparer, MakeOutput(p)
      PROVE  RobotInv'
  <2>1. CASE Move(p, "failed") /\ UNCHANGED directory
    BY <1>3, <2>1, StepOutside DEF MakeOutput
  <2>2. CASE ~directory /\ directory' = TRUE /\ Move(p, "create urdf")
    <3>1. /\ preparer'[p] = "create urdf"
          /\ \A q \in Preparer : q # p => preparer'[q] = preparer[q]
      BY <2>2, Moves DEF RobotInv
    <3>2. urdf = NoFile /\ contract = NoFile /\ \A q \in Preparer : preparer[q] \notin Inside
      BY <2>2 DEF RobotInv, OneMaker
    <3>3. RobotTypeOK'
      BY <1>3, <2>2 DEF MakeOutput, RobotInv, RobotTypeOK, Move, Inside
    <3>4. Written(p)'
      BY <1>3, <3>1, <3>2 DEF MakeOutput, Written, At
    <3>5. OneMaker'
      BY <2>2, <3>1, <3>2, <3>4 DEF OneMaker
    <3>6. OnlyFitting'
      BY <1>3, <3>1, <3>2 DEF MakeOutput, RobotInv, OnlyFitting, At
    <3>7. ContractVouches'
      BY <1>3, <3>1, <3>2 DEF MakeOutput, ContractVouches, Inside
    <3> QED
      BY <3>3, <3>5, <3>6, <3>7 DEF RobotInv
  <2> QED
    BY <1>3, <2>1, <2>2 DEF MakeOutput
<1>4. ASSUME NEW p \in Preparer, KillPreparer(p)
      PROVE  RobotInv'
  BY <1>4, StepOutside DEF KillPreparer
<1>5. ASSUME NEW p \in Preparer, preparer[p] \in Inside
      PROVE  Written(p) /\ (Move(p, "failed") /\ UNCHANGED <<model, directory, urdf, contract>> => RobotInv')
  BY <1>5, StepOutside DEF RobotInv, OneMaker
<1>7. ASSUME NEW p \in Preparer, CreateUrdf(p)
      PROVE  RobotInv'
  <2>1. preparer[p] \in Inside /\ contract = NoFile /\ UNCHANGED <<model, directory, contract>>
    BY <1>5, <1>7 DEF CreateUrdf, At, Inside, Written
  <2>2. CASE urdf' = New(p) /\ Move(p, "write urdf")
    <3>0. preparer'[p] = "write urdf"
      BY <2>2, Moves DEF RobotInv
    <3>1. Written(p)'
      BY <2>1, <2>2, <3>0 DEF Written, At, New, Whole
    <3> QED
      BY <2>1, <2>2, <3>1, StepInside DEF Inside
  <2> QED
    BY <1>5, <1>7, <2>1, <2>2 DEF CreateUrdf
<1>8. ASSUME NEW p \in Preparer, WriteUrdf(p)
      PROVE  RobotInv'
  <2>1. /\ preparer[p] \in Inside /\ urdf = New(p) /\ contract = NoFile
        /\ UNCHANGED <<model, directory, contract>>
    BY <1>5, <1>8 DEF WriteUrdf, At, Inside, Written
  <2>2. CASE urdf' = Whole(p) /\ Move(p, "create contract")
    <3>0. preparer'[p] = "create contract"
      BY <2>2, Moves DEF RobotInv
    <3>1. Written(p)'
      BY <2>1, <2>2, <3>0 DEF Written, At, New, Whole
    <3> QED
      BY <2>1, <2>2, <3>1, StepInside DEF Inside
  <2> QED
    BY <1>5, <1>8, <2>1, <2>2 DEF WriteUrdf
<1>9. ASSUME NEW p \in Preparer, CreateContract(p)
      PROVE  RobotInv'
  <2>1. /\ preparer[p] \in Inside /\ urdf = Whole(p)
        /\ UNCHANGED <<model, directory, urdf>>
    BY <1>5, <1>9 DEF CreateContract, At, Inside, Written
  <2>2. CASE contract' = New(p) /\ Move(p, "write contract")
    <3>0. preparer'[p] = "write contract"
      BY <2>2, Moves DEF RobotInv
    <3>1. Written(p)'
      BY <2>1, <2>2, <3>0 DEF Written, At, New, Whole
    <3> QED
      BY <2>1, <2>2, <3>1, StepInside DEF Inside
  <2> QED
    BY <1>5, <1>9, <2>1, <2>2 DEF CreateContract
<1>10. ASSUME NEW p \in Preparer, WriteContract(p)
      PROVE  RobotInv'
  <2>1. /\ preparer[p] \in Inside /\ urdf = Whole(p) /\ contract = New(p)
        /\ UNCHANGED <<model, directory, urdf>>
    BY <1>5, <1>10 DEF WriteContract, At, Inside, Written
  <2>2. CASE contract' = Whole(p) /\ Move(p, "done")
    <3>0. preparer'[p] = "done"
      BY <2>2, Moves DEF RobotInv
    <3>1. Written(p)'
      BY <2>1, <2>2, <3>0 DEF Written, At, New, Whole
    <3> QED
      BY <2>1, <2>2, <3>1, StepInside DEF Inside
  <2> QED
    BY <1>5, <1>10, <2>1, <2>2 DEF WriteContract
<1> QED
  BY <1>1, <1>2, <1>3, <1>4, <1>7, <1>8, <1>9, <1>10 DEF RNext

\* The inductive invariant of an output directory.
THEOREM RobotInductive == RSpec => []RobotInv
BY RobotInit, RobotStep, PTL DEF RSpec

\* A contract is only beside the whole model of the run that wrote it.
THEOREM ContractIsTrue == RSpec => []ContractVouches
<1>1. RobotInv => ContractVouches
  BY DEF RobotInv
<1> QED
  BY <1>1, RobotInductive, PTL

\* A contract's joints are the moving joints of its model, one to one.
THEOREM JointsAreCovered == RSpec => []ContractCoversJoints
<1>1. RobotInv => ContractCoversJoints
  BY FittingIsCovered, RobotAssumption
     DEF RobotInv, RobotTypeOK, OnlyFitting, ContractCoversJoints
<1> QED
  BY <1>1, RobotInductive, PTL
-----------------------------------------------------------------------------
(***************************************************************************)
(* The readers of an archive.                                              *)
(***************************************************************************)

\* The bytes of one record more.
LEMMA NextBytes ==
  ASSUME NEW f, NEW n \in Nat, \A i \in 1 .. n + 1 : f.records[i].size \in Nat
  PROVE  /\ BytesUpTo(f, n) \in Int
         /\ BytesUpTo(f, n + 1) = BytesUpTo(f, n) + RecordOverhead + f.records[n + 1].size
<1> DEFINE g == [i \in 1 .. n |-> RecordOverhead + f.records[i].size]
           h == [i \in 1 .. n + 1 |-> RecordOverhead + f.records[i].size]
           size == f.records[n + 1].size
<1>1. /\ IsFiniteSet(1 .. n) /\ n + 1 \notin 1 .. n /\ 1 .. n + 1 = (1 .. n) \cup {n + 1}
      /\ n + 1 \in 1 .. n + 1 /\ n + 1 \in Int
  <2>1. IsFiniteSet(1 .. n)
    BY FS_Interval
  <2> QED
    BY <2>1
<1>2. /\ \A i \in 1 .. n : g[i] \in Int /\ g[i] = h[i]
      /\ \A i \in 1 .. n + 1 : h[i] \in Int
      /\ h[n + 1] = RecordOverhead + size /\ size \in Nat /\ RecordOverhead \in Nat
  BY <1>1 DEF RecordOverhead
<1> HIDE DEF g, h, size
<1>3. SumFunctionOnSet(g, 1 .. n) = SumFunctionOnSet(h, 1 .. n)
  BY <1>1, <1>2, SumCong
<1>4. SumFunctionOnSet(h, (1 .. n) \cup {n + 1}) = h[n + 1] + SumFunctionOnSet(h, 1 .. n)
  BY <1>1, <1>2, SumAdd
<1>5. SumFunctionOnSet(g, 1 .. n) \in Int
  BY <1>1, <1>2, SumType
<1> DEFINE s == SumFunctionOnSet(g, 1 .. n)
           t == SumFunctionOnSet(h, 1 .. n + 1)
<1>6. t = (RecordOverhead + size) + s /\ s \in Int
  BY <1>1, <1>2, <1>3, <1>4, <1>5
<1>7. BytesUpTo(f, n) = 8 + s /\ BytesUpTo(f, n + 1) = 8 + t
  BY DEF BytesUpTo, g, h
<1> HIDE DEF s, t
<1> QED
  BY <1>2, <1>6, <1>7 DEF size

LEMMA NoBytes == ASSUME NEW f PROVE BytesUpTo(f, 0) = 8
<1>1. 1 .. 0 = {}
  OBVIOUS
<1> QED
  BY <1>1, SumOfNone DEF BytesUpTo

\* A position behind all others has one new neighbour, the last of them.
LEMMA NewNeighbour ==
  ASSUME NEW n \in Nat, NEW T \in SUBSET (1 .. n),
         NEW m \in T, \A k \in T : k <= m
  PROVE  /\ Neighbours(T \cup {n + 1}) = Neighbours(T) \cup {<<m, n + 1>>}
         /\ <<m, n + 1>> \notin Neighbours(T)
<1> DEFINE U == T \cup {n + 1}
<1>1. \A k \in T : k \in Nat /\ k < n + 1 /\ k # n + 1 /\ n + 1 >= k
  OBVIOUS
<1>2. ASSUME NEW a \in U, NEW b \in U, <<a, b>> \in Neighbours(U)
      PROVE  <<a, b>> \in Neighbours(T) \cup {<<m, n + 1>>}
  <2>1. a < b /\ \A k \in U : k <= a \/ k >= b
    BY <1>2 DEF Neighbours
  <2>2. a \in T
    <3>1. SUFFICES ASSUME a = n + 1 PROVE FALSE
      OBVIOUS
    <3>2. CASE b \in T
      BY <1>1, <2>1, <3>1, <3>2
    <3>3. CASE b = n + 1
      BY <2>1, <3>1, <3>3
    <3> QED
      BY <3>2, <3>3
  <2>3. CASE b \in T
    BY <2>1, <2>2, <2>3 DEF Neighbours
  <2>4. CASE b = n + 1
    <3>1. m <= a \/ m >= b
      BY <2>1
    <3>2. a = m
      BY <1>1, <2>2, <2>4, <3>1
    <3> QED
      BY <2>4, <3>2
  <2> QED
    BY <2>3, <2>4
<1>3. ASSUME NEW a \in T, NEW b \in T, <<a, b>> \in Neighbours(T)
      PROVE  <<a, b>> \in Neighbours(U)
  <2>1. a < b /\ \A k \in T : k <= a \/ k >= b
    BY <1>3 DEF Neighbours
  <2>2. \A k \in U : k <= a \/ k >= b
    BY <1>1, <2>1
  <2> QED
    BY <2>1, <2>2 DEF Neighbours
<1>4. <<m, n + 1>> \in Neighbours(U)
  BY <1>1 DEF Neighbours
<1>5. <<m, n + 1>> \notin Neighbours(T)
  BY <1>1 DEF Neighbours
<1>6. ASSUME NEW p \in Neighbours(U) PROVE p \in Neighbours(T) \cup {<<m, n + 1>>}
  <2>1. p = <<p[1], p[2]>> /\ p[1] \in U /\ p[2] \in U
    BY DEF Neighbours
  <2> QED
    BY <1>2, <2>1
<1>7. ASSUME NEW p \in Neighbours(T) PROVE p \in Neighbours(U)
  <2>1. p = <<p[1], p[2]>> /\ p[1] \in T /\ p[2] \in T
    BY DEF Neighbours
  <2> QED
    BY <1>3, <2>1
<1> QED
  BY <1>4, <1>5, <1>6, <1>7

LEMMA NoNeighbours == ASSUME NEW k \in Nat PROVE Neighbours({k}) = {} /\ Neighbours({}) = {}
BY DEF Neighbours

\* What the records say of one slot, once n of them are read.
Positions(f, n, s) == {i \in 1 .. n : f.records[i].slot = s}

StepsBack(f, at) ==
  {p \in Neighbours(at) : f.records[p[2]].revision <= f.records[p[1]].revision}

SlotMatches(f, n, s, stats) ==
  LET at == Positions(f, n, s) IN
  /\ stats.records = Cardinality(at)
  /\ stats.nonIncreasing = Cardinality(StepsBack(f, at))
  /\ at # {} /\ StepsBack(f, at) = {} =>
       stats.skipped + stats.records = (stats.last - stats.first) \div 2 + 1
  /\ \A i \in at :
       /\ (\A k \in at : i <= k) => stats.first = f.records[i].revision
       /\ (\A k \in at : i >= k) => stats.last = f.records[i].revision

LEMMA StatsBySlot == StatsMatchRecords <=> \A s \in Slots : SlotMatches(file, records, s, slots[s])
BY DEF StatsMatchRecords, SlotMatches, Positions, StepsBack, Of, Back, Revision

LEMMA PositionFacts ==
  ASSUME NEW f, NEW n \in Nat, NEW s
  PROVE  /\ Positions(f, n, s) \in SUBSET (1 .. n) /\ IsFiniteSet(Positions(f, n, s))
         /\ Neighbours(Positions(f, n, s)) \in SUBSET ((1 .. n) \X (1 .. n))
         /\ IsFiniteSet(StepsBack(f, Positions(f, n, s)))
         /\ Positions(f, n + 1, s) = IF f.records[n + 1].slot = s THEN Positions(f, n, s) \cup {n + 1}
                              ELSE Positions(f, n, s)
<1>1. Positions(f, n, s) \in SUBSET (1 .. n)
  BY DEF Positions
<1>2. IsFiniteSet(1 .. n) /\ IsFiniteSet((1 .. n) \X (1 .. n))
  <2>1. IsFiniteSet(1 .. n)
    BY FS_Interval
  <2> QED
    BY <2>1, FS_Product
<1>3. Neighbours(Positions(f, n, s)) \in SUBSET ((1 .. n) \X (1 .. n))
  BY <1>1 DEF Neighbours
<1>4. StepsBack(f, Positions(f, n, s)) \in SUBSET ((1 .. n) \X (1 .. n))
  BY <1>3 DEF StepsBack
<1>5. IsFiniteSet(Positions(f, n, s)) /\ IsFiniteSet(StepsBack(f, Positions(f, n, s)))
  BY <1>1, <1>2, <1>4, FS_Subset
<1>6. 1 .. n + 1 = (1 .. n) \cup {n + 1}
  OBVIOUS
<1>7. Positions(f, n + 1, s) = IF f.records[n + 1].slot = s THEN Positions(f, n, s) \cup {n + 1}
                        ELSE Positions(f, n, s)
  BY <1>6 DEF Positions
<1> QED
  BY <1>1, <1>3, <1>5, <1>7

\* The first record of a slot.
LEMMA FirstOfSlot ==
  ASSUME NEW f, NEW n \in Nat, NEW s,
         f.records[n + 1].slot = s, f.records[n + 1].revision \in Nat, Positions(f, n, s) = {}
  PROVE  SlotMatches(f, n + 1, s, Noted(NoStats, f.records[n + 1].revision))
<1> DEFINE revision == f.records[n + 1].revision
           stats == Noted(NoStats, revision)
<1>1. Positions(f, n + 1, s) = {n + 1}
  BY PositionFacts
<1>2. StepsBack(f, {n + 1}) = {}
  BY NoNeighbours DEF StepsBack
<1>3. Cardinality({n + 1}) = 1 /\ Cardinality({}) = 0
  BY FS_Singleton, FS_EmptySet
<1>4. stats = [records |-> 1, first |-> revision, last |-> revision, skipped |-> 0,
               nonIncreasing |-> 0]
  BY DEF Noted, NoStats
<1>5. (revision - revision) \div 2 + 1 = 1
  BY Z3
<1> HIDE DEF stats, revision
<1>6. SlotMatches(f, n + 1, s, stats)
  <2>1. stats.skipped + stats.records = (stats.last - stats.first) \div 2 + 1
    BY <1>4, <1>5
  <2> QED
    BY <1>1, <1>2, <1>3, <1>4, <2>1 DEF SlotMatches, revision
<1> QED
  BY <1>6 DEF stats, revision

\* Unobserved commits up to one record more, when revisions are even.
LEMMA NextSkipped ==
  ASSUME NEW a \in Nat, NEW b \in Nat, NEW c \in Nat, NEW x \in Int, NEW k \in Int,
         a % 2 = 0, b % 2 = 0, c % 2 = 0, b < c, x + k = (b - a) \div 2 + 1
  PROVE  (x + ((c - b) \div 2 - 1)) + (k + 1) = (c - a) \div 2 + 1
<1>1. (c - a) \div 2 = (b - a) \div 2 + (c - b) \div 2
  OBVIOUS
<1>2. (c - a) \div 2 \in Int /\ (b - a) \div 2 \in Int /\ (c - b) \div 2 \in Int
  OBVIOUS
<1> QED
  BY <1>1, <1>2

\* A record behind others of its slot.
LEMMA LaterOfSlot ==
  ASSUME NEW f, NEW n \in Nat, NEW s, NEW stats \in Statistics,
         \A i \in 1 .. n + 1 : f.records[i].revision \in Nat /\ f.records[i].revision % 2 = 0,
         f.records[n + 1].slot = s, Positions(f, n, s) # {}, SlotMatches(f, n, s, stats)
  PROVE  SlotMatches(f, n + 1, s, Noted(stats, f.records[n + 1].revision))
<1> DEFINE revision == f.records[n + 1].revision
           after == Noted(stats, revision)
           at == Positions(f, n, s)
           later == Positions(f, n + 1, s)
<1>1. /\ at \in SUBSET (1 .. n) /\ IsFiniteSet(at) /\ IsFiniteSet(StepsBack(f, at))
      /\ later = at \cup {n + 1} /\ at # {} /\ n + 1 \notin at
  <2>1. /\ at \in SUBSET (1 .. n) /\ IsFiniteSet(at) /\ IsFiniteSet(StepsBack(f, at))
        /\ later = at \cup {n + 1}
    BY PositionFacts
  <2>2. n + 1 \notin at
    BY <2>1
  <2> QED
    BY <2>1, <2>2
<1>2. PICK first \in at : \A k \in at : first <= k
  <2>1. at \in SUBSET Nat
    BY <1>1
  <2> HIDE DEF at
  <2> QED
    BY <1>1, <2>1, Least
<1>3. PICK last \in at : \A k \in at : k <= last
  <2>1. at \in SUBSET (0 .. n)
    BY <1>1
  <2> HIDE DEF at
  <2> QED
    BY <1>1, <2>1, Greatest
<1>4. /\ stats.records = Cardinality(at) /\ stats.nonIncreasing = Cardinality(StepsBack(f, at))
      /\ StepsBack(f, at) = {} =>
           stats.skipped + stats.records = (stats.last - stats.first) \div 2 + 1
      /\ stats.first = f.records[first].revision
      /\ stats.last = f.records[last].revision
  <2>1. \A k \in at : last >= k
    BY <1>1, <1>3
  <2> QED
    BY <1>1, <1>2, <1>3, <2>1 DEF SlotMatches
<1>5. /\ revision \in Nat /\ revision % 2 = 0
      /\ stats.first \in Nat /\ stats.first % 2 = 0
      /\ stats.last \in Nat /\ stats.last % 2 = 0
      /\ stats.records \in Nat /\ stats.skipped \in Int /\ stats.nonIncreasing \in Nat
  <2>1. n + 1 \in 1 .. n + 1 /\ first \in 1 .. n + 1 /\ last \in 1 .. n + 1
    BY <1>1, <1>2, <1>3
  <2> QED
    BY <1>4, <2>1 DEF Statistics
<1>6. Cardinality(later) = Cardinality(at) + 1
  BY <1>1, FS_AddElement
<1>7. Cardinality(at) > 0
  <2>1. Cardinality(at) \in Nat /\ Cardinality(at) # 0
    BY <1>1, FS_EmptySet, FS_CardinalityType
  <2> QED
    BY <2>1
<1>8. /\ Neighbours(later) = Neighbours(at) \cup {<<last, n + 1>>}
      /\ <<last, n + 1>> \notin Neighbours(at)
  <2> HIDE DEF at, later
  <2> QED
    BY <1>1, <1>3, NewNeighbour
<1>9. /\ <<last, n + 1>> \notin StepsBack(f, at)
      /\ StepsBack(f, later) = IF revision <= stats.last THEN StepsBack(f, at) \cup {<<last, n + 1>>}
                               ELSE StepsBack(f, at)
  <2> HIDE DEF at, later
  <2> QED
    BY <1>4, <1>8 DEF StepsBack
<1>10. /\ after.records = stats.records + 1 /\ after.first = stats.first
       /\ after.last = revision
       /\ after.skipped = stats.skipped
            + IF revision > stats.last THEN (revision - stats.last) \div 2 - 1 ELSE 0
       /\ after.nonIncreasing = stats.nonIncreasing + IF revision <= stats.last THEN 1 ELSE 0
  BY <1>4, <1>5, <1>7 DEF Noted
<1> HIDE DEF after
<1>11. after.records = Cardinality(later)
  BY <1>4, <1>6, <1>10
<1>12. after.nonIncreasing = Cardinality(StepsBack(f, later))
  <2> HIDE DEF at, later
  <2>1. CASE revision <= stats.last
    <3>1. StepsBack(f, later) = StepsBack(f, at) \cup {<<last, n + 1>>}
      BY <1>9, <2>1
    <3>2. Cardinality(StepsBack(f, later)) = Cardinality(StepsBack(f, at)) + 1
      BY <1>1, <1>9, <3>1, FS_AddElement
    <3> QED
      BY <1>4, <1>10, <2>1, <3>2
  <2>2. CASE ~(revision <= stats.last)
    BY <1>4, <1>5, <1>9, <1>10, <2>2
  <2> QED
    BY <2>1, <2>2
<1>13. ASSUME StepsBack(f, later) = {}
       PROVE  after.skipped + after.records = (after.last - after.first) \div 2 + 1
  <2>1. StepsBack(f, at) = {} /\ ~(revision <= stats.last)
    BY <1>9, <1>13
  <2> DEFINE a == stats.first
             b == stats.last
             c == revision
             x == stats.skipped
             k == stats.records
             half == (c - b) \div 2
  <2>2. /\ a \in Nat /\ b \in Nat /\ c \in Nat /\ x \in Int /\ k \in Int
        /\ a % 2 = 0 /\ b % 2 = 0 /\ c % 2 = 0 /\ b < c /\ x + k = (b - a) \div 2 + 1
    BY <1>4, <1>5, <2>1
  <2>3. /\ after.skipped = x + (half - 1) /\ after.records = k + 1
        /\ after.last = c /\ after.first = a
    BY <1>5, <1>10, <2>1
  <2> HIDE DEF a, b, c, x, k, revision
  <2>4. (x + (half - 1)) + (k + 1) = (c - a) \div 2 + 1
    BY <2>2, NextSkipped
  <2> QED
    BY <2>3, <2>4
<1>14. ASSUME NEW i \in later
       PROVE  /\ (\A k \in later : i <= k) => after.first = f.records[i].revision
              /\ (\A k \in later : i >= k) => after.last = f.records[i].revision
  <2>1. CASE i = n + 1
    <3>1. first \in later /\ ~(i <= first)
      BY <1>1, <1>2, <2>1
    <3> QED
      BY <1>10, <2>1, <3>1
  <2>2. CASE i \in at
    <3>1. n + 1 \in later /\ ~(i >= n + 1)
      BY <1>1, <2>2
    <3>2. ASSUME \A k \in later : i <= k PROVE i = first
      <4>1. first \in later /\ first \in 1 .. n /\ i \in 1 .. n /\ first <= i
        BY <1>1, <1>2, <2>2
      <4> QED
        BY <3>2, <4>1
    <3> QED
      BY <1>4, <1>10, <3>1, <3>2
  <2> QED
    BY <1>1, <2>1, <2>2
<1> QED
  BY <1>11, <1>12, <1>13, <1>14 DEF SlotMatches, after

LEMMA SameStats ==
  ASSUME StatsMatchRecords, UNCHANGED <<file, records, slots>>
  PROVE  StatsMatchRecords'
<1>1. \A s \in Slots : SlotMatches(file', records', s, slots'[s])
  BY StatsBySlot
<1> QED
  BY <1>1 DEF StatsMatchRecords, SlotMatches, Positions, StepsBack, Of, Back, Revision

LEMMA ArchiveAtStart == AInit => ArchiveInv
<1> SUFFICES ASSUME AInit PROVE ArchiveInv
  OBVIOUS
<1>1. file \in File /\ sidecar \in Beside(file) /\ Len(file.records) \in Nat
  BY ArchiveAssumption, LenProperties DEF AInit
<1>2. ArchiveTypeOK
  BY <1>1 DEF AInit, ArchiveTypeOK, Statistics, NoStats
<1>3. ReadSoFar /\ VerdictHasGrounds
  BY DEF AInit, ReadSoFar, VerdictHasGrounds
<1>4. \A s \in Slots : SlotMatches(file, 0, s, NoStats)
  <2>1. \A s \in Slots : Positions(file, 0, s) = {}
    BY DEF Positions
  <2>2. StepsBack(file, {}) = {} /\ Cardinality({}) = 0
    BY NoNeighbours, FS_EmptySet DEF StepsBack
  <2> QED
    BY <2>1, <2>2 DEF SlotMatches, NoStats
<1>5. StatsMatchRecords
  BY <1>4, StatsBySlot DEF AInit
<1> QED
  BY <1>2, <1>3, <1>5 DEF ArchiveInv

\* What the records of a file are.
LEMMA RecordsOfFile ==
  ASSUME ArchiveTypeOK
  PROVE  /\ Len(file.records) \in Nat /\ records \in Nat
         /\ \A i \in 1 .. Len(file.records) :
              /\ file.records[i].slot \in Nat /\ file.records[i].size \in Nat
              /\ file.records[i].revision \in Nat
<1>1. file.records \in Seq([slot : Nat, size : Nat, revision : Nat, intact : BOOLEAN])
  BY ArchiveAssumption DEF ArchiveTypeOK
<1>2. Len(file.records) \in Nat
  BY <1>1, LenProperties
<1>3. \A i \in 1 .. Len(file.records) :
        file.records[i] \in [slot : Nat, size : Nat, revision : Nat, intact : BOOLEAN]
  BY <1>1, ElementOfSeq
<1> QED
  BY <1>2, <1>3 DEF ArchiveTypeOK

LEMMA OpenKeeps ==
  ASSUME ArchiveInv, Open
  PROVE  ArchiveInv'
<1> USE DEF ArchiveInv
<1>1. UNCHANGED <<file, sidecar, records, slots>> /\ verdict = "unread" /\ records = 0
  BY DEF Open, ReadSoFar
<1>2. ArchiveTypeOK'
  BY <1>1 DEF Open, ArchiveTypeOK
<1>3. StatsMatchRecords'
  BY <1>1, SameStats
<1>4. ReadSoFar'
  BY <1>1, NoBytes DEF Open, ReadSoFar, Readable, Of
<1>5. VerdictHasGrounds'
  BY <1>1 DEF Open, VerdictHasGrounds, Readable
<1> QED
  BY <1>2, <1>3, <1>4, <1>5

LEMMA FinishKeeps ==
  ASSUME ArchiveInv, Finish
  PROVE  ArchiveInv'
<1> USE DEF ArchiveInv
<1>1. /\ UNCHANGED <<file, sidecar, records, rawBytes, slots>>
      /\ verdict = "reading" /\ records = Len(file.records)
      /\ verdict' = IF Matches THEN "accepted" ELSE "refused"
  BY DEF Finish, Matches
<1>2. ArchiveTypeOK'
  BY <1>1 DEF ArchiveTypeOK
<1>3. StatsMatchRecords'
  BY <1>1, SameStats
<1>4. ReadSoFar'
  BY <1>1 DEF ReadSoFar, Readable, Of
<1>5. VerdictHasGrounds'
  BY <1>1 DEF VerdictHasGrounds, Readable, Matches
<1> QED
  BY <1>2, <1>3, <1>4, <1>5

LEMMA NotedType ==
  ASSUME NEW stats \in Statistics, NEW revision \in Nat,
         stats.records > 0 => stats.last \in Nat
  PROVE  Noted(stats, revision) \in Statistics
<1>1. /\ stats.records + 1 \in Nat
      /\ (IF stats.records = 0 THEN revision ELSE stats.first) \in Nat \cup {NoRevision}
  BY DEF Statistics
<1>2. stats.nonIncreasing
        + (IF stats.records > 0 /\ revision <= stats.last THEN 1 ELSE 0) \in Nat
  BY DEF Statistics
<1>3. stats.skipped + (IF stats.records > 0 /\ revision > stats.last
                       THEN (revision - stats.last) \div 2 - 1 ELSE 0) \in Int
  <2>1. CASE stats.records > 0 /\ revision > stats.last
    <3> DEFINE a == stats.last
               x == stats.skipped
    <3>1. a \in Nat /\ x \in Int
      BY <2>1 DEF Statistics
    <3> HIDE DEF a, x
    <3>2. x + ((revision - a) \div 2 - 1) \in Int
      BY <3>1
    <3> QED
      BY <2>1, <3>2 DEF a, x
  <2>2. CASE ~(stats.records > 0 /\ revision > stats.last)
    BY <2>2 DEF Statistics
  <2> QED
    BY <2>1, <2>2
<1> QED
  BY <1>1, <1>2, <1>3 DEF Noted, Statistics

LEMMA ReadKeeps ==
  ASSUME ArchiveInv, ReadRecord
  PROVE  ArchiveInv'
<1> DEFINE n == records
           f == file
           r == file.records[records + 1]
<1>1. /\ ArchiveTypeOK /\ ReadSoFar /\ VerdictHasGrounds /\ StatsMatchRecords
      /\ verdict = "reading" /\ records < Len(file.records)
      /\ UNCHANGED <<file, sidecar>>
  BY DEF ArchiveInv, ReadRecord
<1>2. /\ Len(file.records) \in Nat /\ n \in Nat /\ n + 1 \in 1 .. Len(file.records)
      /\ r.slot \in Nat /\ r.size \in Nat /\ r.revision \in Nat
      /\ \A i \in 1 .. n + 1 : i \in 1 .. Len(file.records)
                              /\ file.records[i].size \in Nat
                              /\ file.records[i].revision \in Nat
  BY <1>1, RecordsOfFile
<1>3. CASE ~CommittedRecord(r)
  <2>1. UNCHANGED <<records, rawBytes, slots>> /\ verdict' = "refused"
    BY <1>3 DEF ReadRecord
  <2>2. ArchiveTypeOK'
    BY <1>1, <2>1 DEF ArchiveTypeOK
  <2>3. StatsMatchRecords'
    BY <1>1, <2>1, SameStats
  <2>4. ReadSoFar'
    BY <1>1, <2>1 DEF ReadSoFar, Readable, Of
  <2>5. VerdictHasGrounds'
    BY <1>1, <1>3, <2>1 DEF VerdictHasGrounds, Readable
  <2> QED
    BY <2>2, <2>3, <2>4, <2>5 DEF ArchiveInv
<1>4. CASE CommittedRecord(r)
  <2>1. /\ slots' = [slots EXCEPT ![r.slot] = Noted(slots[r.slot], r.revision)]
        /\ records' = n + 1 /\ UNCHANGED verdict
        /\ rawBytes' = rawBytes + RecordOverhead + r.size
    BY <1>4 DEF ReadRecord
  <2>2. r.slot \in Slots /\ slots \in [Slots -> Statistics]
    BY <1>1, <1>4 DEF CommittedRecord, VerifiableRecord, ArchiveTypeOK
  <2>3. /\ slots'[r.slot] = Noted(slots[r.slot], r.revision)
        /\ \A s \in Slots \ {r.slot} : slots'[s] = slots[s]
    BY <2>1, <2>2
  <2>4. \A i \in 1 .. n + 1 : CommittedRecord(f.records[i])
    <3>1. \A i \in 1 .. n : CommittedRecord(f.records[i])
      BY <1>1 DEF ReadSoFar
    <3>2. \A i \in 1 .. n + 1 : i \in 1 .. n \/ i = n + 1
      BY <1>2
    <3> QED
      BY <1>4, <3>1, <3>2
  <2>5. \A s \in Slots : SlotMatches(f, n, s, slots[s])
    BY <1>1, StatsBySlot
  <2>6. \A s \in Slots : Positions(f, n, s) = {} => slots[s] = NoStats
    BY <1>1 DEF ReadSoFar, Of, Positions
  <2>7. \A s \in Slots : Positions(f, n, s) \subseteq Positions(f, n + 1, s)
    BY <1>2 DEF Positions
  <2>8. n + 1 \in Positions(f, n + 1, r.slot)
    BY <1>2 DEF Positions
  <2>9. SlotMatches(f, n + 1, r.slot, slots'[r.slot])
    <3>1. CASE Positions(f, n, r.slot) = {}
      <4>1. SlotMatches(f, n + 1, r.slot, Noted(NoStats, r.revision))
        BY <1>2, <3>1, FirstOfSlot
      <4> QED
        BY <2>2, <2>3, <2>6, <3>1, <4>1
    <3>2. CASE Positions(f, n, r.slot) # {}
      <4>1. \A i \in 1 .. n + 1 : /\ f.records[i].revision \in Nat
                                 /\ f.records[i].revision % 2 = 0
        BY <1>2, <2>4 DEF CommittedRecord
      <4>2. slots[r.slot] \in Statistics
        BY <2>2
      <4>3. SlotMatches(f, n + 1, r.slot, Noted(slots[r.slot], r.revision))
        BY <1>2, <2>2, <2>5, <3>2, <4>1, <4>2, LaterOfSlot
      <4> QED
        BY <2>3, <4>3
    <3> QED
      BY <3>1, <3>2
  <2>10. \A s \in Slots \ {r.slot} : SlotMatches(f, n + 1, s, slots'[s])
    <3>1. \A s \in Slots \ {r.slot} : Positions(f, n + 1, s) = Positions(f, n, s)
      BY <1>2, PositionFacts
    <3> QED
      BY <2>3, <2>5, <3>1 DEF SlotMatches
  <2>11. StatsMatchRecords'
    <3>1. \A s \in Slots : SlotMatches(file', records', s, slots'[s])
      BY <1>1, <2>1, <2>9, <2>10
    <3> QED
      BY <3>1 DEF StatsMatchRecords, SlotMatches, Positions, StepsBack, Of, Back, Revision
  <2>12. slots'[r.slot] \in Statistics
    <3>1. slots[r.slot] \in Statistics
      BY <2>2
    <3>2. CASE Positions(f, n, r.slot) = {}
      <4>1. ~(slots[r.slot].records > 0)
        BY <2>2, <2>6, <3>2 DEF NoStats
      <4> QED
        BY <1>2, <2>3, <3>1, <4>1, NotedType
    <3>3. CASE Positions(f, n, r.slot) # {}
      <4> DEFINE at == Positions(f, n, r.slot)
      <4>1. at \in SUBSET (0 .. n) /\ at \in SUBSET (1 .. n)
        BY <1>2 DEF Positions
      <4>2. PICK i \in at : \A k \in at : k <= i
        <5> HIDE DEF at
        <5> QED
          BY <1>2, <3>3, <4>1, Greatest DEF at
      <4>3. \A k \in at : i >= k
        BY <1>2, <4>1, <4>2
      <4>4. slots[r.slot].last = f.records[i].revision
        BY <2>2, <2>5, <4>2, <4>3 DEF SlotMatches
      <4>5. f.records[i].revision \in Nat
        BY <1>2, <4>1, <4>2
      <4> QED
        BY <1>2, <2>3, <3>1, <4>4, <4>5, NotedType
    <3> QED
      BY <3>2, <3>3
  <2>13. ArchiveTypeOK'
    <3>1. slots' \in [Slots -> Statistics]
      BY <2>1, <2>2, <2>3, <2>12
    <3>2. records' \in 0 .. Len(file.records)
      BY <1>1, <1>2, <2>1
    <3> QED
      BY <1>1, <2>1, <3>1, <3>2 DEF ArchiveTypeOK
  <2>14. ReadSoFar'
    <3>1. rawBytes' = BytesUpTo(f, n + 1)
      BY <1>1, <1>2, <2>1, NextBytes DEF ReadSoFar
    <3>2. \A s \in Slots : Positions(f, n + 1, s) = {} => slots'[s] = NoStats
      BY <2>3, <2>6, <2>7, <2>8
    <3>3. \A s \in Slots : Of(s)' = Positions(f, n + 1, s)
      BY <1>1, <2>1 DEF Of, Positions
    <3> QED
      BY <1>1, <2>1, <2>4, <3>1, <3>2, <3>3 DEF ReadSoFar, Readable
  <2>15. VerdictHasGrounds'
    BY <1>1, <2>1 DEF VerdictHasGrounds
  <2> QED
    BY <2>11, <2>13, <2>14, <2>15 DEF ArchiveInv
<1> QED
  BY <1>3, <1>4

\* The verdict rests on the records, their bytes and the manifest, and the
\* statistics on the records read.
THEOREM ArchiveInductive == ASpec => []ArchiveInv
<1>1. ArchiveInv /\ [ANext]_avars => ArchiveInv'
  <2> SUFFICES ASSUME ArchiveInv, [ANext]_avars PROVE ArchiveInv'
    OBVIOUS
  <2>1. CASE UNCHANGED avars
    <3>1. UNCHANGED <<file, sidecar, verdict, records, rawBytes, slots>>
      BY <2>1 DEF avars
    <3>2. StatsMatchRecords'
      BY <3>1, SameStats DEF ArchiveInv
    <3> QED
      BY <3>1, <3>2
         DEF ArchiveInv, ArchiveTypeOK, ReadSoFar, Readable, VerdictHasGrounds, Matches, Of
  <2> QED
    BY <2>1, OpenKeeps, ReadKeeps, FinishKeeps DEF ANext
<1> QED
  BY <1>1, ArchiveAtStart, PTL DEF ASpec

\* A command of simkit supervises a workload, reads an archive or prepares a
\* robot, and leaves what the others work on alone.
THEOREM CommandsAreApart == CSpec => Spec /\ ASpec /\ RSpec
<1>1. CInit => Init /\ AInit /\ RInit
  BY DEF CInit
<1>2. [CNext]_cvars => [Next]_vars /\ [ANext]_avars /\ [RNext]_rvars
  BY DEF CNext, cvars
<1> QED
  BY <1>1, <1>2, PTL DEF CSpec, Spec, ASpec, RSpec

\* What analyzeArchive reports of a slot is what its records say, however the
\* slots are interleaved in the file and wherever the reading stops.
THEOREM StatsAreRight == CSpec => []StatsMatchRecords
<1>1. ArchiveInv => StatsMatchRecords
  BY DEF ArchiveInv
<1> QED
  BY <1>1, ArchiveInductive, CommandsAreApart, PTL

\* What analyzeArchive accepts, verifyRecord accepts too unless there are data
\* after the manifest, and then it refuses for them alone.  What verifyRecord
\* accepts, analyzeArchive refuses only on grounds that the relay does not look
\* at.
THEOREM ReadersAgree == CSpec => []VerifiersAgree
<1>1. ArchiveInv => VerifiersAgree
  <2> SUFFICES ASSUME ArchiveInv PROVE VerifiersAgree
    OBVIOUS
  <2>1. ArchiveTypeOK /\ ReadSoFar /\ VerdictHasGrounds
    BY DEF ArchiveInv
  <2>2. /\ Len(file.records) \in Nat /\ DOMAIN file.records = 1 .. Len(file.records)
        /\ \A i \in 1 .. Len(file.records) : file.records[i].revision \in Nat
    <3>1. file.records \in Seq([slot : Nat, size : Nat, revision : Nat, intact : BOOLEAN])
      BY <2>1, ArchiveAssumption DEF ArchiveTypeOK
    <3> QED
      BY <2>1, <3>1, LenProperties, RecordsOfFile
  <2>3. ASSUME verdict = "accepted" PROVE Vouches(file, sidecar) /\ sidecar.value
    BY <2>1, <2>2, <2>3
       DEF ReadSoFar, Readable, FirstValueDecodes, VerdictHasGrounds, Matches, Vouches,
           CommittedRecord
  <2>4. ASSUME verdict = "refused", Verifies(file, sidecar)
        PROVE  \/ sidecar.length > ManifestLimit
               \/ ~sidecar.format \/ RawBytes(file) # sidecar.rawBytes
               \/ sidecar.compressed # file
               \/ \E i \in DOMAIN file.records : Revision(i) = 0 \/ Revision(i) % 2 = 1
    <3>1. CASE records < Len(file.records) /\ ~CommittedRecord(file.records[records + 1])
      <4>1. records + 1 \in 1 .. Len(file.records)
        BY <2>1, <2>2, <3>1 DEF ArchiveTypeOK
      <4>2. VerifiableRecord(file.records[records + 1])
        BY <2>2, <2>4, <4>1 DEF Verifies, Vouches
      <4> DEFINE revision == Revision(records + 1)
      <4>3. revision \in Nat /\ (revision = 0 \/ revision % 2 # 0)
        BY <2>2, <3>1, <4>1, <4>2 DEF CommittedRecord, Revision
      <4> HIDE DEF revision
      <4>4. revision = 0 \/ revision % 2 = 1
        BY <4>3
      <4> QED
        BY <2>2, <4>1, <4>4 DEF revision
    <3>2. CASE ~Readable
      <4>1. sidecar.length \in Nat /\ sidecar.value /\ file.prefix
        BY <2>1, <2>4, ArchiveAssumption DEF ArchiveTypeOK, Verifies, Vouches
      <4>2. ~sidecar.format \/ ~(sidecar.length <= ManifestLimit)
        BY <3>2, <4>1 DEF Readable, FirstValueDecodes
      <4>3. ManifestLimit \in Int
        BY DEF ManifestLimit
      <4> QED
        BY <4>1, <4>2, <4>3
    <3>3. CASE records = Len(file.records) /\ ~Matches
      <4>1. CASE Readable
        BY <2>1, <2>2, <2>4, <3>3, <4>1 DEF ReadSoFar, Matches, Verifies, Vouches, RawBytes
      <4> QED
        BY <3>2, <4>1
    <3> QED
      BY <2>1, <2>4, <3>1, <3>2, <3>3 DEF VerdictHasGrounds
  <2> QED
    BY <2>3, <2>4 DEF VerifiersAgree, Verifies
<1> QED
  BY <1>1, ArchiveInductive, CommandsAreApart, PTL
=============================================================================
