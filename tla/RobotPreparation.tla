--------------------------- MODULE RobotPreparation ---------------------------
(***************************************************************************)
(* simkit prepare-robot: the checks on a model's joints (checkJoints) and  *)
(* the two files of an output directory (prepareRobot), with failures and  *)
(* deaths between any two system calls and several runs of simkit that     *)
(* were given one output directory.                                        *)
(*                                                                         *)
(* A model is its joint elements, in the order of the document, and        *)
(* whether the rest of it is sound: XML, root element, meshes and the      *)
(* controller's configuration.  Both files a run writes are functions of   *)
(* its input; a file here is whose it is and whether all of it is there.   *)
(***************************************************************************)
EXTENDS Naturals, Sequences, FiniteSets

CONSTANTS
  JointOrder,  \* the names of the twelve joints, in the order of the wire
  NoLimit,     \* a joint without a limit element
  NotANumber,  \* what ParseFloat refuses, NaN and the infinities
  Model,       \* the models in the repository
  Preparer,    \* the runs of simkit
  NoFile       \* nothing under this name

Wire == DOMAIN JointOrder

ASSUME RobotAssumption ==
  /\ Len(JointOrder) \in Nat /\ Wire = 1 .. Len(JointOrder)
  /\ \A i, j \in Wire : JointOrder[i] = JointOrder[j] => i = j
  /\ \A m \in Model :
       /\ m.sound \in BOOLEAN
       /\ Len(m.joints) \in Nat /\ DOMAIN m.joints = 1 .. Len(m.joints)
  /\ NoFile \notin [by : Preparer, whole : BOOLEAN]
-----------------------------------------------------------------------------
(***************************************************************************)
(* checkJoints.                                                            *)
(***************************************************************************)

Moving(joints) == {i \in DOMAIN joints : joints[i].type # "fixed"}
Named(joints, name) == {i \in Moving(joints) : joints[i].name = name}

GoodLimit(limit) ==
  /\ limit # NoLimit
  /\ NotANumber \notin {limit.lower, limit.upper, limit.effort, limit.velocity}
  /\ limit.lower < limit.upper /\ limit.effort > 0 /\ limit.velocity > 0

\* Mutant: a second joint of a name takes the place of the first.
JointsFitOverwriting(joints) ==
  /\ Cardinality({joints[i].name : i \in Moving(joints)}) = Len(JointOrder)
  /\ \A slot \in Wire : \E i \in Named(joints, JointOrder[slot]) :
       joints[i].type = "revolute" /\ GoodLimit(joints[i].limit)

\* No name twice, as many as there are names, and each of the names.
JointsFit(joints) ==
  /\ \A i, j \in Moving(joints) : joints[i].name = joints[j].name => i = j
  /\ Cardinality({joints[i].name : i \in Moving(joints)}) = Len(JointOrder)
  /\ \A slot \in Wire : \E i \in Named(joints, JointOrder[slot]) :
       joints[i].type = "revolute" /\ GoodLimit(joints[i].limit)

\* The contract's joints, by their index on the wire.
Contracts(joints) ==
  [slot \in Wire |->
     [name |-> JointOrder[slot],
      limit |-> joints[CHOOSE i \in Named(joints, JointOrder[slot]) : TRUE].limit]]
-----------------------------------------------------------------------------
VARIABLES
  model,      \* the model that all runs read
  preparer,   \* where each of them is in prepareRobot
  directory,  \* the output directory exists
  urdf,       \* robot.urdf in it
  contract    \* contract.json in it

rvars == <<model, preparer, directory, urdf, contract>>

Ended == {"done", "failed", "dead"}

RInit ==
  /\ model \in Model
  /\ preparer = [p \in Preparer |-> "check"]
  /\ directory = FALSE /\ urdf = NoFile /\ contract = NoFile

At(p, place) == preparer[p] = place
Move(p, place) == preparer' = [preparer EXCEPT ![p] = place]

\* Everything before the directory; nothing is written yet.
CheckModel(p) ==
  /\ At(p, "check")
  /\ Move(p, IF model.sound /\ JointsFit(model.joints) THEN "mkdir" ELSE "failed")
  /\ UNCHANGED <<model, directory, urdf, contract>>

\* Mutant: a directory that exists will do.
MakeOutputAnyway(p) ==
  /\ At(p, "mkdir")
  /\ directory' = TRUE /\ Move(p, "create urdf")
  /\ UNCHANGED <<model, urdf, contract>>

\* Mkdir is exclusive; it may fail for other reasons, too.
MakeOutput(p) ==
  /\ At(p, "mkdir")
  /\ \/ ~directory /\ directory' = TRUE /\ Move(p, "create urdf")
     \/ Move(p, "failed") /\ UNCHANGED directory
  /\ UNCHANGED <<model, urdf, contract>>

\* os.WriteFile, twice: the file is created or emptied, written, closed.
New(p) == [by |-> p, whole |-> FALSE]
Whole(p) == [by |-> p, whole |-> TRUE]

CreateUrdf(p) ==
  /\ At(p, "create urdf")
  /\ \/ urdf' = New(p) /\ Move(p, "write urdf")
     \/ Move(p, "failed") /\ UNCHANGED urdf
  /\ UNCHANGED <<model, directory, contract>>

WriteUrdf(p) ==
  /\ At(p, "write urdf")
  /\ \/ urdf' = Whole(p) /\ Move(p, "create contract")
     \/ Move(p, "failed") /\ UNCHANGED urdf
  /\ UNCHANGED <<model, directory, contract>>

CreateContract(p) ==
  /\ At(p, "create contract")
  /\ \/ contract' = New(p) /\ Move(p, "write contract")
     \/ Move(p, "failed") /\ UNCHANGED contract
  /\ UNCHANGED <<model, directory, urdf>>

WriteContract(p) ==
  /\ At(p, "write contract")
  /\ \/ contract' = Whole(p) /\ Move(p, "done")
     \/ Move(p, "failed") /\ UNCHANGED contract
  /\ UNCHANGED <<model, directory, urdf>>

KillPreparer(p) ==
  /\ preparer[p] \notin Ended /\ Move(p, "dead")
  /\ UNCHANGED <<model, directory, urdf, contract>>

RNext ==
  \E p \in Preparer :
    \/ CheckModel(p) \/ MakeOutput(p)
    \/ CreateUrdf(p) \/ WriteUrdf(p) \/ CreateContract(p) \/ WriteContract(p)
    \/ KillPreparer(p)

RSpec == RInit /\ [][RNext]_rvars
-----------------------------------------------------------------------------
\* A contract, even the beginning of one, is only beside the whole model of the
\* run that wrote it, whose hash it gives; a run that reports success has left
\* both, however many runs there were and wherever they failed or died.
ContractVouches ==
  /\ contract # NoFile => urdf # NoFile /\ urdf.whole /\ urdf.by = contract.by
  /\ \A p \in Preparer :
       preparer[p] = "done" => contract # NoFile /\ contract.whole /\ contract.by = p

\* Each joint that moves in a prepared model has one place on the wire, with
\* its own limits, and each place has one joint: the frames of twelve motors
\* leave none uncontrolled and command none twice.
Covered(joints) ==
  /\ Cardinality(Moving(joints)) = Len(JointOrder)
  /\ \A i \in Moving(joints) : \E slot \in Wire :
       Contracts(joints)[slot] = [name |-> joints[i].name, limit |-> joints[i].limit]
  /\ \A slot \in Wire : GoodLimit(Contracts(joints)[slot].limit)

ContractCoversJoints == contract # NoFile => Covered(model.joints)
-----------------------------------------------------------------------------
(***************************************************************************)
(* What makes the invariants inductive: the run that made the directory    *)
(* and what it has written so far.                                         *)
(***************************************************************************)

Inside == {"create urdf", "write urdf", "create contract", "write contract", "done"}

RobotTypeOK ==
  /\ model \in Model
  /\ preparer \in [Preparer -> {"check", "mkdir"} \cup Inside \cup Ended]
  /\ directory \in BOOLEAN
  /\ {urdf, contract} \subseteq [by : Preparer, whole : BOOLEAN] \cup {NoFile}

Written(p) ==
  /\ At(p, "create urdf") => urdf = NoFile /\ contract = NoFile
  /\ At(p, "write urdf") => urdf = New(p) /\ contract = NoFile
  /\ At(p, "create contract") => urdf = Whole(p) /\ contract = NoFile
  /\ At(p, "write contract") => urdf = Whole(p) /\ contract = New(p)
  /\ At(p, "done") => urdf = Whole(p) /\ contract = Whole(p)

OneMaker ==
  /\ ~directory => urdf = NoFile /\ contract = NoFile
  /\ \A p \in Preparer : preparer[p] \in Inside => directory /\ Written(p)
  /\ \A p, q \in Preparer : preparer[p] \in Inside /\ preparer[q] \in Inside => p = q

OnlyFitting ==
  /\ \A p \in Preparer :
       preparer[p] \in {"mkdir"} \cup Inside => JointsFit(model.joints)
  /\ contract # NoFile => JointsFit(model.joints)

RobotInv == RobotTypeOK /\ OneMaker /\ OnlyFitting /\ ContractVouches
=============================================================================
