------------------------------- MODULE Simkit -------------------------------
(***************************************************************************)
(* The commands of simkit, as cli dispatches them: run and the backend     *)
(* commands, which start a workload (Supervisor), and those that work on   *)
(* files alone, analyze (Archive) and prepare-robot (RobotPreparation).    *)
(***************************************************************************)
EXTENDS Supervisor, Archive, RobotPreparation

VARIABLE command   \* "supervise" stands for run and the backend commands

cvars == <<vars, avars, rvars, command>>

\* What the command at work does not read may be anything; it is one thing
\* here, lest the behaviours of the others be counted many times.
UnusedRun == job = (CHOOSE j \in Job : TRUE) /\ terminal = "none"
UnusedFiles ==
  file = (CHOOSE f \in File : TRUE) /\ sidecar = CHOOSE m \in Beside(file) : TRUE
UnusedModel == model = CHOOSE m \in Model : TRUE

CInit ==
  /\ \/ command = "supervise" /\ UnusedFiles /\ UnusedModel
     \/ command = "analyze" /\ UnusedRun /\ UnusedModel
     \/ command = "prepare-robot" /\ UnusedRun /\ UnusedFiles
  /\ Init /\ AInit /\ RInit

CNext ==
  \/ command = "supervise" /\ Next /\ UNCHANGED <<avars, rvars, command>>
  \/ command = "analyze" /\ ANext /\ UNCHANGED <<vars, rvars, command>>
  \/ command = "prepare-robot" /\ RNext /\ UNCHANGED <<vars, avars, command>>

CSpec == CInit /\ [][CNext]_cvars

Supervised(A) == command = "supervise" /\ A /\ UNCHANGED <<avars, rvars, command>>

\* Under run and the backend commands simkit and its goroutine are scheduled,
\* the backend's initialisation ends, the timer runs, and SIGKILL arrives.
CFairSpec ==
  /\ CSpec
  /\ WF_cvars(Supervised(SimkitStep)) /\ WF_cvars(Supervised(Wait))
  /\ WF_cvars(Supervised(FireTimer))
  /\ \A p \in Process : WF_cvars(Supervised(Die(p)))
=============================================================================
