------------------------------ MODULE Supervisor ------------------------------
(***************************************************************************)
(* simkit run and simkit inspect, record and verify: one invocation that   *)
(* makes a directory with an initialised board (run only), starts the      *)
(* workload in a process group of its own, hands it the terminal, forwards *)
(* a signal, kills what is left of the group and cleans up                 *)
(* (cli, runWithBoard and supervise in simkit's main.go).                  *)
(*                                                                         *)
(* The processes of the workload stay in their group, as supervise asks of *)
(* them.  They may fork, exit, be suspended and ignore every signal but    *)
(* SIGKILL, which the kernel delivers some time after kill has returned.   *)
(***************************************************************************)
EXTENDS Adapter, Naturals

CONSTANTS
  Process,     \* the processes the group may have
  leader,      \* the one that simkit starts
  Board,       \* the path of this run's board
  Job,         \* command lines: command, adapter, profile and ambient environment
  Nothing,     \* no command line any more, no environment yet
  ExitCode     \* what a process may exit with

Commands == {"run", "backend"}

ASSUME SupervisorAssumption ==
  /\ leader \in Process
  /\ ExitCode \subseteq 0 .. 255
  /\ Nothing \notin Job
  /\ \A job \in Job : job.command \in Commands

VARIABLES
  pc,         \* where simkit is
  job,        \* the command line
  files,      \* what exists of the run's directory and the board in it
  env,        \* the environment of the workload, once it is known
  process,    \* the state of each process of the group
  doomed,     \* those that SIGKILL has been sent to
  fate,       \* how the leader ended: its exit code, or by a signal
  listening,  \* signal.Notify is in force for SIGINT and SIGTERM
  signals,    \* how many of them are in the channel
  forwarded,  \* signals that supervise has taken from the channel
  timer,      \* the three seconds after the first signal
  done,       \* the channel that takes the result of cmd.Wait
  terminal,   \* the group in the terminal's foreground, if stdin is one
  ttou,       \* SIGTTOU is ignored
  status      \* what simkit will exit with

ambient == <<job, files, env>>
group == <<process, doomed, fate>>
inbox == <<listening, signals, forwarded, timer>>
tty == <<terminal, ttou>>
vars == <<pc, ambient, group, inbox, done, tty, status>>

BySignal == 256    \* how a process may end that leaves no exit code
NoResult == 257    \* it has not ended
SignalLimit == 2   \* the channel's capacity
Failure == 1       \* main's exit code for every error without one of its own

Alive == {p \in Process : process[p] \in {"running", "suspended"}}
Gone == {"exited", "unremoved"}
Over == Gone \cup {"signalled", "killed"}
-----------------------------------------------------------------------------
Init ==
  /\ pc = "cli" /\ job \in Job
  /\ files = {} /\ env = Nothing
  /\ process = [p \in Process |-> "unborn"] /\ doomed = {} /\ fate = NoResult
  /\ listening = FALSE /\ signals = 0 /\ forwarded = 0 /\ timer = "off"
  /\ done = NoResult
  /\ terminal \in {"none", "shell"} /\ ttou = FALSE
  /\ status = Failure
-----------------------------------------------------------------------------
(***************************************************************************)
(* cli and runWithBoard.                                                   *)
(***************************************************************************)

\* cli refuses an adapter that does not load, a backend that is not there and
\* a profile that the adapter does not have.
Cli(backendFound) ==
  /\ pc = "cli"
  /\ pc' = IF /\ Loads(job.adapter) /\ backendFound
              /\ job.profile \in DOMAIN job.adapter.profiles
           THEN IF job.command = "run" THEN "mkdir" ELSE "listen"
           ELSE "exited"
  /\ UNCHANGED <<ambient, group, inbox, done, tty, status>>

MakeDirectory(ok) ==
  /\ pc = "mkdir"
  /\ files' = IF ok THEN {"directory"} ELSE {}
  /\ pc' = IF ok THEN "init" ELSE "exited"
  /\ UNCHANGED <<job, env, group, inbox, done, tty, status>>

\* The backend initialises the board, or fails and leaves none or, if it cannot
\* be removed, a part (BoardFile); then environment.  The backend is in simkit's
\* own group.
InitBoard(ok) ==
  /\ pc = "init"
  /\ IF ok
     THEN /\ files' = files \cup {"state"}
          /\ env' = Environment(job.adapter, job.base, job.profile, Board)
          /\ pc' = "listen"
     ELSE /\ files' \in {files, files \cup {"state"}}
          /\ pc' = "remove" /\ UNCHANGED env
  /\ UNCHANGED <<job, group, inbox, done, tty, status>>

\* The deferred RemoveAll, whose error nobody looks at, and main's exit; what
\* cannot be removed keeps its directory.
Remove ==
  /\ pc = "remove"
  /\ \/ files' = {} /\ pc' = "exited"
     \/ /\ files' \in SUBSET files /\ "directory" \in files'
        /\ pc' = "unremoved"
  /\ UNCHANGED <<job, env, group, inbox, done, tty, status>>
-----------------------------------------------------------------------------
(***************************************************************************)
(* supervise.                                                              *)
(***************************************************************************)

\* Mutant: SIGTTOU keeps its default.
ListenOnly ==
  /\ pc = "listen"
  /\ listening' = TRUE
  /\ pc' = "start"
  /\ UNCHANGED <<ambient, group, signals, forwarded, timer, done, tty, status>>

\* signal.Notify, and signal.Ignore if stdin is the terminal.
Listen ==
  /\ pc = "listen"
  /\ listening' = TRUE
  /\ ttou' = (terminal # "none")
  /\ pc' = "start"
  /\ UNCHANGED <<ambient, group, signals, forwarded, timer, done, terminal, status>>

\* cmd.Start: the child makes its group, puts it into the foreground and
\* becomes the workload; it may fail before and after the second.
Start ==
  /\ pc = "start"
  /\ job' = Nothing
  /\ \/ /\ process' = [process EXCEPT ![leader] = "running"]
        /\ terminal' = IF terminal = "none" THEN "none" ELSE "workload"
        /\ pc' = "select"
     \/ /\ terminal' \in {terminal, IF terminal = "none" THEN "none" ELSE "workload"}
        /\ pc' = "restore"
        /\ UNCHANGED process
  /\ UNCHANGED <<files, env, doomed, fate, inbox, done, ttou, status>>

\* cmd.Wait in its goroutine.
Wait ==
  /\ pc \in {"select", "grace", "reap"}
  /\ process[leader] = "exited" /\ done = NoResult
  /\ done' = fate
  /\ UNCHANGED <<pc, ambient, group, inbox, tty, status>>

ExitStatus(result) == IF result = BySignal THEN Failure ELSE result

\* Each of the three receives of supervise that take the result.
TakeDone ==
  /\ pc \in {"select", "grace", "reap"} /\ done # NoResult
  /\ status' = ExitStatus(done)
  /\ timer' = "off"
  /\ pc' = "kill"
  /\ UNCHANGED <<ambient, group, listening, signals, forwarded, done, tty>>

\* The first signal goes to the group, whose processes may heed it or not.
Forward ==
  /\ pc = "select" /\ signals > 0
  /\ signals' = signals - 1 /\ forwarded' = forwarded + 1
  /\ timer' = "running"
  /\ pc' = "grace"
  /\ UNCHANGED <<ambient, group, listening, done, tty, status>>

\* Mutants: a second signal is forwarded like the first; the result is not
\* waited for.
InsistAsking ==
  /\ pc = "grace"
  /\ \/ timer = "fired" /\ UNCHANGED <<signals, forwarded>>
     \/ signals > 0 /\ signals' = signals - 1 /\ forwarded' = forwarded + 1
  /\ pc' = "reap"
  /\ UNCHANGED <<ambient, group, listening, timer, done, tty, status>>

InsistAndReturn ==
  /\ pc = "grace"
  /\ \/ timer = "fired" /\ UNCHANGED <<signals, forwarded>>
     \/ signals > 0 /\ signals' = signals - 1 /\ forwarded' = forwarded + 1
  /\ doomed' = doomed \cup Alive
  /\ pc' = "kill"
  /\ UNCHANGED <<ambient, process, fate, listening, timer, done, tty, status>>

\* The timer or a second signal: SIGKILL for the group.
Insist ==
  /\ pc = "grace"
  /\ \/ timer = "fired" /\ UNCHANGED <<signals, forwarded>>
     \/ signals > 0 /\ signals' = signals - 1 /\ forwarded' = forwarded + 1
  /\ doomed' = doomed \cup Alive
  /\ pc' = "reap"
  /\ UNCHANGED <<ambient, process, fate, listening, timer, done, tty, status>>

\* Mutant: only the leader is killed.
KillLeader ==
  /\ pc = "kill"
  /\ doomed' = doomed \cup (Alive \cap {leader})
  /\ pc' = "restore"
  /\ UNCHANGED <<ambient, process, fate, inbox, done, tty, status>>

\* The deferred calls, in their order: SIGKILL for what is left of the group,
KillGroup ==
  /\ pc = "kill"
  /\ doomed' = doomed \cup Alive
  /\ pc' = "restore"
  /\ UNCHANGED <<ambient, process, fate, inbox, done, tty, status>>

\* the terminal for the group that had it, which stops a caller outside the
\* foreground unless it ignores SIGTTOU,
RestoreTerminal ==
  /\ pc = "restore"
  /\ IF terminal = "workload" /\ ~ttou
     THEN pc' = "stopped" /\ UNCHANGED terminal
     ELSE /\ pc' = "unsubscribe"
          /\ terminal' = IF terminal = "none" THEN "none" ELSE "shell"
  /\ UNCHANGED <<ambient, group, inbox, done, ttou, status>>

\* signal.Reset and signal.Stop.
Unsubscribe ==
  /\ pc = "unsubscribe"
  /\ ttou' = FALSE /\ listening' = FALSE
  /\ pc' = "remove"
  /\ UNCHANGED <<ambient, group, signals, forwarded, timer, done, terminal, status>>

SimkitStep ==
  \/ \E ok \in BOOLEAN : Cli(ok) \/ MakeDirectory(ok) \/ InitBoard(ok)
  \/ Remove \/ Listen \/ Start
  \/ TakeDone \/ Forward \/ Insist
  \/ KillGroup \/ RestoreTerminal \/ Unsubscribe
-----------------------------------------------------------------------------
(***************************************************************************)
(* The kernel, the user and the workload.                                  *)
(***************************************************************************)

FireTimer ==
  /\ timer = "running" /\ pc = "grace"
  /\ timer' = "fired"
  /\ UNCHANGED <<pc, ambient, group, listening, signals, forwarded, done, tty, status>>

\* SIGINT or SIGTERM for simkit: into the channel, unless that is full, or the
\* end of simkit while nobody listens.
Signal ==
  /\ pc \notin Over
  /\ IF listening
     THEN /\ signals' = IF signals < SignalLimit THEN signals + 1 ELSE signals
          /\ UNCHANGED pc
     ELSE pc' = "signalled" /\ UNCHANGED signals
  /\ UNCHANGED <<ambient, group, listening, forwarded, timer, done, tty, status>>

\* SIGHUP, which simkit does not listen for; SIGKILL.
Hangup ==
  /\ pc \notin Over /\ pc' = "signalled"
  /\ UNCHANGED <<ambient, group, inbox, done, tty, status>>
Kill ==
  /\ pc \notin Over /\ pc' = "killed"
  /\ UNCHANGED <<ambient, group, inbox, done, tty, status>>

\* What the processes do by themselves; SIGKILL interrupts a fork.
Fork(p, child) ==
  /\ process[p] = "running" /\ p \notin doomed /\ process[child] = "unborn"
  /\ process' = [process EXCEPT ![child] = "running"]
  /\ UNCHANGED <<pc, ambient, doomed, fate, inbox, done, tty, status>>

End(p, result) ==
  /\ process' = [process EXCEPT ![p] = "exited"]
  /\ fate' = IF p = leader THEN result ELSE fate
  /\ UNCHANGED <<pc, ambient, doomed, inbox, done, tty, status>>

Exit(p) == process[p] = "running" /\ \E result \in ExitCode \cup {BySignal} : End(p, result)
Die(p) == p \in doomed \cap Alive /\ End(p, BySignal)

\* Ctrl-Z at the workload's terminal, and SIGCONT.
Suspend ==
  /\ terminal = "workload" /\ Alive # {}
  /\ process' = [p \in Process |-> IF p \in Alive THEN "suspended" ELSE process[p]]
  /\ UNCHANGED <<pc, ambient, doomed, fate, inbox, done, tty, status>>
Resume ==
  /\ \E p \in Process : process[p] = "suspended"
  /\ process' = [p \in Process |-> IF p \in Alive THEN "running" ELSE process[p]]
  /\ UNCHANGED <<pc, ambient, doomed, fate, inbox, done, tty, status>>

Next ==
  \/ SimkitStep \/ Wait
  \/ FireTimer \/ Signal \/ Hangup \/ Kill
  \/ \E p, child \in Process : Fork(p, child)
  \/ \E p \in Process : Exit(p) \/ Die(p)
  \/ Suspend \/ Resume

Spec == Init /\ [][Next]_vars
-----------------------------------------------------------------------------
(***************************************************************************)
(* Properties.                                                             *)
(***************************************************************************)

\* A process of a run's workload has its board until SIGKILL is on its way to
\* it: the board is there before the leader starts, every process that may be
\* left is killed before the directory goes, whatever ended the run, and a
\* simkit that is killed leaves both alone.
BoardOutlivesWorkload ==
  env # Nothing => (Alive \subseteq doomed \/ files = {"directory", "state"})

\* When simkit exits by itself, by any of its paths, nothing is left behind:
\* no terminal in a foreign group, no process without SIGKILL on its way, and
\* no directory but one that RemoveAll could not remove.
ExitIsClean ==
  /\ pc # "stopped"
  /\ pc \in Gone => terminal # "workload" /\ Alive \subseteq doomed
  /\ pc = "exited" => files = {}

\* simkit's exit status is the leader's, whichever of the timer, a second
\* signal and the leader's end came first, and never success without a leader
\* that succeeded.
StatusIsTheLeaders ==
  pc \in Gone => status = IF fate = NoResult THEN Failure ELSE ExitStatus(fate)

\* As long as the leader has not been waited for, SIGKILL comes only after a
\* signal that it could heed, and three seconds or a second signal.
GraceBeforeKill ==
  (doomed # {} /\ done = NoResult /\ pc \in {"select", "grace", "reap"}) =>
     forwarded = 2 \/ (forwarded = 1 /\ timer = "fired")

\* Whatever the ambient environment says of the names that any profile of the
\* adapter manages, the workload's environment is the same; it has this run's
\* board, and all that the selected profile says.
EnvironmentIsTheProfiles ==
  (job # Nothing /\ env # Nothing) =>
    LET a == job.adapter
        selected == a.profiles[job.profile]
        Unmanaged(base) == {<<key, base[key]>> : key \in DOMAIN base \ Managed(a)}
    IN  /\ env[a.boardEnv] = Board
        /\ \A key \in DOMAIN selected : env[key] = selected[key]
        /\ \A base \in {other.base : other \in Job} :
             Unmanaged(base) = Unmanaged(job.base) =>
               env = Environment(a, base, job.profile, Board)

\* A run comes to its end once its leader has ended or a signal has been
\* queued, whatever the workload ignores and even if it is suspended.
RunEnds == (fate # NoResult \/ signals > 0) ~> pc \in Over

\* What README.en.md says of a run, "clean up on exit", for every end but
\* SIGKILL, which no program can clean up after.
CleansUpOnExit == pc \in {"exited", "signalled"} => files = {}
-----------------------------------------------------------------------------
(***************************************************************************)
(* What makes the invariants inductive: what is known at each place.       *)
(***************************************************************************)

Before == {"cli", "mkdir", "init", "listen", "start"}
During == {"select", "grace", "reap"}
After == {"restore", "unsubscribe", "remove"} \cup Gone

SupervisorTypeOK ==
  /\ pc \in Before \cup During \cup {"kill"} \cup After \cup Over
  /\ process \in [Process -> {"unborn", "running", "suspended", "exited"}]
  /\ doomed \subseteq Process
  /\ fate \in ExitCode \cup {BySignal, NoResult}
  /\ terminal \in {"none", "shell", "workload"}

\* The directory is there from InitBoard to Remove, the terminal is not the
\* workload's before Start and after RestoreTerminal.
Possessions ==
  /\ pc \in {"cli", "mkdir", "exited"} => files = {}
  /\ pc = "init" => files = {"directory"}
  /\ pc \in {"cli", "mkdir", "init"} => env = Nothing
  /\ env # Nothing /\ pc \notin Gone => files = {"directory", "state"}
  /\ pc \in {"start", "kill", "restore"} \cup During => (ttou <=> terminal # "none")
  /\ terminal = "workload" => pc \in {"kill", "restore", "signalled", "killed"} \cup During

\* The leader is the first process, and it is waited for once.
Workload ==
  /\ pc \in Before => \A p \in Process : process[p] = "unborn"
  /\ process[leader] = "unborn" => \A p \in Process : process[p] = "unborn"
  /\ process[leader] = "exited" <=> fate # NoResult
  /\ pc \in During => process[leader] # "unborn"
  /\ pc = "kill" => process[leader] = "exited"
  /\ pc \in After => process[leader] \in {"unborn", "exited"}
  /\ done # NoResult => done = fate
  /\ pc \in After => Alive \subseteq doomed

Result ==
  /\ pc \in Before \cup During => status = Failure
  /\ pc = "kill" => status = ExitStatus(fate)
  /\ pc \in After => status = IF fate = NoResult THEN Failure ELSE ExitStatus(fate)

Grace ==
  /\ pc \in Before \cup {"select"} => doomed = {} /\ forwarded = 0
  /\ pc = "grace" => doomed = {} /\ forwarded = 1
  /\ pc = "reap" => forwarded = 2 \/ (forwarded = 1 /\ timer = "fired")

\* For EnvironmentIsTheProfiles: an environment is made of an adapter that
\* loads and a profile that it has.
EnvironmentInv ==
  LET a == job.adapter
      Known == Loads(a) /\ job.profile \in DOMAIN a.profiles
  IN  /\ pc \in {"mkdir", "init"} => Known
      /\ (job # Nothing /\ env # Nothing) =>
           Known /\ env = Environment(a, job.base, job.profile, Board)

SupervisorInv == SupervisorTypeOK /\ Possessions /\ Workload /\ Result /\ Grace
=============================================================================
