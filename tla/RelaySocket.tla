----------------------------- MODULE RelaySocket -----------------------------
(***************************************************************************)
(* The path of the relay's socket (serve, before and after its loop): runs *)
(* of the relay that are given one path remove what is there, bind it, set *)
(* its mode, serve and remove it again, in any order and beside each       *)
(* other.  Any system call may fail, and a run may be killed anywhere: by  *)
(* SIGKILL, or by SIGINT and SIGTERM while it does not listen for them.    *)
(***************************************************************************)
CONSTANTS
  Run,      \* the runs of the relay that are given the path
  Nobody    \* no file at the path

ASSUME SocketAssumption == Nobody \notin Run

VARIABLES
  relay,    \* where serve is in each run
  socket,   \* the run whose socket the path leads to, open or not
  alone     \* history: the runs beside which no other one has been alive

svars == <<relay, socket, alone>>

Over == {"refused", "failed", "ended", "left", "killed"}
Alive(r) == relay[r] \notin {"new"} \cup Over

SInit ==
  /\ relay = [r \in Run |-> "new"]
  /\ socket = Nobody
  /\ alone = {}

Turn(r, place) == relay' = [relay EXCEPT ![r] = place]
-----------------------------------------------------------------------------
Start(r) ==
  /\ relay[r] = "new" /\ Turn(r, "remove")
  /\ alone' = IF \E other \in Run : Alive(other)
              THEN {q \in alone : ~Alive(q)} ELSE alone \cup {r}
  /\ UNCHANGED socket

\* Mutant: nothing is removed.
RemoveNone(r) == relay[r] = "remove" /\ Turn(r, "listen") /\ UNCHANGED <<socket, alone>>

\* Whatever is at the path, a socket in use included; a path without a file
\* will do as well.
RemoveOld(r) ==
  /\ relay[r] = "remove"
  /\ \/ socket' = Nobody /\ Turn(r, "listen")
     \/ Turn(r, "failed") /\ UNCHANGED socket
  /\ UNCHANGED alone

\* bind makes the file, and refuses a path that has one.
Bind(r) ==
  /\ relay[r] = "listen"
  /\ \/ socket = Nobody /\ socket' = r /\ Turn(r, "chmod")
     \/ socket # Nobody /\ Turn(r, "refused") /\ UNCHANGED socket
     \/ Turn(r, "failed") /\ UNCHANGED socket
  /\ UNCHANGED alone

\* Chmod goes by the path, too: it may find no file there, or another's.  The
\* deferred calls are in place.
Chmod(r) ==
  /\ relay[r] = "chmod"
  /\ \/ socket # Nobody /\ Turn(r, "serve")
     \/ Turn(r, "unlink")
  /\ UNCHANGED <<socket, alone>>

\* A signal, or an error of the socket; signal.Stop.
Leave(r) == relay[r] = "serve" /\ Turn(r, "unlink") /\ UNCHANGED <<socket, alone>>

\* The deferred os.Remove, again of whatever is at the path; nobody looks at
\* the result.
RemoveSocket(r) ==
  /\ relay[r] = "unlink"
  /\ \/ socket' = Nobody /\ Turn(r, "close")
     \/ Turn(r, "unremoved") /\ UNCHANGED socket
  /\ UNCHANGED alone

\* The deferred Close.
CloseSocket(r) ==
  /\ \/ relay[r] = "close" /\ Turn(r, "ended")
     \/ relay[r] = "unremoved" /\ Turn(r, "left")
  /\ UNCHANGED <<socket, alone>>

Kill(r) == Alive(r) /\ Turn(r, "killed") /\ UNCHANGED <<socket, alone>>

SNext ==
  \E r \in Run :
    \/ Start(r) \/ RemoveOld(r) \/ Bind(r) \/ Chmod(r)
    \/ Leave(r) \/ RemoveSocket(r) \/ CloseSocket(r) \/ Kill(r)

SSpec == SInit /\ [][SNext]_svars
-----------------------------------------------------------------------------
\* Who is at the path.  A run that ends by itself, after whichever failure but
\* that of its os.Remove, leaves no socket behind.  A run that is alone all its
\* life, whatever was killed or left before it, finds no path in use, and as
\* long as it serves it does so at the path.  Beside another run there is no
\* such promise: either may remove the other's socket while that one serves on
\* without an address.
PathLeadsToTheRelay ==
  /\ socket # Nobody =>
       relay[socket] \in {"chmod", "serve", "unlink", "unremoved", "left", "killed"}
  /\ \A r \in alone :
       /\ relay[r] # "refused"
       /\ relay[r] \in {"chmod", "serve"} => socket = r

\* What makes it inductive.
SocketTypeOK ==
  /\ relay \in [Run -> {"new", "remove", "listen", "chmod", "serve", "unlink", "unremoved",
                       "close"} \cup Over]
  /\ socket \in Run \cup {Nobody}
  /\ alone \subseteq Run

LeftAlone ==
  \A r \in alone :
    /\ relay[r] # "new"
    /\ Alive(r) => \A other \in Run : Alive(other) => other = r
    /\ relay[r] = "listen" => socket = Nobody

SocketInv == SocketTypeOK /\ PathLeadsToTheRelay /\ LeftAlone
=============================================================================
