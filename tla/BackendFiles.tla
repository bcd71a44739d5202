---------------------------- MODULE BackendFiles ----------------------------
(***************************************************************************)
(* The files that runs of the backend binary make and others find at a     *)
(* path: a board (BoardFile, -init-board) and the relay's socket           *)
(* (RelaySocket), as main dispatches them.                                 *)
(***************************************************************************)
EXTENDS BoardFile, RelaySocket

VARIABLE flag   \* the flag that main found

fvars == <<vars, svars, flag>>

FInit == flag \in {"init-board", "socket"} /\ Init /\ SInit

FNext ==
  \/ flag = "init-board" /\ Next /\ UNCHANGED <<svars, flag>>
  \/ flag = "socket" /\ SNext /\ UNCHANGED <<vars, flag>>

FSpec == FInit /\ [][FNext]_fvars
=============================================================================
