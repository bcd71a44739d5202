----------------------------- MODULE MCRelayLoop -----------------------------
(***************************************************************************)
(* Small instances of RelayLoop.                                           *)
(***************************************************************************)
EXTENDS RelayLoop

CONSTANTS guide, controller

MCPlays == [c \in Client |-> IF c = guide THEN Guide ELSE Controller]

\* The guide sends two commands, so that its second one meets the full queue
\* of a controller that does not read.
MCTraffic == [c \in Client |-> IF c = guide THEN 2 ELSE 0]
MCSilence == [c \in Client |-> 0]
=============================================================================
