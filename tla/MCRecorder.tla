----------------------------- MODULE MCRecorder -----------------------------
(***************************************************************************)
(* Small instances of Recorder.                                            *)
(***************************************************************************)
EXTENDS Recorder

\* Three commits, so that one can be overwritten unseen, beside a partition
\* with two.
MCMaxRevision == [s \in Slot |-> IF s = 0 THEN 6 ELSE 4]
=============================================================================
