------------------------- MODULE MCSeqlockPartition -------------------------
(***************************************************************************)
(* A small instance of SeqlockPartition for TLC.                           *)
(***************************************************************************)
EXTENDS SeqlockPartition

CONSTANTS w1, w2, short, go, a, b

\* A C++ consumer whose buffer holds a single word, and a Go reader.
MCAvailable == [r \in Reader |-> IF r = short THEN 1 ELSE Capacity]
=============================================================================
