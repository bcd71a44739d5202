--------------------------- MODULE MCBackendFiles ---------------------------
(***************************************************************************)
(* A small instance of BackendFiles: two initializers, three programs and  *)
(* two partitions around a board, or three relays on one path.             *)
(***************************************************************************)
EXTENDS BackendFiles, TLC

MCSymmetry ==
  Permutations(Initializer) \cup Permutations(Program) \cup Permutations(Slot)
=============================================================================
