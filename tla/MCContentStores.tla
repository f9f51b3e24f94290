--------------------------- MODULE MCContentStores ---------------------------
(***************************************************************************)
(* Values of the constants of ContentStores for TLC.                       *)
(***************************************************************************)
EXTENDS ContentStores, TLC

Symmetry == Permutations(Callers) \cup Permutations(FileIds) \cup Permutations(Contents)
===============================================================================
