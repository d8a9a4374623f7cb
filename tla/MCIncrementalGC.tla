--------------------------- MODULE MCIncrementalGC ---------------------------
(***************************************************************************)
(* Instances of IncrementalGC for TLC.                                     *)
(***************************************************************************)
EXTENDS IncrementalGC, TLC

CONSTANTS main, reg, co, a, b, s

\* a and b are alike when neither has a role of its own in the configuration
Symmetry == Permutations({a, b})
=============================================================================
