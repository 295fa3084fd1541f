--------------------------- MODULE MCUsageWindow ---------------------------
(* Small instances of UsageWindow for TLC. *)
EXTENDS UsageWindow, TLC

CONSTANTS h1, h2

MCSymmetry == Permutations({h1, h2}) \cup Permutations(Keys)
=============================================================================
