---------------------------- MODULE MCStatusPage ----------------------------
EXTENDS StatusPage, TLC
MCAlias(a) == <<a>>
Symmetry == Permutations(Accounts)
=============================================================================
