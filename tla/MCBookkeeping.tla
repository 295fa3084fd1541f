--------------------------- MODULE MCBookkeeping ---------------------------
(* Small instances of Bookkeeping: two requests of one session, one of     *)
(* another.                                                                *)
EXTENDS Bookkeeping, TLC

CONSTANTS q1, q2, q3, s1, s2

MCSessionOf == [q \in Requests |-> IF q = q2 THEN s2 ELSE s1]

(* The two requests of one session may change places.                      *)
MCSymmetry == Permutations({q1, q3})
=============================================================================
