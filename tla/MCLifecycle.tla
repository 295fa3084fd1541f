---------------------------- MODULE MCLifecycle ----------------------------
(* Small instances of Lifecycle for TLC: requests that share a key and one *)
(* that does not.                                                          *)
EXTENDS Lifecycle, TLC

CONSTANTS r1, r2, r3, k1, k2

(* r1 and r2 ask for the same key, r3 (when there) for the other. *)
MCKeyOf == [q \in Requests |-> IF q = r3 THEN k2 ELSE k1]

(* Requests for the same key are interchangeable, and so are goroutines. *)
MCSymmetry == Permutations({r1, r2}) \cup Permutations(Workers)
=============================================================================
