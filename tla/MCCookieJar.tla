---------------------------- MODULE MCCookieJar ----------------------------
(* Small instances of CookieJar. *)
EXTENDS CookieJar, TLC

CONSTANTS cflb, oailb, v1, v2

MCSymmetry == Permutations(Values)
=============================================================================
