---------------------------- MODULE MCProbeRound ----------------------------
(* Small instances of ProbeRound for TLC: two models of one account, and   *)
(* pools of one or two proxies with two attempts per route.                *)
EXTENDS ProbeRound, TLC

CONSTANTS m1, m2, a1

MCOwner == [k \in Keys |-> a1]

Base == [onDemand |-> TRUE, aware |-> TRUE, direct |-> TRUE, rotate |-> FALSE,
         pool |-> 2, backoff |-> 2]
MCConfigs == {Base, [Base EXCEPT !.backoff = 1],
              [Base EXCEPT !.onDemand = FALSE, !.aware = FALSE,
                           !.direct = FALSE, !.rotate = TRUE]}

MCSymmetry == Permutations({m1, m2})
=============================================================================
