----------------------------- MODULE MCHarvest -----------------------------
(* A small instance of Harvest for TLC: a request that fails over from one *)
(* account to another under the same request id, or is tried again on the  *)
(* first, a request whose response has an event too long to keep, and one  *)
(* without a request id.                                                   *)
EXTENDS Harvest

CONSTANTS r1, r2, r3, r4, r5, k1, k2, t1, t2, t3

Ev(kind, ticket) == [kind |-> kind, ticket |-> ticket]

MCRequestId == [r \in Responses |->
                  CASE r \in {r1, r2, r5} -> "a" [] r = r3 -> "b" [] OTHER -> Absent]
MCKeyOf == [r \in Responses |-> IF r \in {r1, r5} THEN k1 ELSE k2]
MCHeaderOf == [r \in Responses |->
                 CASE r = r1 -> t1 [] r = r2 -> t2 [] OTHER -> Absent]
MCScript == [r \in Responses |->
               CASE r = r1 -> <<Ev("failed", t3)>>
                 [] r = r5 -> <<Ev("completed", Absent)>>
                 [] r = r2 -> <<Ev("completed", Absent), Ev("plain", Absent)>>
                 [] r = r3 -> <<Ev("huge", t3), Ev("completed", Absent)>>
                 [] OTHER -> <<Ev("completed", t1)>>]
MCRetryOf == [r \in Responses |-> IF r = r5 THEN r1 ELSE Absent]

(* The hypotheses of the theorems hold here. *)
ASSUME MCHypotheses == OneVerdict /\ RetriesInTurn
=============================================================================
