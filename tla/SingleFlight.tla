---------------------------- MODULE SingleFlight ----------------------------
(***************************************************************************)
(* What ensureDemandProbe promises to the requests that call it, without   *)
(* saying how: requests for the same key share one flight, a flight lands  *)
(* exactly once, and whoever is aboard when it lands is let go.  There is  *)
(* no queue, no worker, no configuration here; Lifecycle implements this.  *)
(***************************************************************************)

CONSTANTS Requests,   \* the calls of ensureDemandProbe
          Keys,       \* the (account, model) pairs
          KeyOf,      \* the key each request asks for
          None        \* no flight; not a request

VARIABLES stage,    \* stage[q]: "new", "aboard" or "left"
          boarded,  \* boarded[q]: the flight q shares, None before
          flight,   \* flight[k]: the flight under way for k, None if there is none
          landed    \* the flights that are over

vars == <<stage, boarded, flight, landed>>

Init ==
    /\ stage = [q \in Requests |-> "new"]
    /\ boarded = [q \in Requests |-> None]
    /\ flight = [k \in Keys |-> None]
    /\ landed = {}

-----------------------------------------------------------------------------
(* A request goes its way without a probe. *)
Decline(q) ==
    /\ stage[q] = "new"
    /\ stage' = [stage EXCEPT ![q] = "left"]
    /\ UNCHANGED <<boarded, flight, landed>>

(* A request whose key has no flight starts one, named after itself.  It   *)
(* stays aboard, or leaves at once when it has no time to wait.            *)
Launch(q) ==
    /\ stage[q] = "new"
    /\ flight[KeyOf[q]] = None
    /\ flight' = [flight EXCEPT ![KeyOf[q]] = q]
    /\ boarded' = [boarded EXCEPT ![q] = q]
    /\ \E s \in {"aboard", "left"} : stage' = [stage EXCEPT ![q] = s]
    /\ UNCHANGED landed

(* A request whose key has a flight shares it. *)
Join(q) ==
    /\ stage[q] = "new"
    /\ flight[KeyOf[q]] # None
    /\ boarded' = [boarded EXCEPT ![q] = flight[KeyOf[q]]]
    /\ \E s \in {"aboard", "left"} : stage' = [stage EXCEPT ![q] = s]
    /\ UNCHANGED <<flight, landed>>

(* A flight is over: for good, so it must not have been over before. *)
Land(k) ==
    /\ flight[k] # None
    /\ flight[k] \notin landed
    /\ landed' = landed \cup {flight[k]}
    /\ flight' = [flight EXCEPT ![k] = None]
    /\ UNCHANGED <<stage, boarded>>

(* A request gets off when its flight has landed ... *)
Alight(q) ==
    /\ stage[q] = "aboard"
    /\ boarded[q] \in landed
    /\ stage' = [stage EXCEPT ![q] = "left"]
    /\ UNCHANGED <<boarded, flight, landed>>

(* ... or when its own patience ends. *)
GiveUp(q) ==
    /\ stage[q] = "aboard"
    /\ stage' = [stage EXCEPT ![q] = "left"]
    /\ UNCHANGED <<boarded, flight, landed>>

Next ==
    \/ \E q \in Requests : \/ Decline(q) \/ Launch(q) \/ Join(q)
                           \/ Alight(q) \/ GiveUp(q)
    \/ \E k \in Keys : Land(k)

(* The part of the promise a theorem can be about ... *)
SafeSpec == Init /\ [][Next]_vars

(* ... and the whole of it: flights land, and those aboard get off. *)
Liveness ==
    /\ \A k \in Keys : WF_vars(Land(k))
    /\ \A q \in Requests : WF_vars(Alight(q))

Spec == SafeSpec /\ Liveness

=============================================================================
