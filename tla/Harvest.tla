------------------------------ MODULE Harvest ------------------------------
(***************************************************************************)
(* Harvesting tickets from production responses under require_completed    *)
(* (completion.go, called by intercept.go): the chunks of many responses   *)
(* arrive interleaved and cut anywhere; a ticket is a candidate until the  *)
(* response that carried it has completed.  Candidates live in a bounded   *)
(* table, go stale, and are dropped by a reconfiguration.                  *)
(*                                                                         *)
(* An event of a response arrives in two fragments, the second with its    *)
(* delimiter; the second alone is not an event the parser understands.     *)
(* The interceptor looks through each chunk for a ticket by itself before  *)
(* it hands the chunk on, and waits for no delimiter.                      *)
(* A host may try a request again under its id, on the same account or on  *)
(* another; an attempt on the same account meets the candidate of the one  *)
(* before.                                                                 *)
(***************************************************************************)
EXTENDS Naturals, Sequences, FiniteSetsExt

CONSTANTS Responses,
          RequestId,   \* of a response; Absent when the host gives none
          KeyOf,       \* its (account, model) pair
          HeaderOf,    \* the ticket in its headers, or Absent
          Script,      \* the events of its body
          Whole,       \* the responses that are not streamed
          RetryOf,     \* the attempt on the same account it comes after, or Absent
          Tickets,
          Capacity,    \* of the table (256)
          StaleAfter,  \* 2 minutes
          MaxChunk,    \* bound: fragments in a chunk
          MaxTime,     \* bound: the clock stops here
          Absent

Event == [kind : {"plain", "huge", "completed", "failed"},
          ticket : Tickets \cup {Absent}]

(* harvestKey *)
SlotOfKeyAlone(r) == <<Absent, KeyOf[r]>>
SlotOf(r) == <<RequestId[r], KeyOf[r]>>
Slots == {SlotOf(r) : r \in Responses}

(* harvestCandidate.  A fragment may wait for its delimiter, "glued" if    *)
(* it stands behind one of an earlier attempt.                             *)
Candidate == [state : Tickets \cup {Absent}, open : {"no", "yes", "glued"},
              updated : 1..MaxTime]

ASSUME HarvestAssumption ==
    /\ HeaderOf \in [Responses -> Tickets \cup {Absent}]
    /\ \A r \in Responses : Script[r] \in Seq(Event)
    /\ Whole \subseteq Responses
    /\ RetryOf \in [Responses -> Responses \cup {Absent}]
    /\ \A r \in Responses : RetryOf[r] # Absent =>
         RequestId[RetryOf[r]] = RequestId[r] /\ KeyOf[RetryOf[r]] = KeyOf[r]
    /\ Absent \notin Tickets \cup Candidate
    /\ Capacity \in Nat /\ StaleAfter \in Nat
    /\ MaxChunk \in Nat \ {0} /\ MaxTime \in Nat \ {0}

VARIABLES
    now,       \* nowFunc()
    pending,   \* r.harvestPending
    started,   \* the responses whose headers have arrived
    pos,       \* the fragments of each body that have arrived
    observed,  \* the tickets handed to observeState, with their response
    disturbed  \* ghost: the responses whose candidate was lost on the way

harvestVars == <<now, pending, started, pos, observed, disturbed>>

Size(r) == 2 * Len(Script[r])

HarvestTypeOK ==
    /\ now \in 1..MaxTime
    /\ pending \in [Slots -> Candidate \cup {Absent}]
    /\ started \subseteq Responses
    /\ \A r \in Responses : pos[r] \in 0..Size(r)
    /\ observed \subseteq Responses \X Tickets
    /\ disturbed \subseteq Responses

HarvestInit ==
    /\ now = 1
    /\ pending = [s \in Slots |-> Absent]
    /\ started = {}
    /\ pos = [r \in Responses |-> 0]
    /\ observed = {}
    /\ disturbed = {}

-----------------------------------------------------------------------------
Held == {s \in Slots : pending[s] # Absent}
StaleKeepsAll == {}
Stale == {s \in Held : now - pending[s].updated > StaleAfter}

(* The candidate a chunk adds to. *)
Found(r) ==
    IF SlotOf(r) \in Held \ Stale THEN pending[SlotOf(r)]
    ELSE [state |-> Absent, open |-> "no", updated |-> now]

(* The events the next n fragments of r bring to an end, and those of them *)
(* that may be read: the first fragment is here too, or was kept.          *)
Ended(r, n) == {i \in 1..Len(Script[r]) : 2 * i \in (pos[r] + 1)..(pos[r] + n)}
ReadTorn(r, n) == {i \in Ended(r, n) : 2 * i - 1 > pos[r]}
Read(r, n) ==
    {i \in Ended(r, n) : 2 * i - 1 > pos[r] \/ Found(r).open # "no"}

(* The event r is in, or begins, stands behind a fragment of the attempt   *)
(* before: it can be read or not, as that fragment was cut.                *)
Glued(r) ==
    \/ Found(r).open = "glued"
    \/ Found(r).open = "yes" /\ pos[r] % 2 = 0
Readings(r, n) ==
    {Read(r, n)} \cup
      IF Glued(r) THEN {Read(r, n) \ {pos[r] \div 2 + 1}} ELSE {}

Kinds(r, read) == {Script[r][i].kind : i \in read}
(* completionEvent *)
Succeeds(kinds) == "completed" \in kinds
Fails(kinds) == "failed" \in kinds

(* extractTurnStateFromChunk on the next n fragments of r: the first       *)
(* ticket in them.  An event that is in there whole is understood, one cut *)
(* short may or may not be, and behind a line too long nothing is sure.    *)
Begun(r, n) ==
    {i \in 1..Len(Script[r]) : 2 * i - 1 \in (pos[r] + 1)..(pos[r] + n)}
ExtractTurnState(r, n) ==
    LET with == {i \in Begun(r, n) : Script[r][i].ticket # Absent}
        sure == {i \in with \cap Ended(r, n) :
                   \A j \in Begun(r, n) : j <= i => Script[r][j].kind # "huge"}
    IN  {Script[r][i].ticket : i \in {i \in with : \A j \in sure : i <= j}}
          \cup {t \in {Absent} : sure = {}}

(* The last ticket read wins over the one the caller brings, that over the *)
(* one the candidate had.                                                  *)
LastTicket(r, read, state) ==
    LET with == {i \in read : Script[r][i].ticket # Absent}
    IN  IF with # {} THEN Script[r][Max(with)].ticket
        ELSE IF state # Absent THEN state ELSE Found(r).state

(* A fragment without its delimiter waits; more than a mebibyte of it does *)
(* not.                                                                    *)
Open(r, n) ==
    IF n = 0 THEN Found(r).open
    ELSE IF (pos[r] + n) % 2 = 0 THEN "no"
    ELSE IF Ended(r, n) = {} /\ Glued(r) THEN "glued" ELSE "yes"
Overrun(r, n) ==
    Open(r, n) # "no" /\ n > 0 /\ Script[r][(pos[r] + n + 1) \div 2].kind = "huge"

HasRoomFor(s) == Cardinality(Held \ (Stale \cup {s})) < Capacity

Untouched(r, n, last) == [state |-> last, open |-> Open(r, n), updated |-> 0]
Touched(r, n, last) == [state |-> last, open |-> Open(r, n), updated |-> now]

(* harvestCompleted, for a call that brings n fragments of r, in which the *)
(* events of read are understood, and the ticket its caller found or none. *)
HarvestCompleted(r, n, read, state) ==
    LET s == SlotOf(r)
        others == Held \ Stale
        kinds == Kinds(r, read)
        last == LastTicket(r, read, state)
        over == \/ Succeeds(kinds) \/ Fails(kinds) \/ Overrun(r, n)
                \/ RequestId[r] = Absent
        kept == ~over /\ (s \in others \/ HasRoomFor(s))
    IN  /\ pending' = [x \in Slots |->
              IF x = s
              THEN IF kept THEN Touched(r, n, last) ELSE Absent
              ELSE IF x \in others THEN pending[x] ELSE Absent]
        /\ observed' = IF Succeeds(kinds) /\ ~Fails(kinds) /\ last # Absent
                       THEN observed \cup {<<r, last>>} ELSE observed
        /\ disturbed' = disturbed
              \cup {x \in Responses : SlotOf(x) \in Stale}
              \cup IF (kept \/ Succeeds(kinds) \/ Fails(kinds)) /\ ~Glued(r)
                   THEN {} ELSE {r}

Completed(r) ==
    \E i \in 1..Len(Script[r]) : 2 * i <= pos[r] /\ Script[r][i].kind = "completed"
(* The host has given up r for another attempt. *)
Abandoned(r) == \E q \in started : RetryOf[q] = r

(* harvestFromStream: the init frame brings the headers and no body ... *)
Headers(r) ==
    /\ r \notin Whole \cup started
    /\ RetryOf[r] # Absent => RetryOf[r] \in started /\ ~Completed(RetryOf[r])
    /\ started' = started \cup {r}
    /\ HarvestCompleted(r, 0, {}, HeaderOf[r])
    /\ UNCHANGED <<now, pos>>

(* ... and every further call some of the body. *)
Chunk(r, n) ==
    /\ r \in started /\ ~Abandoned(r)
    /\ pos[r] + n <= Size(r)
    /\ pos' = [pos EXCEPT ![r] = @ + n]
    /\ \E read \in Readings(r, n), state \in ExtractTurnState(r, n) :
         HarvestCompleted(r, n, read, state)
    /\ UNCHANGED <<now, started>>

(* harvestFromResponse: headers and body in one call; one that is not 2xx  *)
(* is not looked at.                                                       *)
HeaderOrBody(r) ==
    IF HeaderOf[r] # Absent THEN {HeaderOf[r]} ELSE ExtractTurnState(r, Size(r))
Respond(r, ok) ==
    /\ r \in Whole \ started
    /\ started' = started \cup {r}
    /\ pos' = [pos EXCEPT ![r] = Size(r)]
    /\ IF ok THEN \E state \in HeaderOrBody(r) :
                    HarvestCompleted(r, Size(r), 1..Len(Script[r]), state)
             ELSE UNCHANGED <<pending, observed>> /\ disturbed' = disturbed \cup {r}
    /\ UNCHANGED now

(* applyConfig starts with an empty table. *)
ApplyConfig ==
    /\ pending' = [s \in Slots |-> Absent]
    /\ disturbed' = disturbed \cup {r \in started : pending[SlotOf(r)] # Absent}
    /\ UNCHANGED <<now, started, pos, observed>>

Tick ==
    /\ now < MaxTime
    /\ now' = now + 1
    /\ UNCHANGED <<pending, started, pos, observed, disturbed>>

HarvestNext ==
    \/ \E r \in Responses :
         \/ Headers(r)
         \/ \E n \in 1..MaxChunk : Chunk(r, n)
         \/ \E ok \in BOOLEAN : Respond(r, ok)
    \/ ApplyConfig
    \/ Tick

HarvestSpec == HarvestInit /\ [][HarvestNext]_harvestVars

(* What upstream gives: a body has one verdict, and nothing of interest    *)
(* comes after it.                                                         *)
OneVerdict ==
    \A r \in Responses : \A i, j \in 1..Len(Script[r]) :
      i < j /\ Script[r][i].kind \in {"completed", "failed"} =>
        Script[r][j].kind \notin {"completed", "failed"} /\ Script[r][j].ticket = Absent

(* What the host gives: it tries a request again on the same account only  *)
(* in turn, each attempt after another one, streamed or not as the first.  *)
RetriesInTurn ==
    \A q, r \in Responses :
      q # r /\ RequestId[r] # Absent
        /\ RequestId[q] = RequestId[r] /\ KeyOf[q] = KeyOf[r] =>
        /\ q \in Whole <=> r \in Whole
        /\ RetryOf[q] # RetryOf[r]

-----------------------------------------------------------------------------
(* What has arrived of a response so far, and the tickets in it, those of  *)
(* an event whose end is still to come included.                           *)
Arrived(r) == {i \in 1..Len(Script[r]) : 2 * i <= pos[r]}
Carried(r) ==
    {HeaderOf[r]} \cup
      {Script[r][i].ticket : i \in {i \in 1..Len(Script[r]) : 2 * i - 1 <= pos[r]}}
Failed(r) == \E i \in Arrived(r) : Script[r][i].kind = "failed"

(* "Harvest candidates are isolated by request/account/model and promoted  *)
(* only by a successful terminal response" (README): a ticket in the cache *)
(* came with the response it is credited to, or with another attempt of    *)
(* the same request on the same account, and that response completed.  The *)
(* event that brought it may have been cut short: only the completion must *)
(* have arrived with its delimiter.                                        *)
OnlyCompletedPromote ==
    \A r \in Responses, t \in Tickets : <<r, t>> \in observed =>
      /\ \/ t \in Carried(r)
         \/ /\ RequestId[r] # Absent
            /\ \E q \in started :
                 /\ RequestId[q] = RequestId[r] /\ KeyOf[q] = KeyOf[r]
                 /\ t \in Carried(q)
      /\ Completed(r) /\ ~Failed(r)

(* Nothing is lost on the way either: whatever the interleaving and the    *)
(* cuts, a completed response whose candidate was never dropped, and which *)
(* is not read behind a fragment of an earlier attempt, has its ticket in  *)
(* the cache, and the last one it carried.                                 *)
LastTicketOf(r) ==
    LET end == CHOOSE i \in 1..Len(Script[r]) : Script[r][i].kind = "completed"
        with == {i \in 1..end : Script[r][i].ticket # Absent}
    IN  IF with # {} THEN Script[r][Max(with)].ticket ELSE HeaderOf[r]
CompletedPromotes ==
    \A r \in Responses \ disturbed :
      Completed(r) /\ LastTicketOf(r) # Absent =>
        <<r, LastTicketOf(r)>> \in observed

(* A response finds the table full only because of candidates that were    *)
(* all touched within two minutes: stale ones make room first.             *)
RefusedOnlyWhenFull ==
    [][\A r \in Responses :
         Headers(r) /\ RequestId[r] # Absent /\ pending'[SlotOf(r)] = Absent =>
           Cardinality({s \in Held : now - pending[s].updated <= StaleAfter})
             >= Capacity]_harvestVars

=============================================================================
