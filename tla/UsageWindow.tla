---------------------------- MODULE UsageWindow ----------------------------
(***************************************************************************)
(* The window of usage a ticket is in (runtime.go): usage records of       *)
(* production requests count failures against the cached ticket, and       *)
(* enough of them in a row queue a reprobe of its key.  handleUsage reads  *)
(* the cache, counts, and queues under three locks in turn; observeState   *)
(* stores a ticket and opens its window under two; the worker (probe.go)   *)
(* takes the queued keys.                                                  *)
(*                                                                         *)
(* Time is counted in tickets stored: a ticket is named by the time it was *)
(* stored at, and 0 is Go's zero time.                                     *)
(***************************************************************************)
EXTENDS Naturals, Sequences

CONSTANTS Keys,       \* (account, model) pairs of one account
          Handlers,   \* calls of handleUsage that may overlap
          Threshold,  \* failureReprobeThreshold()
          TargetCap,  \* capacity of targetTrigger (64)
          MaxStored,  \* bound: tickets stored
          None

(* windowStats, as far as it decides anything; oldest is a ghost: the      *)
(* earliest request counted.                                               *)
Window == [started : 0..MaxStored, failures : 0..Threshold, queued : BOOLEAN,
           oldest : 0..MaxStored]
NewWindow(at) ==
    [started |-> at, failures |-> 0, queued |-> FALSE, oldest |-> MaxStored]

(* A call: the record it reports, and the ticket it found. *)
Call == [pc : {"look", "count", "queue", "undo"}, key : Keys,
         at : 0..MaxStored, failed : BOOLEAN, handled : BOOLEAN,
         entry : 0..MaxStored]

ASSUME UsageAssumption ==
    /\ Threshold \in Nat \ {0} /\ TargetCap \in Nat \ {0} /\ MaxStored \in Nat
    /\ None \notin Keys \cup Call

VARIABLES
    clock,     \* tickets stored so far
    entries,   \* r.cache: when the ticket of a key was stored, 0 for none
    opening,   \* the tickets stored whose window observeState has still to open
    windows,   \* r.windows
    targets,   \* r.targetTrigger
    quota,     \* quotaBlocked, for the account
    probing,   \* the key the worker probes, or None
    cut,       \* the worker's context is cancelled
    handler,   \* the calls of handleUsage
    dropped    \* ghost: keys whose target the worker took and did not probe

vars == <<clock, entries, opening, windows, targets, quota, probing, cut,
          handler, dropped>>
cacheVars == <<clock, entries, opening>>
workerVars == <<probing, cut, dropped>>

TypeOK ==
    /\ clock \in 0..MaxStored
    /\ entries \in [Keys -> 0..MaxStored]
    /\ opening \subseteq Keys \X (1..MaxStored)
    /\ windows \in [Keys -> Window]
    /\ targets \in Seq(Keys) /\ Len(targets) <= TargetCap
    /\ quota \in BOOLEAN
    /\ probing \in Keys \cup {None}
    /\ cut \in BOOLEAN
    /\ handler \in [Handlers -> Call \cup {None}]
    /\ dropped \subseteq Keys

Init ==
    /\ clock = 0
    /\ entries = [k \in Keys |-> 0]
    /\ opening = {}
    /\ windows = [k \in Keys |-> NewWindow(0)]
    /\ targets = <<>>
    /\ quota = FALSE
    /\ probing = None
    /\ cut = FALSE
    /\ handler = [h \in Handlers |-> None]
    /\ dropped = {}

-----------------------------------------------------------------------------
(* observeState, from a probe or a response: the cache takes a ticket ...  *)
Store(k) ==
    /\ clock < MaxStored
    /\ clock' = clock + 1
    /\ entries' = [entries EXCEPT ![k] = clock + 1]
    /\ opening' = opening \cup {<<k, clock + 1>>}
    /\ UNCHANGED <<windows, targets, quota, workerVars, handler>>

(* ... and then, under r.mu, opens its window. *)
OpenWindow(k, at) ==
    /\ <<k, at>> \in opening
    /\ opening' = opening \ {<<k, at>>}
    /\ windows' = [windows EXCEPT ![k] = NewWindow(at)]
    /\ dropped' = dropped \ {k}
    /\ UNCHANGED <<clock, entries, targets, quota, probing, cut, handler>>

(* Under use_issued_at an expired ticket is not found any more. *)
Expire(k) ==
    /\ entries[k] # 0
    /\ entries' = [entries EXCEPT ![k] = 0]
    /\ UNCHANGED <<clock, opening, windows, targets, quota, workerVars, handler>>

-----------------------------------------------------------------------------
(* triggerTargetProbe: the send to the channel, and whether it succeeds.   *)
CanQueue == ~quota /\ Len(targets) < TargetCap

(* handleUsage is called.  With error_aware_backoff a quota failure bars   *)
(* the account, a transient one queues a probe, and both are handled.      *)
Report(h, k, at, failed) ==
    /\ handler[h] = None
    /\ at <= clock
    /\ \E kind \in {"other", "transient", "quota"} :
         /\ kind # "other" => failed
         /\ quota' = (quota \/ kind = "quota")
         /\ targets' = IF kind = "transient" /\ CanQueue
                       THEN Append(targets, k) ELSE targets
         /\ handler' = [handler EXCEPT ![h] =
              [pc |-> "look", key |-> k, at |-> at, failed |-> failed,
               handled |-> kind # "other", entry |-> 0]]
    /\ UNCHANGED <<cacheVars, windows, workerVars>>

(* The ticket the call counts against; a request older than it is nobody's *)
(* business.                                                               *)
Look(h) ==
    /\ handler[h] # None /\ handler[h].pc = "look"
    /\ LET entry == entries[handler[h].key]
       IN  handler' = [handler EXCEPT ![h] =
             IF entry = 0 \/ @.at < entry THEN None
             ELSE [@ EXCEPT !.pc = "count", !.entry = entry]]
    /\ UNCHANGED <<cacheVars, windows, targets, quota, workerVars>>

(* The window counted in: that of the ticket found, a new one if need be. *)
WindowAsItIs(c) == windows[c.key]
WindowOf(c) ==
    IF windows[c.key].started = c.entry THEN windows[c.key]
    ELSE NewWindow(c.entry)
Earlier(a, b) == IF a < b THEN a ELSE b

Counted(w, c) ==
    [w EXCEPT !.failures = IF ~c.failed THEN 0
                           ELSE IF @ < Threshold THEN @ + 1 ELSE @,
              !.oldest = IF ~c.failed THEN MaxStored ELSE Earlier(@, c.at)]

Reached(w, c) ==
    c.failed /\ ~c.handled /\ w.failures >= Threshold /\ ~w.queued

(* Under r.mu: count, and decide whether to queue a reprobe. *)
Count(h) ==
    /\ handler[h] # None /\ handler[h].pc = "count"
    /\ LET c == handler[h]
           w == Counted(WindowOf(c), c)
       IN  /\ windows' = [windows EXCEPT ![c.key] =
                            [w EXCEPT !.queued = @ \/ Reached(w, c)]]
           /\ handler' = [handler EXCEPT ![h] =
                            IF Reached(w, c) THEN [c EXCEPT !.pc = "queue"] ELSE None]
           /\ dropped' = IF WindowOf(c) = windows[c.key] THEN dropped
                         ELSE dropped \ {c.key}
    /\ UNCHANGED <<cacheVars, targets, quota, probing, cut>>

(* The reprobe is queued, or it cannot be ... *)
QueueReprobeNoUndo(h) ==
    /\ handler[h] # None /\ handler[h].pc = "queue"
    /\ targets' = IF CanQueue THEN Append(targets, handler[h].key) ELSE targets
    /\ handler' = [handler EXCEPT ![h] = None]
    /\ UNCHANGED <<cacheVars, windows, quota, workerVars>>
QueueReprobe(h) ==
    /\ handler[h] # None /\ handler[h].pc = "queue"
    /\ targets' = IF CanQueue THEN Append(targets, handler[h].key) ELSE targets
    /\ handler' = [handler EXCEPT ![h] =
                     IF CanQueue THEN None ELSE [@ EXCEPT !.pc = "undo"]]
    /\ UNCHANGED <<cacheVars, windows, quota, workerVars>>

(* ... and the flag of whichever window is there now is taken back. *)
Undo(h) ==
    /\ handler[h] # None /\ handler[h].pc = "undo"
    /\ windows' = [windows EXCEPT ![handler[h].key].queued = FALSE]
    /\ handler' = [handler EXCEPT ![h] = None]
    /\ dropped' = dropped \ {handler[h].key}
    /\ UNCHANGED <<cacheVars, targets, quota, probing, cut>>

-----------------------------------------------------------------------------
(* probeKey, for a queued key: cancelled, or barred by the quota, it       *)
(* returns at once.                                                        *)
TakeTarget ==
    /\ probing = None /\ targets # <<>>
    /\ targets' = Tail(targets)
    /\ IF cut \/ quota
       THEN dropped' = dropped \cup {Head(targets)} /\ UNCHANGED probing
       ELSE probing' = Head(targets) /\ UNCHANGED dropped
    /\ UNCHANGED <<cacheVars, windows, quota, cut, handler>>

(* probeKey, for a request. *)
Demand(k) ==
    /\ probing = None /\ ~cut /\ ~quota
    /\ probing' = k
    /\ UNCHANGED <<cacheVars, windows, targets, quota, cut, handler, dropped>>

(* probeKey is through with its key: the flag goes. *)
ProbeEnds ==
    /\ probing # None
    /\ windows' = [windows EXCEPT ![probing].queued = FALSE]
    /\ probing' = None
    /\ dropped' = dropped \ {probing}
    /\ UNCHANGED <<cacheVars, targets, quota, cut, handler>>

(* The host stops the worker and starts another; the channel stays. *)
Stop ==
    /\ ~cut
    /\ cut' = TRUE
    /\ UNCHANGED <<cacheVars, windows, targets, quota, probing, handler, dropped>>
Restart ==
    /\ cut /\ probing = None
    /\ cut' = FALSE
    /\ UNCHANGED <<cacheVars, windows, targets, quota, probing, handler, dropped>>

QuotaOver ==
    /\ quota
    /\ quota' = FALSE
    /\ UNCHANGED <<cacheVars, windows, targets, workerVars, handler>>

Next ==
    \/ \E k \in Keys : Store(k) \/ Expire(k) \/ Demand(k)
    \/ \E k \in Keys, at \in 1..MaxStored : OpenWindow(k, at)
    \/ \E h \in Handlers :
         \/ \E k \in Keys, at \in 0..MaxStored, failed \in BOOLEAN :
              Report(h, k, at, failed)
         \/ Look(h) \/ Count(h) \/ QueueReprobe(h) \/ Undo(h)
    \/ TakeTarget \/ ProbeEnds \/ Stop \/ Restart \/ QuotaOver

Spec == Init /\ [][Next]_vars

-----------------------------------------------------------------------------
(* The failures in a window are failures of its ticket: no request sent    *)
(* before the ticket was stored is among them, however the reads of the    *)
(* cache, the counting and the opening of windows interleave.              *)
CountsOnlyItsTicket ==
    \A k \in Keys : windows[k].failures > 0 => windows[k].oldest >= windows[k].started

(* A reprobe of k is on its way: queued, under way, or about to be queued. *)
OnItsWay(k) ==
    \/ \E i \in DOMAIN targets : targets[i] = k
    \/ probing = k
    \/ \E h \in Handlers : /\ handler[h] # None /\ handler[h].key = k
                           /\ handler[h].pc \in {"queue", "undo"}

(* A window says a reprobe is queued only when one is on its way, but for  *)
(* those the worker took and dropped.                                      *)
QueuedIsOnItsWay ==
    \A k \in Keys : windows[k].queued => OnItsWay(k) \/ k \in dropped

=============================================================================
