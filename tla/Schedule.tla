------------------------------ MODULE Schedule ------------------------------
(***************************************************************************)
(* When the worker probes (probe.go, runProbeLoop with probeAll and        *)
(* probeKey; lifecycle.go, runDemandProbe and freshForProbe), against a    *)
(* clock: the timer of the fixed and state_aware schedules, its resets     *)
(* after other work, the time of the next probe that the status page       *)
(* shows, and the age at which a cached ticket is renewed.                 *)
(*                                                                         *)
(* Time is kept in differences, so that it need not end: the age of a      *)
(* ticket, the time until the timer fires, the time until the shown        *)
(* instant.  Lifecycle has the channels and the waiting requests in        *)
(* detail; here a key is in demand while it is in demandPending.  Tickets  *)
(* are aged from the time they were stored (use_issued_at is off).         *)
(***************************************************************************)
EXTENDS Config, FiniteSets

CONSTANTS Keys,        \* (account, model) pairs
          RawConfigs,  \* configurations the host may hand over
          QueueSize,   \* capacity of r.targetTrigger and r.demandTrigger
          MaxWork,     \* assumed: no sweep or probe takes longer than this
          MaxAge,      \* bound: no ticket is counted older than this
          None

NoTime == -1   \* the zero time.Time, no timer, no ticket

ASSUME ScheduleAssumption ==
    /\ None \notin Keys
    /\ RawConfigs \subseteq RawConfig
    /\ QueueSize \in Nat \ {0}
    /\ MaxWork \in Nat
    /\ MaxAge \in Nat
    /\ \A c \in RawConfigs : ttl(Normalized(c)) <= MaxAge

VARIABLES
    config,    \* r.config
    stopping,  \* the worker is cancelled: applyConfig is under way
    age,       \* age of the ticket in the cache
    probed,    \* r.probeLogs is not empty
    \* the channels and the demand table
    trigger,   \* r.trigger holds its one element
    targets,   \* keys in r.targetTrigger
    demand,    \* keys in r.demandPending
    \* the worker
    pc,        \* where it is in runProbeLoop
    why,       \* what the work in hand was begun for
    job,       \* the key of the demand probe in hand
    todo,      \* keys it has still to look at
    busy,      \* the key being probed
    spent,     \* how long the work in hand has taken
    timer,     \* time until the timer fires
    shown,     \* time until r.nextProbeAt
    \* ghosts
    excused,   \* keys the schedule has not looked at in time, see NoGap
    postponed  \* a targeted probe has reset the timer since the last sweep

cacheVars == <<age, probed>>
channelVars == <<trigger, targets, demand>>
workVars == <<pc, why, job, todo, busy, spent>>
timeVars == <<timer, shown>>
ghostVars == <<excused, postponed>>
vars == <<config, stopping, cacheVars, channelVars, workVars, timeVars,
          ghostVars>>

Reasons == {"none", "initial", "timer", "trigger", "target", "demand"}

Periodic == config.schedule # "on_demand"
(* r.cancel is set: there is a worker, and nobody has stopped it. *)
Running == config.probe /\ ~stopping

(* freshForProbe *)
FreshUntilExpiry(k) == age[k] # NoTime /\ age[k] < ttl(config)
Fresh(k) == age[k] # NoTime /\ age[k] < ttl(config) - probeLead(config)

-----------------------------------------------------------------------------
TypeOK ==
    /\ config \in RawConfig
    /\ \A n \in {config.interval, config.ttl, config.lead, config.refresh} :
         n >= 0
    /\ stopping \in BOOLEAN /\ probed \in BOOLEAN
    /\ age \in [Keys -> NoTime..MaxAge]
    /\ trigger \in BOOLEAN
    /\ targets \in SUBSET Keys
    /\ demand \in SUBSET Keys
    /\ pc \in {"off", "boot", "select", "work"}
    /\ why \in Reasons
    /\ todo \in SUBSET Keys
    /\ busy \in Keys \cup {None} /\ job \in Keys \cup {None}
    /\ spent \in 0..MaxWork
    /\ timer \in NoTime..interval(config)
    /\ shown \in Int /\ shown >= NoTime
    /\ excused \in SUBSET Keys /\ postponed \in BOOLEAN

(* newRuntime, with the first applyConfig about to come. *)
Init ==
    /\ config = Unset /\ stopping = TRUE
    /\ age = [k \in Keys |-> NoTime] /\ probed = FALSE
    /\ trigger = FALSE
    /\ targets = {} /\ demand = {}
    /\ pc = "off" /\ why = "none" /\ job = None
    /\ todo = {} /\ busy = None /\ spent = 0
    /\ timer = NoTime /\ shown = NoTime
    /\ excused = Keys /\ postponed = FALSE

-----------------------------------------------------------------------------
(* runProbeLoop *)

(* probeAll: prepareProbe lists the accounts the host has, enabled,        *)
(* selected and with a token; none if the list fails or nothing can be     *)
(* reached.  A cancelled worker returns at once.                           *)
BeginSweep(reason) ==
    /\ pc' = "work" /\ why' = reason
    /\ \E listed \in SUBSET Keys : todo' = IF stopping THEN {} ELSE listed
    /\ excused' = excused \cup (Keys \ todo')
    /\ UNCHANGED <<job, busy, spent>>

(* The goroutine starts: on demand there is no next probe to show, and     *)
(* otherwise an empty cache is filled before the timer is made.            *)
Boot ==
    /\ pc = "boot"
    /\ shown' = IF Periodic THEN interval(config) ELSE NoTime
    /\ IF Periodic /\ \A k \in Keys : age[k] = NoTime
       THEN BeginSweep("initial") /\ UNCHANGED timer
       ELSE /\ pc' = "select"
            /\ timer' = IF Periodic THEN interval(config) ELSE NoTime
            /\ UNCHANGED <<why, job, todo, busy, spent, excused>>
    /\ UNCHANGED <<config, stopping, cacheVars, channelVars, postponed>>

(* case <-timer.C *)
TimerFires ==
    /\ pc = "select"
    /\ timer = 0
    /\ BeginSweep("timer")
    /\ UNCHANGED <<config, stopping, cacheVars, channelVars, timeVars,
                   postponed>>

(* case <-trigger *)
TakeTriggerOnDemand ==
    /\ pc = "select" /\ ~Periodic
    /\ trigger
    /\ trigger' = FALSE
    /\ BeginSweep("trigger")
    /\ UNCHANGED <<config, stopping, cacheVars, targets, demand, timeVars,
                   postponed>>
TakeTrigger ==
    /\ pc = "select"
    /\ trigger
    /\ trigger' = FALSE
    /\ BeginSweep("trigger")
    /\ UNCHANGED <<config, stopping, cacheVars, targets, demand,
                   timeVars, postponed>>

(* probeKey, for a targeted or a demand probe: nothing to do if the worker *)
(* is cancelled, the account out of quota or no longer listed.             *)
BeginProbeOf(k, reason) ==
    /\ pc' = "work" /\ why' = reason
    /\ job' = IF reason = "demand" THEN k ELSE None
    /\ todo' \in IF stopping THEN {{}} ELSE {{}, {k}}
    /\ UNCHANGED <<busy, spent>>

(* case key := <-targetTrigger: the timer will start again after it. *)
TakeTarget(k) ==
    /\ pc = "select"
    /\ k \in targets
    /\ targets' = targets \ {k}
    /\ BeginProbeOf(k, "target")
    /\ excused' = Keys /\ postponed' = Periodic
    /\ UNCHANGED <<config, stopping, cacheVars, trigger, demand,
                   timeVars>>

(* case job := <-demandTrigger, runDemandProbe: the key is looked at       *)
(* again, and left alone if it is fresh by now or cools down.              *)
DemandSettled(k) ==
    /\ pc = "select" /\ ~Periodic
    /\ k \in demand
    /\ demand' = demand \ {k}
    /\ UNCHANGED <<config, stopping, cacheVars, trigger, targets,
                   workVars, timeVars, ghostVars>>

RunDemandProbe(k) ==
    /\ pc = "select" /\ ~Periodic
    /\ k \in demand
    /\ ~Fresh(k)
    /\ BeginProbeOf(k, "demand")
    /\ UNCHANGED <<config, stopping, cacheVars, channelVars, timeVars,
                   ghostVars>>

(* shouldSkipFreshProbe, which probeAll asks only for the timer. *)
ShouldSkip(k) == why = "timer" /\ config.schedule = "state_aware" /\ Fresh(k)

(* The work in hand may look at k next. *)
Looks(k) ==
    /\ pc = "work" /\ busy = None /\ ~stopping
    /\ k \in todo
SkipFresh(k) ==
    /\ Looks(k)
    /\ ShouldSkip(k)
    /\ todo' = todo \ {k}
    /\ excused' = excused \ {k}
    /\ UNCHANGED <<config, stopping, cacheVars, channelVars, pc, why, job,
                   busy, spent, timeVars, postponed>>

(* probeTargetOnce returns at once: k cools down or is out of quota. *)
SkipBlocked(k) ==
    /\ Looks(k)
    /\ ~ShouldSkip(k)
    /\ todo' = todo \ {k}
    /\ excused' = excused \cup {k}
    /\ UNCHANGED <<config, stopping, cacheVars, channelVars, pc, why, job,
                   busy, spent, timeVars, postponed>>

BeginProbe(k) ==
    /\ Looks(k)
    /\ ~ShouldSkip(k)
    /\ busy' = k
    /\ todo' = todo \ {k}
    /\ UNCHANGED <<config, stopping, cacheVars, channelVars, pc, why, job,
                   spent, timeVars, ghostVars>>

(* The round of ProbeRound ends, with a ticket or without. *)
Captured ==
    /\ busy # None
    /\ age' = [age EXCEPT ![busy] = 0]
    /\ excused' = IF Running /\ Periodic THEN excused \ {busy} ELSE excused
    /\ probed' = TRUE /\ busy' = None
    /\ UNCHANGED <<config, stopping, channelVars, pc, why, job, todo,
                   spent, timeVars, postponed>>

Missed ==
    /\ busy # None
    /\ excused' = excused \cup {busy}
    /\ probed' = TRUE /\ busy' = None
    /\ UNCHANGED <<config, stopping, age, channelVars, pc, why, job,
                   todo, spent, timeVars, postponed>>

(* Both loops end their work alike, but only the periodic one has a timer  *)
(* to reset, and it sets nextProbeAt after a sweep alone.                  *)
NextTimerStopped == NoTime
NextTimer == IF Periodic THEN interval(config) ELSE NoTime
NextShownStale == shown
NextShown == IF Periodic /\ why # "target" THEN interval(config) ELSE shown

(* Nothing left to look at, or cancelled: back to the select.  A demand    *)
(* probe ends in finishDemand.                                             *)
WorkEnds ==
    /\ pc = "work" /\ busy = None
    /\ todo = {} \/ stopping
    /\ pc' = "select" /\ todo' = {} /\ spent' = 0
    /\ why' = "none" /\ job' = None
    /\ timer' = NextTimer /\ shown' = NextShown
    /\ postponed' = (postponed /\ why = "target")
    /\ demand' = IF why = "demand" THEN demand \ {job} ELSE demand
    /\ excused' = excused \cup todo
    /\ UNCHANGED <<config, stopping, cacheVars, trigger, targets,
                   busy>>

(* case <-ctx.Done(): the loop on demand drains its jobs. *)
CtxDone ==
    /\ pc = "select"
    /\ stopping
    /\ pc' = "off" /\ timer' = NoTime
    /\ demand' = {}
    /\ UNCHANGED <<config, stopping, cacheVars, trigger, targets,
                   why, job, todo, busy, spent, shown, ghostVars>>

-----------------------------------------------------------------------------
(* applyConfig: the cancel, and after wg.Wait the new configuration, the   *)
(* tickets its ttl leaves, the tickets and the log of the file if both are *)
(* empty, and a new worker.  nextProbeAt is left alone.                    *)
Stop ==
    /\ ~stopping
    /\ stopping' = TRUE
    /\ excused' = Keys
    /\ UNCHANGED <<config, cacheVars, channelVars, workVars, timeVars,
                   postponed>>

Kept(c) == [k \in Keys |-> IF age[k] < ttl(c) THEN age[k] ELSE NoTime]
Restores(c) == ~probed /\ \A k \in Keys : Kept(c)[k] = NoTime
Install ==
    /\ stopping
    /\ pc = "off"
    /\ \E raw \in RawConfigs : config' = Normalized(raw)
    /\ stopping' = FALSE
    /\ IF Restores(config')
       THEN /\ age' \in [Keys -> NoTime..(ttl(config') - 1)]
            /\ probed' \in BOOLEAN
       ELSE age' = Kept(config') /\ UNCHANGED probed
    /\ pc' = IF config'.probe THEN "boot" ELSE "off"
    /\ postponed' = FALSE
    /\ UNCHANGED <<channelVars, why, job, todo, busy, spent, timeVars, excused>>

-----------------------------------------------------------------------------
(* The rest of the plugin, and time. *)

(* A ticket harvested from a response, or saved by hand. *)
Store(k) ==
    /\ age' = [age EXCEPT ![k] = 0]
    /\ excused' = IF Running /\ Periodic THEN excused \ {k} ELSE excused
    /\ UNCHANGED <<config, stopping, probed, channelVars, workVars, timeVars,
                   postponed>>

(* triggerProbe: the button of the status page, or a saved setting. *)
TriggerProbe ==
    /\ trigger' = TRUE
    /\ UNCHANGED <<config, stopping, cacheVars, targets, demand,
                   workVars, timeVars, ghostVars>>

(* triggerTargetProbe: failures of production, or the status page. *)
TriggerTargetProbe(k) ==
    /\ config.probe
    /\ Cardinality(targets) < QueueSize
    /\ targets' = targets \cup {k}
    /\ UNCHANGED <<config, stopping, cacheVars, trigger, demand,
                   workVars, timeVars, ghostVars>>

(* ensureDemandProbe, in one step (Lifecycle takes it in two): a request   *)
(* finds no fresh ticket, and its key is queued if the channel has room.   *)
Enqueue(k) ==
    /\ Running /\ ~Periodic
    /\ ~Fresh(k)
    /\ Cardinality(demand \ {job}) < QueueSize
    /\ demand' = demand \cup {k}
    /\ UNCHANGED <<config, stopping, cacheVars, trigger, targets, workVars,
                   timeVars, ghostVars>>

(* Time passes.  The worker takes none for what it does between two        *)
(* requests and takes its timer when it fires.  That no work lasts beyond  *)
(* MaxWork is an assumption about upstream: nothing in the code bounds it. *)
Later(n) == IF n > 0 THEN n - 1 ELSE n
Tick ==
    /\ pc # "boot"
    /\ pc = "select" => timer # 0
    /\ pc = "work" => spent < MaxWork
    /\ age' = [k \in Keys |->
                 IF age[k] \in 0..(MaxAge - 1) THEN age[k] + 1 ELSE age[k]]
    /\ timer' = Later(timer) /\ shown' = Later(shown)
    /\ spent' = IF pc = "work" THEN spent + 1 ELSE spent
    /\ UNCHANGED <<config, stopping, probed, channelVars, pc, why, job,
                   todo, busy, ghostVars>>

-----------------------------------------------------------------------------
LookAt(k) == SkipFresh(k) \/ SkipBlocked(k) \/ BeginProbe(k)

Next ==
    \/ Boot \/ TimerFires \/ TakeTrigger \/ Captured \/ Missed \/ WorkEnds
    \/ CtxDone \/ Stop \/ Install \/ TriggerProbe \/ Tick
    \/ \E k \in Keys :
         \/ TakeTarget(k) \/ DemandSettled(k) \/ RunDemandProbe(k) \/ LookAt(k)
         \/ Store(k) \/ TriggerTargetProbe(k) \/ Enqueue(k)

Spec == Init /\ [][Next]_vars

(* Time passes and the worker moves.  The select picks at random among its *)
(* ready cases, so one that is ready again and again is taken.  A probe    *)
(* ends by itself only if its context does: a demand probe's has a         *)
(* deadline, any other's ends when the worker is cancelled.  Nothing is    *)
(* assumed of the host, the page or the requests.                          *)
Fairness ==
    /\ WF_vars(Tick) /\ WF_vars(Boot) /\ WF_vars(WorkEnds)
    /\ WF_vars(\E k \in Keys : LookAt(k))
    /\ WF_vars((why = "demand" \/ stopping) /\ (Captured \/ Missed))
    /\ SF_vars(TimerFires) /\ SF_vars(TakeTrigger)

FairSpec == Spec /\ Fairness

-----------------------------------------------------------------------------
(* The configuration leaves time for two sweeps and the wait between them: *)
(* within the lead, where a sweep passes over fresh tickets, and within    *)
(* the life of a ticket in any case.  The defaults do if MaxWork is at     *)
(* most 30 seconds.                                                        *)
Round == interval(config) + 2 * MaxWork
KeepsUp ==
    /\ Round < ttl(config)
    /\ config.schedule = "state_aware" => Round <= probeLead(config)

(* No gap between the tickets of a key: while the worker runs on a timer   *)
(* and the configuration keeps up, the ticket lookup returns is not        *)
(* expired (without use_issued_at it would be injected all the same).  A   *)
(* key is excused whose last probe failed or was blocked, that the host no *)
(* longer lists, or whose renewal a restart or a targeted probe put off;   *)
(* until the next sweep finds it fresh or captures a ticket for it.        *)
NoGap ==
    Running /\ Periodic /\ KeepsUp =>
      \A k \in Keys \ excused : age[k] < ttl(config)

(* The countdown of the status page, which reads nextProbeAt, agrees with  *)
(* the timer whenever a worker waits for it; a targeted probe puts the     *)
(* timer off and leaves the countdown early, never late.                   *)
ShownIsTheTimer ==
    pc = "select" /\ Running /\ Periodic =>
      /\ shown <= timer
      /\ ~postponed => shown = timer

(* The age at which a ticket counts as renewable, as README.md describes   *)
(* the two settings (lines 109 and 117): a lead before the expiry, or, if  *)
(* the lead is zero, an age of its own, never beyond the expiry.           *)
RenewAge(c) ==
    IF c.lead = 0 /\ c.refresh > 0
    THEN AtMost(ttl(c), c.refresh)
    ELSE ttl(c) - OrDefault(c.lead, DefaultLead)
(* A sweep of the timer under state_aware asks upstream for a key from     *)
(* that age on and passes over it before, and a demand probe is begun from *)
(* that age on only: also if the ticket came while the key was queued.     *)
Renewable(k) == age[k] = NoTime \/ age[k] >= RenewAge(config)
RenewsAtDocumentedAge ==
    [][\A k \in Keys :
         /\ /\ busy' = k /\ busy # k
            /\ why = "timer" /\ config.schedule = "state_aware"
            => Renewable(k)
         /\ k \in todo \ (todo' \cup excused') /\ busy' # k => ~Renewable(k)
         /\ job' = k /\ job # k /\ why' = "demand" => Renewable(k)]_vars

(* Upstream answers the probes, or closes on them: none hangs for ever.    *)
(* The code has no deadline for the probes of a sweep and targeted ones.   *)
ProbesReturn == []<>(busy = None)

(* Once nobody asks for targeted probes any more, the worker on a timer    *)
(* sweeps again and again (each targeted probe resets the timer, so a      *)
(* steady stream of them puts the sweep off for good), as long as probes   *)
(* return: one that hangs keeps the worker from its timer.                 *)
SweepsRecur ==
    ProbesReturn =>
      (<>[](Running /\ Periodic /\ targets = {}) =>
         []<>(pc = "work" /\ why \in {"timer", "trigger"}))

(* A triggered sweep is begun, whatever else the worker is asked for, as   *)
(* long as probes return and unless it is stopped first: a cancelled       *)
(* worker may take the trigger and drop it.                                *)
TriggersServed ==
    ProbesReturn =>
      (trigger /\ Running ~> (pc = "work" /\ why = "trigger") \/ ~Running)

=============================================================================
