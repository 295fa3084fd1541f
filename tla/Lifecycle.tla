----------------------------- MODULE Lifecycle -----------------------------
(***************************************************************************)
(* The probe worker of the plugin and everything that talks to it:         *)
(* production requests that ask for a probe and wait for it                *)
(* (lifecycle.go, ensureDemandProbe), the worker goroutine with its        *)
(* on-demand and periodic loops (probe.go, runProbeLoop), and the calls    *)
(* of the host that stop and restart it (runtime.go, applyConfig and       *)
(* shutdown).                                                              *)
(*                                                                         *)
(* A request calls ensureDemandProbe once, so the request itself names the *)
(* job it may create and the done channel that job carries: a "job" below  *)
(* is a request.  The reasons not to probe a key (its ticket is fresh, its *)
(* account is out of quota or deselected, the key cools down) are the set  *)
(* settled: nothing here depends on which of them it is.                   *)
(***************************************************************************)
EXTENDS Naturals, Sequences

CONSTANTS Requests,    \* calls of ensureDemandProbe
          Keys,        \* (account, model) pairs
          KeyOf,       \* the key each request asks for
          Workers,     \* goroutines that startProbeLocked may run
          Callers,     \* threads of the host that call applyConfig and shutdown
          DemandCap,   \* capacity of demandTrigger (64 in newRuntime)
          TargetCap,   \* capacity of targetTrigger (64 in newRuntime)
          None

ASSUME LifecycleAssumption ==
    /\ KeyOf \in [Requests -> Keys]
    /\ None \notin Requests
    /\ None \notin Workers
    /\ DemandCap \in Nat \ {0}
    /\ TargetCap \in Nat \ {0}

(* The host does not overlap its lifecycle calls.  Nothing in the plugin   *)
(* enforces it; the theorems that need it say so.                          *)
SerialHost == \A c, d \in Callers : c = d

VARIABLES
    \* the requests
    rpc,       \* where a request is in ensureDemandProbe
    rwaits,    \* its snapshot of the configuration allows it to wait
    rdone,     \* the done channel it holds
    \* the runtime, under r.mu
    config,    \* r.config
    cancel,    \* r.cancel: the worker it cancels, None when nil
    pending,   \* r.demandPending
    \* channels
    demandQ,   \* r.demandTrigger
    trigger,   \* r.trigger holds its one element
    targets,   \* number of keys in r.targetTrigger
    closed,    \* the done channels closed so far
    \* the worker goroutines
    wpc,       \* where a worker is
    hand,      \* the job a worker has received and not yet finished
    cancelled, \* its context is cancelled
    \* the rest
    cpc,       \* where a caller is in applyConfig or shutdown
    settled    \* the keys nobody would probe now

requestVars == <<rpc, rwaits, rdone>>
workerVars == <<wpc, hand, cancelled>>
queueVars == <<trigger, targets>>
vars == <<rpc, rwaits, rdone, config, cancel, pending, demandQ, trigger,
          targets, closed, wpc, hand, cancelled, cpc, settled>>

(* probe_schedule ("periodic" stands for fixed and state_aware), probe,    *)
(* and whether probeWait() is positive.                                    *)
Configs == [schedule : {"on_demand", "periodic"}, enabled : BOOLEAN,
            waits : BOOLEAN]

OnDemandPcs == {"select", "job", "probe", "finish", "sweep",
                "drain", "drained"}
PeriodicPcs == {"ticker", "round"}
WorkerPcs == {"off", "start"} \cup OnDemandPcs \cup PeriodicPcs

(* sync.WaitGroup: a worker counts from wg.Add in startProbeLocked to the  *)
(* deferred wg.Done.                                                       *)
Live == {w \in Workers : wpc[w] # "off"}

(* The jobs on their way: in the channel, or in the hands of a worker. *)
Queued == {demandQ[i] : i \in 1..Len(demandQ)}
InHand == {hand[w] : w \in Workers} \ {None}

-----------------------------------------------------------------------------
TypeOK ==
    /\ rpc \in [Requests -> {"new", "gated", "waiting", "returned"}]
    /\ rwaits \in [Requests -> BOOLEAN]
    /\ rdone \in [Requests -> Requests \cup {None}]
    /\ config \in Configs
    /\ cancel \in Workers \cup {None}
    /\ pending \in [Keys -> Requests \cup {None}]
    /\ demandQ \in Seq(Requests) /\ Len(demandQ) <= DemandCap
    /\ trigger \in BOOLEAN
    /\ targets \in 0..TargetCap
    /\ closed \in SUBSET Requests
    /\ wpc \in [Workers -> WorkerPcs]
    /\ hand \in [Workers -> Requests \cup {None}]
    /\ cancelled \in [Workers -> BOOLEAN]
    /\ cpc \in [Callers -> {"idle", "apply", "install", "shutdown", "down"}]
    /\ settled \in SUBSET Keys

(* newRuntime: the default configuration, no worker yet. *)
Init ==
    /\ rpc = [q \in Requests |-> "new"]
    /\ rwaits = [q \in Requests |-> FALSE]
    /\ rdone = [q \in Requests |-> None]
    /\ config = [schedule |-> "periodic", enabled |-> TRUE, waits |-> TRUE]
    /\ cancel = None
    /\ pending = [k \in Keys |-> None]
    /\ demandQ = <<>>
    /\ trigger = FALSE
    /\ targets = 0
    /\ closed = {}
    /\ wpc = [w \in Workers |-> "off"]
    /\ hand = [w \in Workers |-> None]
    /\ cancelled = [w \in Workers |-> FALSE]
    /\ cpc = [c \in Callers |-> "idle"]
    /\ settled = {}

-----------------------------------------------------------------------------
(* ensureDemandProbe *)

(* The gates before the lock, on the caller's snapshot of the              *)
(* configuration: one that does not ask for demand probes, or a settled    *)
(* key, ends the call.                                                     *)
Gate(q) ==
    /\ rpc[q] = "new"
    /\ rwaits' = [rwaits EXCEPT ![q] = config.waits]
    /\ rpc' = [rpc EXCEPT ![q] =
                 IF /\ config.schedule = "on_demand"
                    /\ config.enabled
                    /\ KeyOf[q] \notin settled
                 THEN "gated" ELSE "returned"]
    /\ UNCHANGED <<rdone, config, cancel, pending, demandQ, queueVars, closed,
                   workerVars, cpc, settled>>

(* Under the lock: the worker is stopped, or no longer on demand. *)
TurnAway(q) ==
    /\ rpc[q] = "gated"
    /\ cancel = None \/ config.schedule # "on_demand"
    /\ rpc' = [rpc EXCEPT ![q] = "returned"]
    /\ UNCHANGED <<rwaits, rdone, config, cancel, pending, demandQ, queueVars,
                   closed, workerVars, cpc, settled>>

(* The lock is held and a worker on demand is there. *)
Admitted(q) ==
    /\ rpc[q] = "gated"
    /\ cancel # None
    /\ config.schedule = "on_demand"

(* After the lock: wait for the channel, unless probeWait() is zero. *)
Hold(q, done) ==
    /\ rdone' = [rdone EXCEPT ![q] = done]
    /\ rpc' = [rpc EXCEPT ![q] = IF rwaits[q] THEN "waiting" ELSE "returned"]

(* The key has a probe pending: share its channel. *)
JoinSendsAgain(q) ==
    /\ Admitted(q)
    /\ pending[KeyOf[q]] # None
    /\ Len(demandQ) < DemandCap
    /\ demandQ' = Append(demandQ, pending[KeyOf[q]])
    /\ Hold(q, pending[KeyOf[q]])
    /\ UNCHANGED <<rwaits, config, cancel, pending, queueVars, closed,
                   workerVars, cpc, settled>>
Join(q) ==
    /\ Admitted(q)
    /\ pending[KeyOf[q]] # None
    /\ Hold(q, pending[KeyOf[q]])
    /\ UNCHANGED <<rwaits, config, cancel, pending, demandQ, queueVars, closed,
                   workerVars, cpc, settled>>

(* It has none, and the send succeeds. *)
AddJob(q) ==
    /\ pending' = [pending EXCEPT ![KeyOf[q]] = q]
    /\ demandQ' = Append(demandQ, q)
    /\ Hold(q, q)
    /\ UNCHANGED <<rwaits, config, cancel, queueVars, closed, workerVars, cpc,
                   settled>>

Launch(q) ==
    /\ Admitted(q)
    /\ pending[KeyOf[q]] = None
    /\ Len(demandQ) < DemandCap
    /\ AddJob(q)

(* It has none, and the channel is full: the entry is taken back. *)
OverflowKeepsEntry(q) ==
    /\ Admitted(q)
    /\ pending[KeyOf[q]] = None
    /\ Len(demandQ) = DemandCap
    /\ pending' = [pending EXCEPT ![KeyOf[q]] = q]
    /\ rpc' = [rpc EXCEPT ![q] = "returned"]
    /\ UNCHANGED <<rwaits, rdone, config, cancel, demandQ, queueVars, closed,
                   workerVars, cpc, settled>>
Overflow(q) ==
    /\ Admitted(q)
    /\ pending[KeyOf[q]] = None
    /\ Len(demandQ) = DemandCap
    /\ rpc' = [rpc EXCEPT ![q] = "returned"]
    /\ UNCHANGED <<rwaits, rdone, config, cancel, pending, demandQ, queueVars,
                   closed, workerVars, cpc, settled>>

(* The select at the end: the channel closes, or the timer fires first. *)
Released(q) ==
    /\ rpc[q] = "waiting"
    /\ rdone[q] \in closed
    /\ rpc' = [rpc EXCEPT ![q] = "returned"]
    /\ UNCHANGED <<rwaits, rdone, config, cancel, pending, demandQ, queueVars,
                   closed, workerVars, cpc, settled>>

TimedOut(q) ==
    /\ rpc[q] = "waiting"
    /\ rpc' = [rpc EXCEPT ![q] = "returned"]
    /\ UNCHANGED <<rwaits, rdone, config, cancel, pending, demandQ, queueVars,
                   closed, workerVars, cpc, settled>>

-----------------------------------------------------------------------------
(* runProbeLoop *)

At(w, from, to) ==
    /\ wpc[w] = from
    /\ wpc' = [wpc EXCEPT ![w] = to]

(* The goroutine reads the schedule once and enters one of its two loops;  *)
(* the periodic one probes at once when the cache is empty.                *)
Boot(w) ==
    /\ IF config.schedule = "on_demand"
       THEN At(w, "start", "select")
       ELSE At(w, "start", "ticker") \/ At(w, "start", "round")
    /\ UNCHANGED <<requestVars, config, cancel, pending, demandQ, queueVars,
                   closed, hand, cancelled, cpc, settled>>

(* case job := <-demandTrigger, in the loop and in the deferred drain. *)
Receive(w) ==
    /\ \/ At(w, "select", "job")
       \/ At(w, "drain", "drained")
    /\ demandQ # <<>>
    /\ hand' = [hand EXCEPT ![w] = Head(demandQ)]
    /\ demandQ' = Tail(demandQ)
    /\ UNCHANGED <<requestVars, config, cancel, pending, queueVars, closed,
                   cancelled, cpc, settled>>

(* runDemandProbe: a key that was settled while the job was queued is not  *)
(* probed again.                                                           *)
RunDemandProbe(w) ==
    /\ wpc[w] = "job"
    /\ wpc' = [wpc EXCEPT ![w] =
                 IF KeyOf[hand[w]] \in settled THEN "finish" ELSE "probe"]
    /\ UNCHANGED <<requestVars, config, cancel, pending, demandQ, queueVars,
                   closed, hand, cancelled, cpc, settled>>

(* The probe ends: answered, failed, timed out or cancelled. *)
ProbeEnds(w) ==
    /\ At(w, "probe", "finish")
    /\ settled' \in {settled, settled \cup {KeyOf[hand[w]]}}
    /\ UNCHANGED <<requestVars, config, cancel, pending, demandQ, queueVars,
                   closed, hand, cancelled, cpc>>

(* finishDemand *)
FinishForgetsEntry(w) ==
    /\ \/ At(w, "finish", "select")
       \/ At(w, "drained", "drain")
    /\ hand' = [hand EXCEPT ![w] = None]
    /\ IF pending[KeyOf[hand[w]]] = hand[w]
       THEN closed' = closed \cup {hand[w]}
       ELSE UNCHANGED closed
    /\ UNCHANGED <<requestVars, config, cancel, pending, demandQ, queueVars,
                   cancelled, cpc, settled>>
FinishWithoutClose(w) ==
    /\ \/ At(w, "finish", "select")
       \/ At(w, "drained", "drain")
    /\ hand' = [hand EXCEPT ![w] = None]
    /\ pending' = [pending EXCEPT ![KeyOf[hand[w]]] = None]
    /\ UNCHANGED <<requestVars, config, cancel, demandQ, queueVars, closed,
                   cancelled, cpc, settled>>
FinishDemand(w) ==
    /\ \/ At(w, "finish", "select")
       \/ At(w, "drained", "drain")
    /\ hand' = [hand EXCEPT ![w] = None]
    /\ IF pending[KeyOf[hand[w]]] = hand[w]
       THEN /\ pending' = [pending EXCEPT ![KeyOf[hand[w]]] = None]
            /\ closed' = closed \cup {hand[w]}
       ELSE UNCHANGED <<pending, closed>>
    /\ UNCHANGED <<requestVars, config, cancel, demandQ, queueVars,
                   cancelled, cpc, settled>>

(* case <-trigger and case key := <-targetTrigger, in either loop. *)
TakeTrigger(w) ==
    /\ trigger
    /\ trigger' = FALSE
    /\ At(w, "select", "sweep") \/ At(w, "ticker", "round")
    /\ UNCHANGED <<requestVars, config, cancel, pending, demandQ, targets,
                   closed, hand, cancelled, cpc, settled>>

TakeTarget(w) ==
    /\ targets > 0
    /\ targets' = targets - 1
    /\ At(w, "select", "sweep") \/ At(w, "ticker", "round")
    /\ UNCHANGED <<requestVars, config, cancel, pending, demandQ, trigger,
                   closed, hand, cancelled, cpc, settled>>

(* case <-timer.C *)
TimerFires(w) ==
    /\ At(w, "ticker", "round")
    /\ UNCHANGED <<requestVars, config, cancel, pending, demandQ, queueVars,
                   closed, hand, cancelled, cpc, settled>>

(* probeAll or probeKey returns; the keys it settled on its way are steps *)
(* of Settle.                                                              *)
SweepEnds(w) ==
    /\ At(w, "sweep", "select") \/ At(w, "round", "ticker")
    /\ UNCHANGED <<requestVars, config, cancel, pending, demandQ, queueVars,
                   closed, hand, cancelled, cpc, settled>>

(* case <-ctx.Done(): the on-demand loop drains its channel first. *)
CtxDoneWithoutDrain(w) ==
    /\ cancelled[w]
    /\ At(w, "select", "off") \/ At(w, "ticker", "off")
    /\ UNCHANGED <<requestVars, config, cancel, pending, demandQ, queueVars,
                   closed, hand, cancelled, cpc, settled>>
CtxDoneOnlyPeriodic(w) ==
    /\ cancelled[w]
    /\ At(w, "ticker", "off")
    /\ UNCHANGED <<requestVars, config, cancel, pending, demandQ, queueVars,
                   closed, hand, cancelled, cpc, settled>>
CtxDone(w) ==
    /\ cancelled[w]
    /\ At(w, "select", "drain") \/ At(w, "ticker", "off")
    /\ UNCHANGED <<requestVars, config, cancel, pending, demandQ, queueVars,
                   closed, hand, cancelled, cpc, settled>>

(* The drain finds the channel empty: the goroutine ends. *)
DrainEnds(w) ==
    /\ At(w, "drain", "off")
    /\ demandQ = <<>>
    /\ UNCHANGED <<requestVars, config, cancel, pending, demandQ, queueVars,
                   closed, hand, cancelled, cpc, settled>>

-----------------------------------------------------------------------------
(* applyConfig and shutdown *)

(* stopProbeLocked, in its own critical section. *)
StopKeepsCancel ==
    /\ UNCHANGED cancel
    /\ cancelled' = [w \in Workers |-> cancelled[w] \/ w = cancel]
StopProbe ==
    /\ cancel' = None
    /\ cancelled' = [w \in Workers |-> cancelled[w] \/ w = cancel]

StopToApply(c) ==
    /\ cpc[c] \in {"idle", "down"}
    /\ cpc' = [cpc EXCEPT ![c] = "apply"]
    /\ StopProbe
    /\ UNCHANGED <<requestVars, config, pending, demandQ, queueVars, closed,
                   wpc, hand, settled>>

StopToShutdown(c) ==
    /\ cpc[c] \in {"idle", "down"}
    /\ cpc' = [cpc EXCEPT ![c] = "shutdown"]
    /\ StopProbe
    /\ UNCHANGED <<requestVars, config, pending, demandQ, queueVars, closed,
                   wpc, hand, settled>>

(* wg.Wait() returns. *)
WaitReturns(c) ==
    /\ Live = {}
    /\ \/ cpc[c] = "apply" /\ cpc' = [cpc EXCEPT ![c] = "install"]
       \/ cpc[c] = "shutdown" /\ cpc' = [cpc EXCEPT ![c] = "down"]
    /\ UNCHANGED <<requestVars, config, cancel, pending, demandQ, queueVars,
                   closed, workerVars, settled>>

(* The second critical section: the new configuration, and a new worker    *)
(* (startProbeLocked) when it wants one.  The cache and the other state it *)
(* rearms are the subject of other modules.                                *)
Install(c) ==
    /\ cpc[c] = "install"
    /\ cpc' = [cpc EXCEPT ![c] = "idle"]
    /\ config' \in Configs
    /\ IF config'.enabled
       THEN \E w \in Workers \ Live :
              /\ wpc' = [wpc EXCEPT ![w] = "start"]
              /\ cancelled' = [cancelled EXCEPT ![w] = FALSE]
              /\ cancel' = w
       ELSE UNCHANGED <<wpc, cancelled, cancel>>
    /\ UNCHANGED <<requestVars, pending, demandQ, queueVars, closed, hand,
                   settled>>

-----------------------------------------------------------------------------
(* The rest of the plugin *)

(* triggerProbe, from the management page or after saving a selection:     *)
(* dropped when one is waiting.                                            *)
TriggerProbe ==
    /\ ~trigger
    /\ trigger' = TRUE
    /\ UNCHANGED <<requestVars, config, cancel, pending, demandQ, targets,
                   closed, workerVars, cpc, settled>>

(* triggerTargetProbe: refused when probing is off, the key is settled or  *)
(* the channel is full.                                                    *)
TriggerTargetProbe(k) ==
    /\ config.enabled
    /\ k \notin settled
    /\ targets < TargetCap
    /\ targets' = targets + 1
    /\ UNCHANGED <<requestVars, config, cancel, pending, demandQ, trigger,
                   closed, workerVars, cpc, settled>>

(* Production traffic and the clock settle and unsettle keys. *)
Settle(k) ==
    /\ settled' \in {settled \cup {k}, settled \ {k}}
    /\ UNCHANGED <<requestVars, config, cancel, pending, demandQ, queueVars,
                   closed, workerVars, cpc>>

-----------------------------------------------------------------------------
RequestStep(q) ==
    \/ Gate(q) \/ TurnAway(q) \/ Join(q) \/ Launch(q) \/ Overflow(q)
    \/ Released(q) \/ TimedOut(q)

WorkerStep(w) ==
    \/ Boot(w) \/ Receive(w) \/ RunDemandProbe(w) \/ ProbeEnds(w)
    \/ FinishDemand(w) \/ TakeTrigger(w) \/ TakeTarget(w) \/ TimerFires(w)
    \/ SweepEnds(w) \/ CtxDone(w) \/ DrainEnds(w)

CallerStep(c) ==
    \/ StopToApply(c) \/ StopToShutdown(c) \/ WaitReturns(c) \/ Install(c)

Next ==
    \/ \E q \in Requests : RequestStep(q)
    \/ \E w \in Workers : WorkerStep(w)
    \/ \E c \in Callers : CallerStep(c)
    \/ TriggerProbe
    \/ \E k \in Keys : TriggerTargetProbe(k) \/ Settle(k)

Spec == Init /\ [][Next]_vars

(* What the Go runtime grants.  A goroutine that can move does.  A demand  *)
(* probe ends, for its context has a deadline (probeTimeout); a sweep has  *)
(* no timeout of its own, so only the cancellation of the worker is sure   *)
(* to end it.  select picks at random among the ready cases, so a case     *)
(* that is ready again and again is taken: strong fairness for the receipt *)
(* of a job and for ctx.Done().  Nothing is assumed of requests coming, of *)
(* the host calling, nor of the timer of a waiting request.                *)
Fairness ==
    /\ \A q \in Requests :
         WF_vars(TurnAway(q) \/ Join(q) \/ Launch(q) \/ Overflow(q))
    /\ \A q \in Requests : WF_vars(Released(q))
    /\ \A w \in Workers :
         /\ WF_vars(Boot(w)) /\ WF_vars(RunDemandProbe(w))
         /\ WF_vars(ProbeEnds(w)) /\ WF_vars(FinishDemand(w))
         /\ WF_vars(cancelled[w] /\ SweepEnds(w)) /\ WF_vars(DrainEnds(w))
         /\ SF_vars(Receive(w)) /\ SF_vars(CtxDone(w))
    /\ \A c \in Callers : WF_vars(WaitReturns(c)) /\ WF_vars(Install(c))

FairSpec == Spec /\ Fairness

-----------------------------------------------------------------------------
(* The pending table and the jobs on their way agree (ensureDemandProbe    *)
(* fills both, finishDemand clears the table): every pending key has its   *)
(* job in exactly one place, every job on its way is the one pending for   *)
(* its key.  So no key is probed twice at once for its requests, and the   *)
(* comparison in finishDemand never finds a foreign channel.               *)
OneFlightPerKey ==
    /\ {pending[k] : k \in Keys} \ {None} = Queued \cup InHand
    /\ \A k \in Keys : pending[k] # None => KeyOf[pending[k]] = k
    /\ Queued \cap InHand = {}
    /\ \A i, j \in 1..Len(demandQ) : demandQ[i] = demandQ[j] => i = j
    /\ \A v, w \in Workers : hand[v] = hand[w] /\ hand[v] # None => v = w

(* finishDemand closes the channel of the job it holds: a job on its way   *)
(* never carries a channel that is closed already (close would panic).     *)
NeverClosedTwice == (Queued \cup InHand) \cap closed = {}

(* A request that waits holds a channel that is closed or that some job on *)
(* its way will close: whatever was joined, reconfigured or dropped in     *)
(* between, nobody waits for a channel nothing refers to any more.         *)
WaitersAnswerable ==
    \A q \in Requests :
      rpc[q] = "waiting" => rdone[q] \in closed \cup Queued \cup InHand

(* "All network work stays on the lifecycle worker": there is one at most, *)
(* through any sequence of reconfigurations and shutdowns.                 *)
OneWorker == \A v, w \in Live : v = w

(* When wg.Wait has returned, in shutdown or in applyConfig before the new *)
(* configuration, the old worker has left nothing behind: no entry         *)
(* pending, no job queued, and every waiting request can leave.            *)
StopLeavesNothing ==
    \A c \in Callers : cpc[c] \in {"install", "down"} =>
      /\ Live = {} /\ cancel = None
      /\ demandQ = <<>>
      /\ \A k \in Keys : pending[k] = None
      /\ \A q \in Requests : rpc[q] = "waiting" => rdone[q] \in closed

(* Once a worker is cancelled, no request enqueues a job on the channel it *)
(* drains (the cancel and the send are under the same lock), so the drain  *)
(* sees the channel shrink only.                                           *)
NoJobForACancelledWorker ==
    [][\A w \in Workers : wpc[w] \in {"drain", "drained"} =>
         Len(demandQ') <= Len(demandQ)]_vars

(* applyConfig and shutdown return, whatever the requests and the triggers *)
(* keep the worker busy with.                                              *)
CallersReturn ==
    \A c \in Callers :
      cpc[c] \in {"apply", "shutdown"} ~> cpc[c] \in {"idle", "down"}

(* The upstream answers the sweeps, or closes on them: none hangs for ever *)
(* and keeps the worker from its channel.                                  *)
SweepsReturn ==
    \A w \in Workers : []<>(wpc[w] \notin {"sweep", "round"})

(* A request that waits is released even if its own timer never fires, as  *)
(* long as the sweeps of the same worker return.                           *)
WaitersReturn ==
    SweepsReturn =>
      \A q \in Requests : rpc[q] = "waiting" ~> rpc[q] = "returned"

(* The shared promise: jobs in the table are flights, closed channels are  *)
(* landed ones.                                                            *)
Stage == [q \in Requests |->
            CASE rpc[q] \in {"new", "gated"} -> "new"
              [] rpc[q] = "waiting" -> "aboard"
              [] OTHER -> "left"]
SF == INSTANCE SingleFlight WITH stage <- Stage, boarded <- rdone,
                                 flight <- pending, landed <- closed
(* The worker, its channel and its restarts implement SingleFlight: its    *)
(* steps always, and that flights land as long as the sweeps return.       *)
ImplementsSingleFlight == SF!SafeSpec /\ (SweepsReturn => SF!Liveness)

=============================================================================
