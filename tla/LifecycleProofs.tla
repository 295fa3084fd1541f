-------------------------- MODULE LifecycleProofs --------------------------
(***************************************************************************)
(* The safety properties of Lifecycle for every number of requests, keys,  *)
(* goroutines, host threads and every channel capacity.                    *)
(*                                                                         *)
(* The properties are not inductive: that every pending key has a job says *)
(* nothing of the channels already closed, nor of requests that have not   *)
(* come yet and whose name must still be free.  JobInv adds both.          *)
(***************************************************************************)
EXTENDS Lifecycle, TLAPS

(* A worker holds a job exactly where runDemandProbe or the drain has one. *)
Holding == {"job", "probe", "finish", "drained"}
HandInv == \A w \in Workers : hand[w] # None <=> wpc[w] \in Holding

(* What is true of a job on its way. *)
OnItsWay(q) ==
    /\ pending[KeyOf[q]] = q
    /\ q \notin closed
    /\ rpc[q] \in {"waiting", "returned"}

Carried(q) ==
    \/ \E i \in 1..Len(demandQ) : demandQ[i] = q
    \/ \E w \in Workers : hand[w] = q

JobsOnTheirWay ==
    /\ \A i \in 1..Len(demandQ) : OnItsWay(demandQ[i])
    /\ \A w \in Workers : hand[w] # None => OnItsWay(hand[w])

JobsDistinct ==
    /\ \A i, j \in 1..Len(demandQ) : demandQ[i] = demandQ[j] => i = j
    /\ \A v, w \in Workers : hand[v] = hand[w] /\ hand[v] # None => v = w
    /\ \A i \in 1..Len(demandQ), w \in Workers : demandQ[i] # hand[w]

PendingCarried ==
    \A k \in Keys : pending[k] # None =>
      KeyOf[pending[k]] = k /\ Carried(pending[k])

(* Only requests that are through with the lock have a channel closed. *)
ClosedWasOpened == \A q \in closed : rpc[q] \in {"waiting", "returned"}

WaitersServed ==
    \A q \in Requests : rpc[q] = "waiting" =>
      /\ rdone[q] # None
      /\ rdone[q] \in closed \/ pending[KeyOf[rdone[q]]] = rdone[q]

JobInv ==
    /\ JobsOnTheirWay
    /\ JobsDistinct
    /\ PendingCarried
    /\ ClosedWasOpened
    /\ WaitersServed

-----------------------------------------------------------------------------
(* What the channel holds after a send and after a receipt. *)
LEMMA SendFacts ==
    ASSUME NEW S, NEW s \in Seq(S), NEW e \in S
    PROVE  /\ Append(s, e) \in Seq(S)
           /\ Len(Append(s, e)) = Len(s) + 1
           /\ \A i \in 1..Len(s) : Append(s, e)[i] = s[i]
           /\ Append(s, e)[Len(s) + 1] = e
  OBVIOUS

LEMMA ReceiveFacts ==
    ASSUME NEW S, NEW s \in Seq(S), s # <<>>
    PROVE  /\ Head(s) \in S /\ Head(s) = s[1]
           /\ 1 \in 1..Len(s)
           /\ Tail(s) \in Seq(S)
           /\ Len(Tail(s)) = Len(s) - 1
           /\ \A i \in 1..Len(Tail(s)) :
                Tail(s)[i] = s[i + 1] /\ i + 1 \in 1..Len(s)
           /\ \A i \in 1..Len(s) : i # 1 =>
                i - 1 \in 1..Len(Tail(s)) /\ Tail(s)[i - 1] = s[i]
  OBVIOUS

-----------------------------------------------------------------------------
(* The shapes of all variables survive every step: the channel never holds *)
(* more than its capacity, and only a declared goroutine is ever started.  *)
LEMMA TypeInit == Init => TypeOK
  <1> SUFFICES ASSUME Init PROVE TypeOK
    OBVIOUS
  <1> USE DEF Init
  <1>1. config \in Configs
    BY DEF Configs
  <1>2. demandQ \in Seq(Requests) /\ Len(demandQ) <= DemandCap
    BY LifecycleAssumption DEF LifecycleAssumption
  <1>3. targets \in 0..TargetCap
    BY LifecycleAssumption DEF LifecycleAssumption
  <1>4. trigger \in BOOLEAN
    OBVIOUS
  <1>5. QED
    BY <1>1, <1>2, <1>3, <1>4 DEF TypeOK, WorkerPcs

LEMMA TypeStep == TypeOK /\ HandInv /\ [Next]_vars => TypeOK'
  <1> SUFFICES ASSUME TypeOK, HandInv, [Next]_vars PROVE TypeOK'
    OBVIOUS
  <1> USE LifecycleAssumption DEF TypeOK, requestVars, workerVars, queueVars
  <1>1. ASSUME NEW q \in Requests, RequestStep(q) PROVE TypeOK'
    <2>1. CASE Gate(q)
      BY <2>1 DEF Gate, Configs
    <2>2. CASE TurnAway(q)
      BY <2>2 DEF TurnAway
    <2>3. CASE Join(q)
      BY <2>3 DEF Join, Admitted, Hold
    <2>4. CASE Launch(q)
      BY <2>4, SendFacts DEF Launch, AddJob, Admitted, Hold
    <2>5. CASE Overflow(q)
      BY <2>5 DEF Overflow, Admitted
    <2>6. CASE Released(q) \/ TimedOut(q)
      BY <2>6 DEF Released, TimedOut
    <2>7. QED
      BY <1>1, <2>1, <2>2, <2>3, <2>4, <2>5, <2>6 DEF RequestStep
  <1>2. ASSUME NEW w \in Workers, WorkerStep(w) PROVE TypeOK'
    <2> USE DEF At, WorkerPcs, OnDemandPcs, PeriodicPcs
    <2>1. CASE Boot(w)
      BY <2>1 DEF Boot
    <2>2. CASE Receive(w)
      BY <2>2, ReceiveFacts DEF Receive
    <2>3. CASE RunDemandProbe(w)
      BY <2>3 DEF RunDemandProbe
    <2>4. CASE ProbeEnds(w)
      <3>1. hand[w] \in Requests
        BY <2>4 DEF ProbeEnds, HandInv, Holding
      <3>2. QED
        BY <2>4, <3>1 DEF ProbeEnds
    <2>5. CASE FinishDemand(w)
      <3>1. hand[w] \in Requests
        BY <2>5 DEF FinishDemand, HandInv, Holding
      <3>2. QED
        BY <2>5, <3>1 DEF FinishDemand
    <2>6. CASE TakeTrigger(w) \/ TakeTarget(w)
      <3>1. trigger' \in BOOLEAN
        BY <2>6 DEF TakeTrigger, TakeTarget
      <3>2. targets' \in 0..TargetCap
        BY <2>6 DEF TakeTrigger, TakeTarget
      <3>3. QED
        BY <2>6, <3>1, <3>2 DEF TakeTrigger, TakeTarget
    <2>7. CASE TimerFires(w) \/ SweepEnds(w)
      BY <2>7 DEF TimerFires, SweepEnds
    <2>8. CASE CtxDone(w) \/ DrainEnds(w)
      BY <2>8 DEF CtxDone, DrainEnds
    <2>9. QED
      BY <1>2, <2>1, <2>2, <2>3, <2>4, <2>5, <2>6, <2>7, <2>8 DEF WorkerStep
  <1>3. ASSUME NEW c \in Callers, CallerStep(c) PROVE TypeOK'
    <2>1. CASE StopToApply(c) \/ StopToShutdown(c)
      BY <2>1 DEF StopToApply, StopToShutdown, StopProbe
    <2>2. CASE WaitReturns(c)
      BY <2>2 DEF WaitReturns
    <2>3. CASE Install(c)
      BY <2>3 DEF Install, Live, WorkerPcs
    <2>4. QED
      BY <1>3, <2>1, <2>2, <2>3 DEF CallerStep
  <1>4. CASE TriggerProbe
    BY <1>4 DEF TriggerProbe
  <1>5. ASSUME NEW k \in Keys, TriggerTargetProbe(k) \/ Settle(k)
        PROVE  TypeOK'
    BY <1>5 DEF TriggerTargetProbe, Settle
  <1>6. CASE UNCHANGED vars
    BY <1>6 DEF vars
  <1>7. QED
    BY <1>1, <1>2, <1>3, <1>4, <1>5, <1>6 DEF Next

LEMMA HandStep == TypeOK /\ HandInv /\ [Next]_vars => HandInv'
  <1> SUFFICES ASSUME TypeOK, HandInv, [Next]_vars PROVE HandInv'
    OBVIOUS
  <1> USE LifecycleAssumption DEF TypeOK, HandInv, Holding
  <1>1. ASSUME NEW q \in Requests, RequestStep(q) PROVE HandInv'
    BY <1>1 DEF RequestStep, Gate, TurnAway, Join, Launch, AddJob, Overflow,
                Released, TimedOut, workerVars
  <1>2. ASSUME NEW w \in Workers, WorkerStep(w) PROVE HandInv'
    <2> USE DEF At, WorkerPcs, OnDemandPcs, PeriodicPcs
    <2>1. CASE Receive(w)
      <3>1. hand' = [hand EXCEPT ![w] = Head(demandQ)] /\ Head(demandQ) # None
        BY <2>1, ReceiveFacts DEF Receive
      <3>2. QED
        BY <2>1, <3>1 DEF Receive
    <2>2. CASE FinishDemand(w)
      BY <2>2 DEF FinishDemand
    <2>3. CASE RunDemandProbe(w) \/ ProbeEnds(w)
      BY <2>3 DEF RunDemandProbe, ProbeEnds
    <2>4. CASE Boot(w) \/ TakeTrigger(w) \/ TakeTarget(w) \/ TimerFires(w)
      BY <2>4 DEF Boot, TakeTrigger, TakeTarget, TimerFires
    <2>5. CASE SweepEnds(w) \/ CtxDone(w) \/ DrainEnds(w)
      BY <2>5 DEF SweepEnds, CtxDone, DrainEnds
    <2>6. QED
      BY <1>2, <2>1, <2>2, <2>3, <2>4, <2>5 DEF WorkerStep
  <1>3. ASSUME NEW c \in Callers, CallerStep(c) PROVE HandInv'
    BY <1>3 DEF CallerStep, StopToApply, StopToShutdown, WaitReturns, Install,
                Live, workerVars
  <1>4. CASE TriggerProbe
    BY <1>4 DEF TriggerProbe, workerVars
  <1>5. ASSUME NEW k \in Keys, TriggerTargetProbe(k) \/ Settle(k)
        PROVE  HandInv'
    BY <1>5 DEF TriggerTargetProbe, Settle, workerVars
  <1>6. CASE UNCHANGED vars
    BY <1>6 DEF vars
  <1>7. QED
    BY <1>1, <1>2, <1>3, <1>4, <1>5, <1>6 DEF Next

(* Type correctness of the worker, its channels and its callers: the       *)
(* channels stay within their capacities through every interleaving.       *)
THEOREM TypeCorrect == Spec => []TypeOK
  <1>1. Init => TypeOK /\ HandInv
    BY TypeInit DEF Init, HandInv, Holding
  <1>2. TypeOK /\ HandInv /\ [Next]_vars => (TypeOK /\ HandInv)'
    BY TypeStep, HandStep
  <1>3. QED
    BY <1>1, <1>2, PTL DEF Spec
-----------------------------------------------------------------------------
LEMMA JobInit == Init => JobInv
  BY DEF Init, JobInv, JobsOnTheirWay, JobsDistinct, PendingCarried,
         ClosedWasOpened, WaitersServed

(* A step that moves no job and answers no request. *)
LEMMA JobUnchanged ==
    JobInv /\ UNCHANGED <<rpc, rdone, pending, demandQ, closed, hand>> => JobInv'
  BY DEF JobInv, JobsOnTheirWay, JobsDistinct, PendingCarried, ClosedWasOpened,
         WaitersServed, OnItsWay, Carried

(* A step that lets a request go on without touching the jobs. *)
LEMMA JobRequestMoves ==
    ASSUME TypeOK, JobInv, NEW q \in Requests,
           NEW s \in {"gated", "returned"},
           s = "gated" => rpc[q] = "new",
           rpc' = [rpc EXCEPT ![q] = s],
           UNCHANGED <<rdone, pending, demandQ, closed, hand>>
    PROVE  JobInv'
  <1> USE DEF TypeOK
  <1>1. \A d \in Requests : OnItsWay(d) => OnItsWay(d)'
    BY DEF OnItsWay
  <1>2. JobsOnTheirWay'
    BY <1>1, LifecycleAssumption DEF JobInv, JobsOnTheirWay
  <1>3. JobsDistinct' /\ PendingCarried'
    BY DEF JobInv, JobsDistinct, PendingCarried, Carried
  <1>4. ClosedWasOpened' /\ WaitersServed'
    BY DEF JobInv, ClosedWasOpened, WaitersServed
  <1>5. QED
    BY <1>2, <1>3, <1>4 DEF JobInv

LEMMA JobJoin ==
    ASSUME TypeOK, JobInv, NEW q \in Requests, Join(q)
    PROVE  JobInv'
  <1> USE LifecycleAssumption DEF TypeOK, Join, Admitted, Hold
  <1>1. \A d \in Requests : OnItsWay(d) => OnItsWay(d)'
    BY DEF OnItsWay
  <1>2. JobsOnTheirWay'
    BY <1>1 DEF JobInv, JobsOnTheirWay, workerVars
  <1>3. JobsDistinct' /\ PendingCarried'
    BY DEF JobInv, JobsDistinct, PendingCarried, Carried, workerVars
  <1>4. ClosedWasOpened'
    BY DEF JobInv, ClosedWasOpened
  <1>5. WaitersServed'
    BY DEF JobInv, WaitersServed, PendingCarried
  <1>6. QED
    BY <1>2, <1>3, <1>4, <1>5 DEF JobInv

(* A request that has not been through the lock names a job nobody has. *)
LEMMA JobLaunch ==
    ASSUME TypeOK, JobInv, NEW q \in Requests, Launch(q)
    PROVE  JobInv'
  <1> USE LifecycleAssumption DEF TypeOK
  <1>1. /\ rpc[q] = "gated" /\ pending[KeyOf[q]] = None
        /\ KeyOf[q] \in Keys /\ q # None
        /\ pending' = [pending EXCEPT ![KeyOf[q]] = q]
        /\ rdone' = [rdone EXCEPT ![q] = q]
        /\ rpc' \in [Requests -> {"new", "gated", "waiting", "returned"}]
        /\ rpc'[q] \in {"waiting", "returned"}
        /\ \A d \in Requests : d # q => rpc'[d] = rpc[d]
        /\ UNCHANGED <<closed, hand>>
    BY DEF Launch, AddJob, Admitted, Hold, workerVars
  <1>2. /\ demandQ' \in Seq(Requests)
        /\ Len(demandQ') = Len(demandQ) + 1
        /\ \A i \in 1..Len(demandQ) : demandQ'[i] = demandQ[i]
        /\ demandQ'[Len(demandQ) + 1] = q
        /\ Len(demandQ) \in Nat
    BY SendFacts DEF Launch, AddJob
  <1>3. ~OnItsWay(q) /\ q \notin closed
    BY <1>1 DEF OnItsWay, JobInv, ClosedWasOpened
  <1>4. OnItsWay(q)'
    BY <1>1, <1>3 DEF OnItsWay
  <1>5. \A d \in Requests : OnItsWay(d) => OnItsWay(d)'
    BY <1>1 DEF OnItsWay
  <1>6. JobsOnTheirWay'
    <2>1. \A i \in 1..Len(demandQ') : OnItsWay(demandQ[i])'
      <3>1. TAKE i \in 1..Len(demandQ')
      <3>2. CASE i = Len(demandQ) + 1
        BY <1>2, <1>4, <3>2 DEF OnItsWay
      <3>3. CASE i # Len(demandQ) + 1
        <4>1. i \in 1..Len(demandQ)
          BY <1>2, <3>3
        <4>2. OnItsWay(demandQ[i]) /\ demandQ[i] \in Requests
          BY <4>1 DEF JobInv, JobsOnTheirWay
        <4>3. QED
          BY <1>2, <1>5, <4>1, <4>2 DEF OnItsWay
      <3>4. QED
        BY <3>2, <3>3
    <2>2. \A w \in Workers : hand'[w] # None => OnItsWay(hand[w])'
      BY <1>1, <1>5 DEF JobInv, JobsOnTheirWay, OnItsWay
    <2>3. QED
      BY <2>1, <2>2 DEF JobsOnTheirWay
  <1>7. JobsDistinct'
    <2>1. \A i \in 1..Len(demandQ) : demandQ[i] # q
      BY <1>3 DEF JobInv, JobsOnTheirWay
    <2>2. \A w \in Workers : hand[w] # q
      BY <1>1, <1>3 DEF JobInv, JobsOnTheirWay
    <2>3. \A i, j \in 1..Len(demandQ') : demandQ'[i] = demandQ'[j] => i = j
      <3>1. TAKE i, j \in 1..Len(demandQ')
      <3>2. \A n \in 1..Len(demandQ') :
              \/ n \in 1..Len(demandQ) /\ demandQ'[n] = demandQ[n]
              \/ n = Len(demandQ) + 1 /\ demandQ'[n] = q
        BY <1>2
      <3>3. QED
        BY <2>1, <3>2 DEF JobInv, JobsDistinct
    <2>4. \A i \in 1..Len(demandQ'), w \in Workers : demandQ'[i] # hand'[w]
      <3>1. TAKE i \in 1..Len(demandQ'), w \in Workers
      <3>2. \/ i \in 1..Len(demandQ) /\ demandQ'[i] = demandQ[i]
            \/ demandQ'[i] = q
        BY <1>2
      <3>3. QED
        BY <1>1, <2>2, <3>2 DEF JobInv, JobsDistinct
    <2>5. QED
      BY <1>1, <2>3, <2>4 DEF JobInv, JobsDistinct
  <1>8. PendingCarried'
    <2>1. Carried(q)'
      BY <1>2 DEF Carried
    <2>2. \A d \in Requests : Carried(d) => Carried(d)'
      BY <1>1, <1>2 DEF Carried
    <2>3. QED
      BY <1>1, <2>1, <2>2 DEF JobInv, PendingCarried
  <1>9. ClosedWasOpened'
    BY <1>1 DEF JobInv, ClosedWasOpened
  <1>10. WaitersServed'
    BY <1>1 DEF JobInv, WaitersServed
  <1>11. QED
    BY <1>6, <1>7, <1>8, <1>9, <1>10 DEF JobInv

LEMMA JobReceive ==
    ASSUME TypeOK, HandInv, JobInv, NEW w \in Workers, Receive(w)
    PROVE  JobInv'
  <1> USE LifecycleAssumption DEF TypeOK
  <1>1. /\ hand[w] = None
        /\ hand' = [hand EXCEPT ![w] = demandQ[1]]
        /\ demandQ[1] \in Requests /\ demandQ[1] # None
        /\ UNCHANGED <<rpc, rdone, pending, closed>>
    BY ReceiveFacts DEF Receive, At, HandInv, Holding, requestVars
  <1>2. /\ 1 \in 1..Len(demandQ)
        /\ demandQ' \in Seq(Requests) /\ Len(demandQ') \in Nat
        /\ \A i \in 1..Len(demandQ') :
             demandQ'[i] = demandQ[i + 1] /\ i + 1 \in 1..Len(demandQ)
        /\ \A i \in 1..Len(demandQ) : i # 1 =>
             i - 1 \in 1..Len(demandQ') /\ demandQ'[i - 1] = demandQ[i]
    BY ReceiveFacts DEF Receive
  <1>3. \A d \in Requests : OnItsWay(d) => OnItsWay(d)'
    BY <1>1 DEF OnItsWay
  <1>4. JobsOnTheirWay'
    <2>1. OnItsWay(demandQ[1])
      BY <1>2 DEF JobInv, JobsOnTheirWay
    <2>2. \A v \in Workers : hand'[v] # None => OnItsWay(hand[v])'
      BY <1>1, <1>3, <2>1 DEF JobInv, JobsOnTheirWay, OnItsWay
    <2>3. \A i \in 1..Len(demandQ') : OnItsWay(demandQ[i])'
      <3>1. TAKE i \in 1..Len(demandQ')
      <3>2. demandQ'[i] = demandQ[i + 1] /\ i + 1 \in 1..Len(demandQ)
        BY <1>2
      <3>3. OnItsWay(demandQ[i + 1])
        BY <3>2 DEF JobInv, JobsOnTheirWay
      <3>4. QED
        BY <1>1, <3>2, <3>3 DEF OnItsWay
    <2>4. QED
      BY <2>2, <2>3 DEF JobsOnTheirWay
  <1>5. JobsDistinct'
    <2>1. \A i, j \in 1..Len(demandQ') : demandQ'[i] = demandQ'[j] => i = j
      <3>1. TAKE i, j \in 1..Len(demandQ')
      <3>2. HAVE demandQ'[i] = demandQ'[j]
      <3>3. demandQ[i + 1] = demandQ[j + 1]
        BY <1>2, <3>2
      <3>4. i + 1 = j + 1
        BY <1>2, <3>3 DEF JobInv, JobsDistinct
      <3>5. QED
        BY <1>2, <3>4
    <2>2. \A i \in 1..Len(demandQ') : demandQ'[i] # demandQ[1]
      BY <1>2 DEF JobInv, JobsDistinct
    <2>3. \A v \in Workers : hand[v] # demandQ[1]
      BY <1>2 DEF JobInv, JobsDistinct
    <2>4. \A u, v \in Workers : hand'[u] = hand'[v] /\ hand'[u] # None => u = v
      BY <1>1, <2>3 DEF JobInv, JobsDistinct
    <2>5. \A i \in 1..Len(demandQ'), v \in Workers : demandQ'[i] # hand'[v]
      <3>1. TAKE i \in 1..Len(demandQ'), v \in Workers
      <3>2. CASE v = w
        BY <1>1, <2>2, <3>2
      <3>3. CASE v # w
        <4>1. demandQ'[i] = demandQ[i + 1] /\ i + 1 \in 1..Len(demandQ)
          BY <1>2
        <4>2. hand'[v] = hand[v]
          BY <1>1, <3>3
        <4>3. QED
          BY <4>1, <4>2 DEF JobInv, JobsDistinct
      <3>4. QED
        BY <3>2, <3>3
    <2>6. QED
      BY <2>1, <2>4, <2>5 DEF JobsDistinct
  <1>6. PendingCarried'
    <2>1. ASSUME NEW d \in Requests, Carried(d) PROVE Carried(d)'
      <3>1. CASE d = demandQ[1]
        BY <1>1, <3>1 DEF Carried
      <3>2. CASE d # demandQ[1] /\ \E i \in 1..Len(demandQ) : demandQ[i] = d
        BY <1>2, <3>2 DEF Carried
      <3>3. CASE \E v \in Workers : hand[v] = d
        BY <1>1, <3>3, LifecycleAssumption DEF Carried
      <3>4. QED
        BY <2>1, <3>1, <3>2, <3>3 DEF Carried
    <2>2. QED
      BY <1>1, <2>1 DEF JobInv, PendingCarried
  <1>7. ClosedWasOpened' /\ WaitersServed'
    BY <1>1 DEF JobInv, ClosedWasOpened, WaitersServed
  <1>8. QED
    BY <1>4, <1>5, <1>6, <1>7 DEF JobInv

(* finishDemand finds its own channel in the table, always. *)
LEMMA FinishFindsItsOwn ==
    ASSUME TypeOK, HandInv, JobInv, NEW w \in Workers, FinishDemand(w)
    PROVE  /\ hand[w] \in Requests /\ hand[w] # None
           /\ OnItsWay(hand[w])
           /\ hand' = [hand EXCEPT ![w] = None]
           /\ pending' = [pending EXCEPT ![KeyOf[hand[w]]] = None]
           /\ closed' = closed \cup {hand[w]}
           /\ UNCHANGED <<rpc, rdone, demandQ>>
  <1>1. hand[w] # None /\ hand[w] \in Requests
    BY LifecycleAssumption DEF FinishDemand, At, HandInv, Holding, TypeOK
  <1>2. OnItsWay(hand[w])
    BY <1>1 DEF JobInv, JobsOnTheirWay
  <1>3. QED
    BY <1>1, <1>2 DEF FinishDemand, OnItsWay, requestVars

LEMMA JobFinish ==
    ASSUME TypeOK, HandInv, JobInv, NEW w \in Workers, FinishDemand(w)
    PROVE  JobInv'
  <1> DEFINE q == hand[w]
  <1> USE LifecycleAssumption DEF TypeOK
  <1>1. /\ q \in Requests /\ q # None
        /\ OnItsWay(q)
        /\ hand' = [hand EXCEPT ![w] = None]
        /\ pending' = [pending EXCEPT ![KeyOf[q]] = None]
        /\ closed' = closed \cup {q}
        /\ UNCHANGED <<rpc, rdone, demandQ>>
    BY FinishFindsItsOwn
  <1> HIDE DEF q
  <1>2. \A d \in Requests : OnItsWay(d) /\ d # q => OnItsWay(d)'
    BY <1>1 DEF OnItsWay
  <1>3. /\ \A i \in 1..Len(demandQ) : demandQ[i] # q
        /\ \A v \in Workers : hand[v] = q => v = w
    BY <1>1 DEF JobInv, JobsDistinct, q
  <1>4. JobsOnTheirWay'
    BY <1>1, <1>2, <1>3 DEF JobInv, JobsOnTheirWay
  <1>5. JobsDistinct'
    <2>1. \A v \in Workers : hand'[v] # None => hand'[v] = hand[v]
      BY <1>1
    <2>2. \A i \in 1..Len(demandQ), v \in Workers : demandQ[i] # hand'[v]
      <3>1. \A i \in 1..Len(demandQ) : demandQ[i] \in Requests
        OBVIOUS
      <3>2. QED
        BY <2>1, <3>1 DEF JobInv, JobsDistinct
    <2>3. \A u, v \in Workers : hand'[u] = hand'[v] /\ hand'[u] # None => u = v
      BY <2>1 DEF JobInv, JobsDistinct
    <2>4. UNCHANGED demandQ
      BY <1>1
    <2>5. QED
      BY <2>2, <2>3, <2>4 DEF JobInv, JobsDistinct
  <1>6. PendingCarried'
    <2>1. \A d \in Requests : Carried(d) /\ d # q => Carried(d)'
      BY <1>1 DEF Carried, q
    <2>2. \A k \in Keys : pending'[k] # None =>
            pending'[k] = pending[k] /\ pending[k] # q
      BY <1>1 DEF JobInv, PendingCarried
    <2>3. QED
      BY <2>1, <2>2 DEF JobInv, PendingCarried
  <1>7. ClosedWasOpened'
    BY <1>1 DEF JobInv, ClosedWasOpened, OnItsWay
  <1>8. WaitersServed'
    <2>1. \A d \in Requests : d # q /\ pending[KeyOf[d]] = d =>
            pending'[KeyOf[d]] = d
      BY <1>1 DEF OnItsWay
    <2>2. QED
      BY <1>1, <2>1 DEF JobInv, WaitersServed
  <1>9. QED
    BY <1>4, <1>5, <1>6, <1>7, <1>8 DEF JobInv

LEMMA JobStep == TypeOK /\ HandInv /\ JobInv /\ [Next]_vars => JobInv'
  <1> SUFFICES ASSUME TypeOK, HandInv, JobInv, [Next]_vars PROVE JobInv'
    OBVIOUS
  <1>1. ASSUME NEW q \in Requests, RequestStep(q) PROVE JobInv'
    <2>1. CASE Gate(q)
      <3>1. \E s \in {"gated", "returned"} : rpc' = [rpc EXCEPT ![q] = s]
        BY <2>1 DEF Gate
      <3>2. QED
        BY <2>1, <3>1, JobRequestMoves DEF Gate, workerVars
    <2>2. CASE TurnAway(q) \/ Overflow(q) \/ Released(q) \/ TimedOut(q)
      BY <2>2, JobRequestMoves
         DEF TurnAway, Overflow, Released, TimedOut, workerVars
    <2>3. CASE Join(q)
      BY <2>3, JobJoin
    <2>4. CASE Launch(q)
      BY <2>4, JobLaunch
    <2>5. QED
      BY <1>1, <2>1, <2>2, <2>3, <2>4 DEF RequestStep
  <1>2. ASSUME NEW w \in Workers, WorkerStep(w) PROVE JobInv'
    <2>1. CASE Receive(w)
      BY <2>1, JobReceive
    <2>2. CASE FinishDemand(w)
      BY <2>2, JobFinish
    <2>3. CASE RunDemandProbe(w) \/ ProbeEnds(w) \/ Boot(w) \/ SweepEnds(w)
      BY <2>3, JobUnchanged
         DEF RunDemandProbe, ProbeEnds, Boot, SweepEnds, requestVars
    <2>4. CASE TakeTrigger(w) \/ TakeTarget(w) \/ TimerFires(w)
      BY <2>4, JobUnchanged
         DEF TakeTrigger, TakeTarget, TimerFires, requestVars
    <2>5. CASE CtxDone(w) \/ DrainEnds(w)
      BY <2>5, JobUnchanged DEF CtxDone, DrainEnds, requestVars
    <2>6. QED
      BY <1>2, <2>1, <2>2, <2>3, <2>4, <2>5 DEF WorkerStep
  <1>3. ASSUME NEW c \in Callers, CallerStep(c) PROVE JobInv'
    BY <1>3, JobUnchanged DEF CallerStep, StopToApply, StopToShutdown,
       WaitReturns, Install, requestVars, workerVars
  <1>4. ASSUME NEW k \in Keys, TriggerTargetProbe(k) \/ Settle(k)
        PROVE  JobInv'
    BY <1>4, JobUnchanged
       DEF TriggerTargetProbe, Settle, requestVars, workerVars
  <1>5. CASE TriggerProbe \/ UNCHANGED vars
    BY <1>5, JobUnchanged DEF TriggerProbe, vars, requestVars, workerVars
  <1>6. QED
    BY <1>1, <1>2, <1>3, <1>4, <1>5 DEF Next

(* The whole inductive invariant, with no assumption about the host. *)
IInv == TypeOK /\ HandInv /\ JobInv

LEMMA IInvHolds == Spec => []IInv
  <1>1. Init => IInv
    BY TypeInit, JobInit DEF Init, IInv, HandInv, Holding
  <1>2. IInv /\ [Next]_vars => IInv'
    BY TypeStep, HandStep, JobStep DEF IInv
  <1>3. QED
    BY <1>1, <1>2, PTL DEF Spec

(* Requests for one key share one probe: the pending table and the jobs in *)
(* the channel and in the workers' hands are the same set, one job a key,  *)
(* even when the host overlaps its lifecycle calls.                        *)
THEOREM FlightsAreUnique == Spec => []OneFlightPerKey
  <1>1. IInv => OneFlightPerKey
    <2> SUFFICES ASSUME IInv PROVE OneFlightPerKey
      OBVIOUS
    <2> USE LifecycleAssumption DEF IInv, TypeOK, JobInv
    <2>1. ASSUME NEW q \in Queued \cup InHand
          PROVE  q \in Requests /\ pending[KeyOf[q]] = q
      BY <2>1 DEF Queued, InHand, JobsOnTheirWay, OnItsWay
    <2>2. ASSUME NEW k \in Keys, pending[k] # None
          PROVE  pending[k] \in Queued \cup InHand /\ KeyOf[pending[k]] = k
      <3>1. KeyOf[pending[k]] = k /\ Carried(pending[k])
        BY <2>2 DEF PendingCarried
      <3>2. QED
        BY <2>2, <3>1 DEF Carried, Queued, InHand
    <2>3. {pending[k] : k \in Keys} \ {None} = Queued \cup InHand
      BY <2>1, <2>2
    <2>4. Queued \cap InHand = {}
      BY DEF JobsDistinct, Queued, InHand
    <2>5. QED
      BY <2>2, <2>3, <2>4 DEF OneFlightPerKey, JobsDistinct
  <1>2. QED
    BY <1>1, IInvHolds, PTL

(* finishDemand never closes a closed channel, whichever of the worker,    *)
(* its drain or a second worker gets to the job.                           *)
THEOREM ChannelsCloseOnce == Spec => []NeverClosedTwice
  <1>1. IInv => NeverClosedTwice
    BY DEF IInv, JobInv, JobsOnTheirWay, OnItsWay, NeverClosedTwice, Queued,
           InHand
  <1>2. QED
    BY <1>1, IInvHolds, PTL

(* No request ever waits on a channel that nothing will close. *)
THEOREM WaitersHaveAJob == Spec => []WaitersAnswerable
  <1>1. IInv => WaitersAnswerable
    <2> SUFFICES ASSUME IInv, NEW q \in Requests, rpc[q] = "waiting",
                        rdone[q] \notin closed
                 PROVE  rdone[q] \in Queued \cup InHand
      BY DEF WaitersAnswerable
    <2>1. /\ rdone[q] \in Requests /\ rdone[q] # None
          /\ KeyOf[rdone[q]] \in Keys
          /\ pending[KeyOf[rdone[q]]] = rdone[q]
      BY LifecycleAssumption DEF IInv, TypeOK, JobInv, WaitersServed
    <2>2. Carried(rdone[q])
      BY <2>1 DEF IInv, JobInv, PendingCarried
    <2>3. QED
      BY <2>1, <2>2 DEF Carried, Queued, InHand
  <1>2. QED
    BY <1>1, IInvHolds, PTL

-----------------------------------------------------------------------------
(* Under a host that does not overlap its calls there is one worker, and   *)
(* what a stopped worker leaves behind can be said.                        *)

OnDemandWorker(w) ==
    \/ wpc[w] \in OnDemandPcs
    \/ wpc[w] = "start" /\ config.schedule = "on_demand"

WorkerInv ==
    /\ OneWorker
    /\ cancel # None => cancel \in Live /\ ~cancelled[cancel]
    /\ \A w \in Workers : wpc[w] \in {"drain", "drained"} => cancelled[w]
    /\ \A c \in Callers : cpc[c] # "idle" => cancel = None
    /\ \A c \in Callers : cpc[c] \in {"install", "down"} => Live = {}
    /\ cancel # None /\ config.schedule = "on_demand" => OnDemandWorker(cancel)
    /\ \A k \in Keys : pending[k] # None =>
         \E w \in Live : OnDemandWorker(w)

LEMMA WorkerInit == Init => WorkerInv
  BY DEF Init, WorkerInv, OneWorker, Live

(* Steps of a request: an entry is added only while r.cancel is set. *)
LEMMA WorkerInvRequest ==
    ASSUME TypeOK, WorkerInv, NEW q \in Requests, RequestStep(q)
    PROVE  WorkerInv'
  <1> USE LifecycleAssumption DEF TypeOK, workerVars
  <1>1. UNCHANGED <<config, cancel, wpc, cancelled, cpc>>
    BY DEF RequestStep, Gate, TurnAway, Join, Launch, AddJob, Overflow,
           Released, TimedOut
  <1>2. CASE UNCHANGED pending
    BY <1>1, <1>2 DEF WorkerInv, OneWorker, Live, OnDemandWorker
  <1>3. CASE Launch(q)
    <2>1. cancel \in Live /\ OnDemandWorker(cancel)
      BY <1>3 DEF Launch, Admitted, WorkerInv
    <2>2. QED
      BY <1>1, <2>1 DEF WorkerInv, OneWorker, Live, OnDemandWorker
  <1>4. QED
    BY <1>2, <1>3 DEF RequestStep, Gate, TurnAway, Join, Overflow, Released,
                      TimedOut

(* Steps of a worker that neither ends nor leaves its loop. *)
LEMMA WorkerInvLoop ==
    ASSUME TypeOK, WorkerInv, NEW w \in Workers,
           \/ Boot(w) \/ Receive(w) \/ RunDemandProbe(w) \/ ProbeEnds(w)
           \/ TakeTrigger(w) \/ TakeTarget(w) \/ TimerFires(w) \/ SweepEnds(w)
    PROVE  WorkerInv'
  <1> USE LifecycleAssumption DEF TypeOK
  <1>1. /\ UNCHANGED <<config, cancel, pending, cancelled, cpc>>
        /\ wpc[w] # "off" /\ wpc'[w] # "off"
        /\ \A v \in Workers : v # w => wpc'[v] = wpc[v]
        /\ OnDemandWorker(w) => wpc'[w] \in OnDemandPcs
        /\ wpc'[w] = "drained" => wpc[w] = "drain"
        /\ wpc'[w] # "drain"
    BY DEF Boot, Receive, RunDemandProbe, ProbeEnds, TakeTrigger, TakeTarget,
           TimerFires, SweepEnds, At, OnDemandWorker, OnDemandPcs
  <1>2. Live' = Live /\ w \in Live
    BY <1>1 DEF Live
  <1>3. \A v \in Workers : OnDemandWorker(v) => OnDemandWorker(v)'
    BY <1>1 DEF OnDemandWorker
  <1>4. QED
    BY <1>1, <1>2, <1>3 DEF WorkerInv, OneWorker, OnDemandWorker

LEMMA WorkerInvFinish ==
    ASSUME TypeOK, HandInv, JobInv, WorkerInv, NEW w \in Workers,
           FinishDemand(w)
    PROVE  WorkerInv'
  <1> USE LifecycleAssumption DEF TypeOK
  <1>1. /\ UNCHANGED <<config, cancel, cancelled, cpc>>
        /\ wpc[w] # "off" /\ wpc'[w] # "off"
        /\ \A v \in Workers : v # w => wpc'[v] = wpc[v]
        /\ wpc'[w] \in OnDemandPcs
        /\ wpc'[w] # "drained"
        /\ wpc'[w] = "drain" => wpc[w] = "drained"
    BY DEF FinishDemand, At, OnDemandPcs
  <1>2. \A k \in Keys : pending'[k] # None => pending[k] # None
    BY FinishFindsItsOwn
  <1>3. Live' = Live /\ w \in Live
    BY <1>1 DEF Live
  <1>4. \A v \in Workers : OnDemandWorker(v) => OnDemandWorker(v)'
    BY <1>1 DEF OnDemandWorker
  <1>5. QED
    BY <1>1, <1>2, <1>3, <1>4 DEF WorkerInv, OneWorker, OnDemandWorker

(* The on-demand loop ends through its drain, with nothing left pending.   *)
LEMMA WorkerInvEnds ==
    ASSUME TypeOK, HandInv, JobInv, WorkerInv, NEW w \in Workers,
           CtxDone(w) \/ DrainEnds(w)
    PROVE  WorkerInv'
  <1> USE LifecycleAssumption DEF TypeOK
  <1>1. /\ UNCHANGED <<config, cancel, pending, cancelled, cpc, hand, demandQ>>
        /\ w \in Live
        /\ \A v \in Workers : v # w => wpc'[v] = wpc[v]
    BY DEF CtxDone, DrainEnds, At, Live
  <1>2. \A v \in Live : v = w
    BY <1>1 DEF WorkerInv, OneWorker, Live
  <1>3. cancelled[w]
    BY DEF CtxDone, DrainEnds, At, WorkerInv
  <1>4. cancel = None
    BY <1>2, <1>3 DEF WorkerInv, Live
  <1>5. CASE wpc'[w] = "drain"
    <2>1. Live' = Live
      BY <1>1, <1>5 DEF Live
    <2>2. OnDemandWorker(w)'
      BY <1>5 DEF OnDemandWorker, OnDemandPcs
    <2>3. QED
      BY <1>1, <1>2, <1>3, <1>4, <1>5, <2>1, <2>2 DEF WorkerInv, OneWorker
  <1>6. CASE wpc'[w] = "off"
    <2>1. Live' = {}
      BY <1>1, <1>2, <1>6 DEF Live
    <2>2. \A k \in Keys : pending[k] = None
      <3>1. CASE wpc[w] = "ticker"
        BY <1>2, <3>1 DEF WorkerInv, OnDemandWorker, OnDemandPcs
      <3>2. CASE wpc[w] = "drain" /\ demandQ = <<>>
        <4>1. \A v \in Workers : hand[v] = None
          BY <1>2, <3>2 DEF HandInv, Holding, Live
        <4>2. \A d \in Requests : ~Carried(d)
          BY <3>2, <4>1 DEF Carried
        <4>3. QED
          BY <4>2 DEF JobInv, PendingCarried
      <3>3. QED
        BY <1>6, <3>1, <3>2 DEF CtxDone, DrainEnds, At
    <2>3. QED
      BY <1>1, <1>4, <1>6, <2>1, <2>2 DEF WorkerInv, OneWorker, Live
  <1>7. QED
    BY <1>5, <1>6 DEF CtxDone, DrainEnds, At

(* With a single caller, installing the configuration is alone. *)
LEMMA WorkerInvCaller ==
    ASSUME SerialHost, TypeOK, WorkerInv, NEW c \in Callers, CallerStep(c)
    PROVE  WorkerInv'
  <1> USE LifecycleAssumption DEF TypeOK
  <1>1. CASE StopToApply(c) \/ StopToShutdown(c)
    <2>1. /\ cancel' = None
          /\ UNCHANGED <<wpc, config, pending>>
          /\ \A w \in Workers : cancelled[w] => cancelled'[w]
          /\ \A d \in Callers : cpc'[d] \in {"install", "down"} => cpc'[d] = cpc[d]
      BY <1>1 DEF StopToApply, StopToShutdown, StopProbe
    <2>2. QED
      BY <2>1 DEF WorkerInv, OneWorker, Live, OnDemandWorker
  <1>2. CASE WaitReturns(c)
    BY <1>2 DEF WaitReturns, WorkerInv, OneWorker, Live, OnDemandWorker,
                workerVars
  <1>3. CASE Install(c)
    <2>1. Live = {} /\ cancel = None /\ \A k \in Keys : pending[k] = None
      BY <1>3 DEF Install, WorkerInv
    <2>2. \A d \in Callers : cpc'[d] = "idle"
      BY <1>3 DEF Install, SerialHost
    <2>3. UNCHANGED pending
      BY <1>3 DEF Install
    <2>4. CASE UNCHANGED <<wpc, cancelled, cancel>>
      BY <2>1, <2>2, <2>3, <2>4 DEF WorkerInv, OneWorker, Live
    <2>5. ASSUME NEW w \in Workers,
                 wpc' = [wpc EXCEPT ![w] = "start"],
                 cancelled' = [cancelled EXCEPT ![w] = FALSE],
                 cancel' = w
          PROVE  WorkerInv'
      <3>1. Live' = {w}
        BY <2>1, <2>5 DEF Live
      <3>2. wpc'[w] = "start" /\ ~cancelled'[w]
        BY <2>5
      <3>3. \A v \in Workers : wpc'[v] \in {"start", "off"}
        BY <2>1, <2>5 DEF Live
      <3>4. QED
        BY <2>1, <2>2, <2>3, <2>5, <3>1, <3>2, <3>3
           DEF WorkerInv, OneWorker, OnDemandWorker
    <2>6. QED
      BY <1>3, <2>4, <2>5 DEF Install
  <1>4. QED
    BY <1>1, <1>2, <1>3 DEF CallerStep

LEMMA WorkerStepInv ==
    ASSUME SerialHost
    PROVE  IInv /\ WorkerInv /\ [Next]_vars => WorkerInv'
  <1> SUFFICES ASSUME TypeOK, HandInv, JobInv, WorkerInv, [Next]_vars
               PROVE  WorkerInv'
    BY DEF IInv
  <1>1. ASSUME NEW q \in Requests, RequestStep(q) PROVE WorkerInv'
    BY <1>1, WorkerInvRequest
  <1>2. ASSUME NEW w \in Workers, WorkerStep(w) PROVE WorkerInv'
    BY <1>2, WorkerInvLoop, WorkerInvFinish, WorkerInvEnds DEF WorkerStep
  <1>3. ASSUME NEW c \in Callers, CallerStep(c) PROVE WorkerInv'
    BY <1>3, WorkerInvCaller
  <1>4. ASSUME UNCHANGED <<config, cancel, pending, wpc, cancelled, cpc>>
        PROVE  WorkerInv'
    BY <1>4 DEF WorkerInv, OneWorker, Live, OnDemandWorker
  <1>5. ASSUME NEW k \in Keys, TriggerTargetProbe(k) \/ Settle(k)
        PROVE  WorkerInv'
    BY <1>4, <1>5 DEF TriggerTargetProbe, Settle, workerVars
  <1>6. CASE TriggerProbe \/ UNCHANGED vars
    BY <1>4, <1>6 DEF TriggerProbe, vars, workerVars
  <1>7. QED
    BY <1>1, <1>2, <1>3, <1>5, <1>6 DEF Next

LEMMA WorkerInvHolds ==
    ASSUME SerialHost
    PROVE  Spec => [](IInv /\ WorkerInv)
  <1>1. Init => WorkerInv
    BY WorkerInit
  <1>2. IInv /\ WorkerInv /\ [Next]_vars => WorkerInv'
    BY WorkerStepInv
  <1>3. QED
    BY <1>1, <1>2, IInvHolds, PTL DEF Spec

(* All network work stays on one worker, whatever the sequence of          *)
(* reconfigurations and shutdowns, if the host does not overlap them.      *)
THEOREM SingleWorker ==
    ASSUME SerialHost
    PROVE  Spec => []OneWorker
  <1>1. WorkerInv => OneWorker
    BY DEF WorkerInv
  <1>2. QED
    BY <1>1, WorkerInvHolds, PTL

(* When stopping the worker returns, no job and no waiter is left behind.  *)
THEOREM StopIsComplete ==
    ASSUME SerialHost
    PROVE  Spec => []StopLeavesNothing
  <1>1. IInv /\ WorkerInv => StopLeavesNothing
    <2> SUFFICES ASSUME IInv, WorkerInv,
                        NEW c \in Callers, cpc[c] \in {"install", "down"}
                 PROVE  /\ Live = {} /\ cancel = None
                        /\ demandQ = <<>>
                        /\ \A k \in Keys : pending[k] = None
                        /\ \A q \in Requests :
                             rpc[q] = "waiting" => rdone[q] \in closed
      BY DEF StopLeavesNothing
    <2> USE LifecycleAssumption DEF IInv, TypeOK
    <2>1. Live = {} /\ cancel = None
      BY DEF WorkerInv
    <2>2. \A k \in Keys : pending[k] = None
      BY <2>1 DEF WorkerInv
    <2>3. demandQ = <<>>
      <3>1. SUFFICES ASSUME demandQ # <<>> PROVE FALSE
        OBVIOUS
      <3>2. 1 \in 1..Len(demandQ) /\ demandQ[1] \in Requests
        BY <3>1, ReceiveFacts
      <3>3. OnItsWay(demandQ[1])
        BY <3>2 DEF JobInv, JobsOnTheirWay
      <3>4. QED
        BY <2>2, <3>2, <3>3 DEF OnItsWay
    <2>4. \A q \in Requests : rpc[q] = "waiting" => rdone[q] \in closed
      BY <2>2 DEF JobInv, WaitersServed
    <2>5. QED
      BY <2>1, <2>2, <2>3, <2>4
  <1>2. QED
    BY <1>1, WorkerInvHolds, PTL

(* While the drain runs nobody sends: what it leaves empty stays empty. *)
THEOREM DrainOnlyShrinks ==
    ASSUME SerialHost
    PROVE  Spec => NoJobForACancelledWorker
  <1>1. IInv /\ WorkerInv /\ [Next]_vars =>
          \A w \in Workers : wpc[w] \in {"drain", "drained"} =>
            Len(demandQ') <= Len(demandQ)
    <2> SUFFICES ASSUME IInv, WorkerInv, [Next]_vars,
                        NEW w \in Workers, wpc[w] \in {"drain", "drained"}
                 PROVE  Len(demandQ') <= Len(demandQ)
      OBVIOUS
    <2> USE LifecycleAssumption DEF IInv, TypeOK
    <2>1. cancel = None
      BY DEF WorkerInv, OneWorker, Live
    <2>2. Len(demandQ) \in Nat
      OBVIOUS
    <2>3. ASSUME NEW q \in Requests, RequestStep(q) PROVE UNCHANGED demandQ
      BY <2>1, <2>3 DEF RequestStep, Gate, TurnAway, Join, Launch, Overflow,
                        Released, TimedOut, Admitted
    <2>4. ASSUME NEW v \in Workers, WorkerStep(v)
          PROVE  UNCHANGED demandQ \/ Receive(v)
      BY <2>4 DEF WorkerStep, Boot, RunDemandProbe, ProbeEnds, FinishDemand,
                  TakeTrigger, TakeTarget, TimerFires, SweepEnds, CtxDone,
                  DrainEnds
    <2>5. ASSUME NEW v \in Workers, Receive(v) PROVE Len(demandQ') < Len(demandQ)
      BY <2>2, <2>5, ReceiveFacts DEF Receive
    <2>6. ASSUME NEW c \in Callers, CallerStep(c) PROVE UNCHANGED demandQ
      BY <2>6 DEF CallerStep, StopToApply, StopToShutdown, WaitReturns, Install
    <2>7. ASSUME NEW k \in Keys, TriggerTargetProbe(k) \/ Settle(k)
          PROVE  UNCHANGED demandQ
      BY <2>7 DEF TriggerTargetProbe, Settle
    <2>8. CASE TriggerProbe \/ UNCHANGED vars
      BY <2>2, <2>8 DEF TriggerProbe, vars
    <2>9. QED
      BY <2>2, <2>3, <2>4, <2>5, <2>6, <2>7, <2>8 DEF Next
  <1>2. QED
    BY <1>1, WorkerInvHolds, PTL DEF Spec, NoJobForACancelledWorker

-----------------------------------------------------------------------------
(* The worker with its channel, its drain and its restarts keeps the       *)
(* promise of SingleFlight (its safety; that flights land is left to TLC). *)
THEOREM SafeSingleFlight == Spec => SF!SafeSpec
  <1>1. Init => SF!Init
    BY DEF Init, SF!Init, Stage
  <1>2. IInv /\ [Next]_vars => [SF!Next]_(SF!vars)
    <2> SUFFICES ASSUME IInv, [Next]_vars PROVE [SF!Next]_(SF!vars)
      OBVIOUS
    <2> USE LifecycleAssumption DEF IInv, TypeOK
    <2>1. ASSUME UNCHANGED <<rpc, rdone, pending, closed>>
          PROVE  UNCHANGED SF!vars
      BY <2>1 DEF SF!vars, Stage
    <2>2. ASSUME NEW q \in Requests, RequestStep(q)
          PROVE  [SF!Next]_(SF!vars)
      <3>1. CASE Gate(q)
        <4>1. CASE rpc' = [rpc EXCEPT ![q] = "gated"]
          <5>1. UNCHANGED Stage
            BY <3>1, <4>1 DEF Gate, Stage
          <5>2. QED
            BY <3>1, <5>1 DEF Gate, SF!vars
        <4>2. CASE rpc' = [rpc EXCEPT ![q] = "returned"]
          <5>1. SF!Decline(q)
            BY <3>1, <4>2 DEF Gate, Stage, SF!Decline
          <5>2. QED
            BY <5>1 DEF SF!Next
        <4>3. QED
          BY <3>1, <4>1, <4>2 DEF Gate
      <3>2. CASE TurnAway(q) \/ Overflow(q)
        <4>1. SF!Decline(q)
          BY <3>2 DEF TurnAway, Overflow, Admitted, Stage, SF!Decline
        <4>2. QED
          BY <4>1 DEF SF!Next
      <3>3. CASE Join(q)
        <4>1. \E s \in {"aboard", "left"} : Stage' = [Stage EXCEPT ![q] = s]
          BY <3>3 DEF Join, Admitted, Hold, Stage
        <4>2. SF!Join(q)
          BY <3>3, <4>1 DEF Join, Admitted, Hold, Stage, SF!Join
        <4>3. QED
          BY <4>2 DEF SF!Next
      <3>4. CASE Launch(q)
        <4>1. \E s \in {"aboard", "left"} : Stage' = [Stage EXCEPT ![q] = s]
          BY <3>4 DEF Launch, AddJob, Admitted, Hold, Stage
        <4>2. SF!Launch(q)
          BY <3>4, <4>1 DEF Launch, AddJob, Admitted, Hold, Stage, SF!Launch
        <4>3. QED
          BY <4>2 DEF SF!Next
      <3>5. CASE Released(q) \/ TimedOut(q)
        <4>1. SF!GiveUp(q)
          BY <3>5 DEF Released, TimedOut, Stage, SF!GiveUp
        <4>2. QED
          BY <4>1 DEF SF!Next
      <3>6. QED
        BY <2>2, <3>1, <3>2, <3>3, <3>4, <3>5 DEF RequestStep
    <2>3. ASSUME NEW w \in Workers, WorkerStep(w)
          PROVE  [SF!Next]_(SF!vars)
      <3>1. CASE FinishDemand(w)
        <4>1. SF!Land(KeyOf[hand[w]]) /\ KeyOf[hand[w]] \in Keys
          BY <3>1, FinishFindsItsOwn DEF OnItsWay, SF!Land, Stage
        <4>2. QED
          BY <4>1 DEF SF!Next
      <3>2. CASE ~FinishDemand(w)
        BY <2>1, <2>3, <3>2
           DEF WorkerStep, Boot, Receive, RunDemandProbe, ProbeEnds,
               TakeTrigger, TakeTarget, TimerFires, SweepEnds, CtxDone,
               DrainEnds, requestVars
      <3>3. QED
        BY <3>1, <3>2
    <2>4. ASSUME NEW c \in Callers, CallerStep(c)
          PROVE  UNCHANGED SF!vars
      BY <2>1, <2>4 DEF CallerStep, StopToApply, StopToShutdown, WaitReturns,
                        Install, requestVars
    <2>5. ASSUME NEW k \in Keys, TriggerTargetProbe(k) \/ Settle(k)
          PROVE  UNCHANGED SF!vars
      BY <2>1, <2>5 DEF TriggerTargetProbe, Settle, requestVars
    <2>6. CASE TriggerProbe \/ UNCHANGED vars
      BY <2>1, <2>6 DEF TriggerProbe, vars, requestVars
    <2>7. QED
      BY <2>2, <2>3, <2>4, <2>5, <2>6 DEF Next
  <1>3. QED
    BY <1>1, <1>2, IInvHolds, PTL DEF Spec, SF!SafeSpec

=============================================================================
