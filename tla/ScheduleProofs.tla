--------------------------- MODULE ScheduleProofs ---------------------------
(***************************************************************************)
(* The configuration's numbers and the periodic schedule, for every        *)
(* configuration, every set of keys and every bound on the work: what      *)
(* normalizeConfig leaves unchanged, that no key is left with an expired   *)
(* ticket, that the countdown agrees with the timer, and that tickets are  *)
(* renewed at the documented age.                                          *)
(***************************************************************************)
EXTENDS Schedule, TLAPS

-----------------------------------------------------------------------------
(* Numbers. *)

LEMMA NormalizedFields ==
  ASSUME NEW c \in RawConfig
  PROVE  /\ Normalized(c).interval = AtLeast(0, c.interval)
         /\ Normalized(c).ttl = AtLeast(0, c.ttl)
         /\ Normalized(c).lead = AtLeast(0, c.lead)
         /\ Normalized(c).refresh = AtLeast(0, c.refresh)
         /\ Normalized(c).cookieTTL = AtLeast(0, c.cookieTTL)
         /\ Normalized(c).attempts = AtLeast(0, c.attempts)
         /\ Normalized(c).logLimit = AtMost(MaxLogLimit, AtLeast(0, c.logLimit))
         /\ Normalized(c).perRoute = AtMost(MaxPerRoute, AtLeast(0, c.perRoute))
         /\ Normalized(c).threshold = AtLeast(-1, c.threshold)
  BY ZenonT(30) DEF Normalized, RawConfig

LEMMA NormalizedType ==
  ASSUME NEW c \in RawConfig
  PROVE  /\ Normalized(c) \in RawConfig
         /\ Normalized(c).interval >= 0 /\ Normalized(c).ttl >= 0
         /\ Normalized(c).lead >= 0 /\ Normalized(c).refresh >= 0
<1>1. /\ c.interval \in Int /\ c.ttl \in Int /\ c.lead \in Int
      /\ c.refresh \in Int /\ c.cookieTTL \in Int /\ c.attempts \in Int
      /\ c.logLimit \in Int /\ c.perRoute \in Int /\ c.threshold \in Int
  BY DEF RawConfig
<1> DEFINE n1 == AtLeast(0, c.interval)
           n2 == AtLeast(0, c.ttl)
           n3 == AtLeast(0, c.lead)
           n4 == AtLeast(0, c.refresh)
           n5 == AtLeast(0, c.cookieTTL)
           n6 == AtLeast(0, c.attempts)
           n7 == AtMost(MaxLogLimit, AtLeast(0, c.logLimit))
           n8 == AtMost(MaxPerRoute, AtLeast(0, c.perRoute))
           n9 == AtLeast(-1, c.threshold)
           d == [c EXCEPT !.interval = n1, !.ttl = n2, !.lead = n3]
           e == [d EXCEPT !.refresh = n4, !.cookieTTL = n5, !.attempts = n6]
           f == [e EXCEPT !.logLimit = n7, !.perRoute = n8, !.threshold = n9]
<1>2. Normalized(c) = f
  BY DEF Normalized, RawConfig
<1>3. /\ n1 \in Int /\ n2 \in Int /\ n3 \in Int /\ n4 \in Int
      /\ n1 >= 0 /\ n2 >= 0 /\ n3 >= 0 /\ n4 >= 0
      /\ n5 \in Int /\ n6 \in Int /\ n7 \in Int /\ n8 \in Int /\ n9 \in Int
  BY <1>1 DEF AtLeast, AtMost, MaxLogLimit, MaxPerRoute
<1>4. /\ Normalized(c).interval = n1 /\ Normalized(c).ttl = n2
      /\ Normalized(c).lead = n3 /\ Normalized(c).refresh = n4
  BY NormalizedFields
<1> HIDE DEF n1, n2, n3, n4, n5, n6, n7, n8, n9
<1>5. d \in RawConfig
  BY <1>3 DEF RawConfig
<1> HIDE DEF d
<1>6. e \in RawConfig
  BY <1>3, <1>5 DEF RawConfig
<1> HIDE DEF e
<1>7. f \in RawConfig
  BY <1>3, <1>6 DEF RawConfig
<1>8. QED
  BY <1>2, <1>3, <1>4, <1>7

(* normalizeConfig changes no value that the getters give: an applyConfig  *)
(* and a save, which both normalise, mean the same configuration           *)
(* (config.go).                                                            *)
THEOREM NormalizingIsInvisible ==
  ASSUME NEW c \in RawConfig
  PROVE  /\ interval(Normalized(c)) = interval(c)
         /\ ttl(Normalized(c)) = ttl(c)
         /\ probeLead(Normalized(c)) = probeLead(c)
         /\ cookieTTL(Normalized(c)) = cookieTTL(c)
         /\ maxAttempts(Normalized(c)) = maxAttempts(c)
         /\ probeLogLimit(Normalized(c)) = probeLogLimit(c)
         /\ attemptsPerRoute(Normalized(c)) = attemptsPerRoute(c)
         /\ failureReprobeThreshold(Normalized(c)) = failureReprobeThreshold(c)
<1> USE ConfigAssumption
<1>0. /\ c.interval \in Int /\ c.ttl \in Int /\ c.lead \in Int /\ c.refresh \in Int
      /\ c.cookieTTL \in Int /\ c.attempts \in Int /\ c.logLimit \in Int
      /\ c.perRoute \in Int /\ c.threshold \in Int
  BY DEF RawConfig
<1>1. ttl(Normalized(c)) = ttl(c)
  BY <1>0, NormalizedFields DEF ttl, OrDefault, AtLeast
<1>2. probeLead(Normalized(c)) = probeLead(c)
  BY <1>0, <1>1, NormalizedFields DEF probeLead, AtLeast
<1>3. /\ interval(Normalized(c)) = interval(c)
      /\ cookieTTL(Normalized(c)) = cookieTTL(c)
      /\ maxAttempts(Normalized(c)) = maxAttempts(c)
  BY <1>0, NormalizedFields
     DEF interval, cookieTTL, maxAttempts, OrDefault, AtLeast
<1>4. /\ probeLogLimit(Normalized(c)) = probeLogLimit(c)
      /\ attemptsPerRoute(Normalized(c)) = attemptsPerRoute(c)
  BY <1>0, NormalizedFields DEF probeLogLimit, attemptsPerRoute, OrDefault,
     AtLeast, AtMost, MaxLogLimit, MaxPerRoute
<1>5. failureReprobeThreshold(Normalized(c)) = failureReprobeThreshold(c)
  BY <1>0, NormalizedFields DEF failureReprobeThreshold, OrDefault, AtLeast
<1>6. QED
  BY <1>1, <1>2, <1>3, <1>4, <1>5

LEMMA GetterTypes ==
  ASSUME NEW c \in RawConfig
  PROVE  /\ interval(c) \in Nat /\ interval(c) > 0
         /\ ttl(c) \in Nat /\ ttl(c) > 0
         /\ probeLead(c) \in Nat
<1> USE ConfigAssumption
<1>1. c.interval \in Int /\ c.ttl \in Int /\ c.lead \in Int /\ c.refresh \in Int
  BY DEF RawConfig
<1>2. ttl(c) \in Nat /\ ttl(c) > 0
  BY <1>1 DEF ttl, OrDefault
<1>3. interval(c) \in Nat /\ interval(c) > 0
  BY <1>1 DEF interval, OrDefault
<1>4. probeLead(c) \in Nat
  BY <1>1, <1>2 DEF probeLead, AtLeast
<1>5. QED
  BY <1>2, <1>3, <1>4

(* The documented age and the lead of the code are the same thing.         *)
LEMMA RenewAgeIsTheLead ==
  ASSUME NEW c \in RawConfig, c.lead >= 0, c.refresh >= 0
  PROVE  RenewAge(c) = ttl(c) - probeLead(c)
<1>1. c.lead \in Int /\ c.refresh \in Int /\ ttl(c) \in Nat
  BY GetterTypes DEF RawConfig
<1>2. QED
  BY <1>1, ConfigAssumption
     DEF RenewAge, probeLead, AtMost, AtLeast, OrDefault

-----------------------------------------------------------------------------
(* Type correctness, and what the worker's places mean. *)

WorkerInv ==
    /\ pc # "work" => /\ todo = {} /\ busy = None /\ spent = 0
                      /\ why = "none" /\ job = None
    /\ pc \in {"off", "boot"} => timer = NoTime
    /\ stopping => excused = Keys
    /\ Running => pc # "off"
    /\ pc = "select" /\ Periodic => timer >= 0

(* Only applyConfig changes the configuration and stops or starts workers. *)
LEMMA ConfigStep ==
  ASSUME [Next]_vars
  PROVE  \/ UNCHANGED <<config, stopping>>
         \/ config' = config /\ Stop
         \/ Install
  BY DEF Next, vars, Boot, TimerFires, TakeTrigger, Captured, Missed, WorkEnds,
     CtxDone, Stop, TriggerProbe, Tick, TakeTarget, DemandSettled,
     RunDemandProbe, LookAt, SkipFresh, SkipBlocked, BeginProbe, Store,
     TriggerTargetProbe, Enqueue

LEMMA TypeInit == Init => TypeOK
<1> SUFFICES ASSUME Init PROVE TypeOK
  OBVIOUS
<1>1. Unset \in RawConfig
  BY DEF Unset, RawConfig, Schedules
<1>2. /\ config.interval = 0 /\ config.ttl = 0
      /\ config.lead = 0 /\ config.refresh = 0
  BY DEF Init, Unset
<1>3. interval(config) \in Nat
  BY <1>1, GetterTypes DEF Init
<1>4. /\ timer \in NoTime..interval(config) /\ shown \in Int /\ shown >= NoTime
      /\ age \in [Keys -> NoTime..MaxAge] /\ spent \in 0..MaxWork
  BY <1>3, ScheduleAssumption DEF Init, NoTime
<1>5. /\ config \in RawConfig
      /\ \A n \in {config.interval, config.ttl, config.lead, config.refresh} :
           n >= 0
  BY <1>1, <1>2 DEF Init
<1>6. QED
  BY <1>4, <1>5 DEF Init, TypeOK, Reasons

LEMMA TypeStep == TypeOK /\ WorkerInv /\ [Next]_vars => TypeOK'
<1> SUFFICES ASSUME TypeOK, WorkerInv, [Next]_vars PROVE TypeOK'
  OBVIOUS
<1> USE DEF TypeOK, cacheVars, channelVars, workVars, timeVars, ghostVars
<1>1. interval(config) \in Nat /\ interval(config) > 0
  BY GetterTypes
<1>2. ASSUME NEW reason \in Reasons, BeginSweep(reason)
      PROVE  /\ pc' = "work" /\ why' \in Reasons /\ todo' \in SUBSET Keys
             /\ excused' \in SUBSET Keys /\ UNCHANGED <<job, busy, spent>>
  BY <1>2 DEF BeginSweep
<1>3. ASSUME NEW k \in Keys, NEW reason \in Reasons, BeginProbeOf(k, reason)
      PROVE  /\ pc' = "work" /\ why' \in Reasons /\ todo' \in SUBSET Keys
             /\ job' \in Keys \cup {None} /\ UNCHANGED <<busy, spent>>
  BY <1>3 DEF BeginProbeOf
<1>4. ASSUME Boot PROVE TypeOK'
  <2>1. CASE Periodic /\ \A k \in Keys : age[k] = NoTime
    BY <1>1, <1>2, <1>4, <2>1 DEF Boot, Reasons, NoTime
  <2>2. CASE ~(Periodic /\ \A k \in Keys : age[k] = NoTime)
    BY <1>1, <1>4, <2>2 DEF Boot, NoTime
  <2>3. QED
    BY <2>1, <2>2
<1>5. ASSUME TimerFires \/ TakeTrigger PROVE TypeOK'
  BY <1>2, <1>5 DEF TimerFires, TakeTrigger, Reasons
<1>6. ASSUME NEW k \in Keys, TakeTarget(k) PROVE TypeOK'
  BY <1>3, <1>6 DEF TakeTarget, Reasons, Periodic
<1>7. ASSUME NEW k \in Keys, DemandSettled(k) \/ RunDemandProbe(k) PROVE TypeOK'
  BY <1>3, <1>7 DEF DemandSettled, RunDemandProbe, Reasons
<1>8. ASSUME NEW k \in Keys, LookAt(k) PROVE TypeOK'
  BY <1>8 DEF LookAt, SkipFresh, SkipBlocked, BeginProbe, Looks
<1>9. ASSUME Captured \/ Missed PROVE TypeOK'
  <2>1. CASE Captured
    <3>1. busy \in Keys /\ 0 \in NoTime..MaxAge
      BY <2>1, ScheduleAssumption DEF Captured, NoTime
    <3>2. age' \in [Keys -> NoTime..MaxAge]
      BY <2>1, <3>1 DEF Captured
    <3>3. QED
      BY <2>1, <3>2 DEF Captured
  <2>2. CASE Missed
    BY <2>2 DEF Missed
  <2>3. QED
    BY <1>9, <2>1, <2>2
<1>10. ASSUME WorkEnds PROVE TypeOK'
  BY <1>1, <1>10, ScheduleAssumption
     DEF WorkEnds, NextTimer, NextShown, Reasons, NoTime, Periodic
<1>11. ASSUME CtxDone \/ Stop PROVE TypeOK'
  <2>1. CASE CtxDone
    BY <1>1, <2>1 DEF CtxDone, NoTime
  <2>2. CASE Stop
    BY <2>2 DEF Stop
  <2>3. QED
    BY <1>11, <2>1, <2>2
<1>12. ASSUME Install PROVE TypeOK'
  <2>1. PICK raw \in RawConfigs : config' = Normalized(raw)
    BY <1>12 DEF Install
  <2>2. raw \in RawConfig /\ ttl(config') <= MaxAge
    BY <2>1, ScheduleAssumption
  <2>3. /\ config' \in RawConfig
        /\ config'.interval >= 0 /\ config'.ttl >= 0
        /\ config'.lead >= 0 /\ config'.refresh >= 0
    BY <2>1, <2>2, NormalizedType
  <2>4. /\ interval(config') \in Nat /\ interval(config') > 0
        /\ ttl(config') \in Nat
    BY <2>3, GetterTypes
  <2>5. timer = NoTime
    BY <1>12 DEF Install, WorkerInv
  <2>6. age' \in [Keys -> NoTime..MaxAge] /\ probed' \in BOOLEAN
    BY <1>12, <2>2, <2>4, ScheduleAssumption DEF Install, Kept, NoTime
  <2>7. timer' \in NoTime..interval(config')
    BY <1>12, <2>4, <2>5 DEF Install, NoTime
  <2>8. /\ pc' \in {"off", "boot", "select", "work"} /\ stopping' \in BOOLEAN
        /\ postponed' \in BOOLEAN
        /\ UNCHANGED <<channelVars, why, job, todo, busy, spent, shown, excused>>
    BY <1>12 DEF Install
  <2>9. QED
    BY <2>3, <2>6, <2>7, <2>8
<1>13. ASSUME NEW k \in Keys,
              Store(k) \/ TriggerTargetProbe(k) \/ Enqueue(k)
       PROVE  TypeOK'
  BY <1>13, ScheduleAssumption
     DEF Store, TriggerTargetProbe, Enqueue, NoTime
<1>14. ASSUME TriggerProbe PROVE TypeOK'
  BY <1>14 DEF TriggerProbe
<1>15. ASSUME Tick PROVE TypeOK'
  BY <1>1, <1>15, ScheduleAssumption DEF Tick, Later, NoTime
<1>16. CASE UNCHANGED vars
  BY <1>16 DEF vars
<1>17. QED
  BY <1>4, <1>5, <1>6, <1>7, <1>8, <1>9, <1>10, <1>11, <1>12, <1>13, <1>14,
     <1>15, <1>16 DEF Next

LEMMA WorkerStep ==
  ASSUME TypeOK, WorkerInv, [Next]_vars
  PROVE  WorkerInv'
<1> USE DEF WorkerInv, cacheVars, channelVars, workVars, timeVars, ghostVars
<1>1. interval(config) \in Nat /\ interval(config) > 0
  BY GetterTypes DEF TypeOK
<1>2. excused \subseteq Keys /\ todo \subseteq Keys /\ busy \in Keys \cup {None}
  BY DEF TypeOK
<1>3. ASSUME Boot PROVE WorkerInv'
  BY <1>1, <1>2, <1>3 DEF Boot, BeginSweep, Periodic, Running
<1>4. ASSUME TimerFires \/ TakeTrigger PROVE WorkerInv'
  BY <1>2, <1>4 DEF TimerFires, TakeTrigger, BeginSweep, Periodic, Running
<1>5. ASSUME NEW k \in Keys, TakeTarget(k) \/ RunDemandProbe(k) \/ DemandSettled(k)
      PROVE  WorkerInv'
  BY <1>5 DEF TakeTarget, RunDemandProbe, DemandSettled, BeginProbeOf, Periodic,
     Running
<1>6. ASSUME NEW k \in Keys, LookAt(k) PROVE WorkerInv'
  BY <1>2, <1>6 DEF LookAt, SkipFresh, SkipBlocked, BeginProbe, Looks, Periodic,
     Running
<1>7. ASSUME Captured \/ Missed PROVE WorkerInv'
  BY <1>2, <1>7 DEF Captured, Missed, Periodic, Running
<1>8. ASSUME WorkEnds PROVE WorkerInv'
  BY <1>1, <1>2, <1>8 DEF WorkEnds, NextTimer, Periodic, Running
<1>9. ASSUME CtxDone \/ Stop PROVE WorkerInv'
  BY <1>9 DEF CtxDone, Stop, Periodic, Running
<1>10. ASSUME Install PROVE WorkerInv'
  BY <1>10 DEF Install, Periodic, Running
<1>11. ASSUME NEW k \in Keys, Store(k) \/ TriggerTargetProbe(k) \/ Enqueue(k)
       PROVE  WorkerInv'
  BY <1>2, <1>11 DEF Store, TriggerTargetProbe, Enqueue, Periodic, Running
<1>12. ASSUME TriggerProbe PROVE WorkerInv'
  BY <1>12 DEF TriggerProbe, Periodic, Running
<1>13. ASSUME Tick PROVE WorkerInv'
  <2>1. pc = "select" /\ Periodic => timer > 0
    BY <1>13 DEF Tick, TypeOK
  <2>2. timer = NoTime => timer' = NoTime
    BY <1>13 DEF Tick, Later, NoTime
  <2>3. timer > 0 /\ timer \in Int => timer' >= 0
    BY <1>13 DEF Tick, Later
  <2>4. timer \in Int
    BY <1>1 DEF TypeOK, NoTime
  <2>5. QED
    BY <1>13, <2>1, <2>2, <2>3, <2>4 DEF Tick, Periodic, Running
<1>14. CASE UNCHANGED vars
  BY <1>14 DEF vars, Periodic, Running
<1>15. QED
  BY <1>3, <1>4, <1>5, <1>6, <1>7, <1>8, <1>9, <1>10, <1>11, <1>12, <1>13,
     <1>14 DEF Next

-----------------------------------------------------------------------------
(* The countdown. *)

(* While a worker runs on a timer, the countdown shows no more than an     *)
(* interval, and a targeted probe in hand is known to postpone the timer.  *)
CountdownInv ==
    Running /\ Periodic =>
      /\ pc \in {"select", "work"} => shown <= interval(config)
      /\ pc = "work" /\ why = "target" => postponed

LEMMA CountdownStep ==
  ASSUME TypeOK, WorkerInv, CountdownInv, ShownIsTheTimer, [Next]_vars
  PROVE  (CountdownInv /\ ShownIsTheTimer)'
<1> USE DEF CountdownInv, ShownIsTheTimer, cacheVars, channelVars, workVars,
            timeVars, ghostVars
<1>1. /\ interval(config) \in Nat /\ interval(config) > 0
      /\ timer \in Int /\ shown \in Int /\ shown >= NoTime
      /\ timer <= interval(config)
  BY GetterTypes DEF TypeOK, NoTime
<1>2. ASSUME Boot PROVE (CountdownInv /\ ShownIsTheTimer)'
  BY <1>1, <1>2 DEF Boot, BeginSweep, Periodic, Running
<1>3. ASSUME TimerFires \/ TakeTrigger PROVE (CountdownInv /\ ShownIsTheTimer)'
  BY <1>1, <1>3 DEF TimerFires, TakeTrigger, BeginSweep, Periodic, Running
<1>4. ASSUME NEW k \in Keys, TakeTarget(k) \/ RunDemandProbe(k) \/ DemandSettled(k)
      PROVE  (CountdownInv /\ ShownIsTheTimer)'
  BY <1>4 DEF TakeTarget, RunDemandProbe, DemandSettled, BeginProbeOf, Periodic,
     Running
<1>5. ASSUME NEW k \in Keys, LookAt(k) PROVE (CountdownInv /\ ShownIsTheTimer)'
  BY <1>5 DEF LookAt, SkipFresh, SkipBlocked, BeginProbe, Looks, Periodic,
     Running
<1>6. ASSUME Captured \/ Missed PROVE (CountdownInv /\ ShownIsTheTimer)'
  <2>1. pc = "work"
    BY <1>6 DEF Captured, Missed, WorkerInv
  <2>2. QED
    BY <1>6, <2>1 DEF Captured, Missed, Periodic, Running
<1>7. ASSUME WorkEnds PROVE (CountdownInv /\ ShownIsTheTimer)'
  <2>1. pc = "work" /\ pc' = "select" /\ UNCHANGED <<config, stopping>>
    BY <1>7 DEF WorkEnds
  <2>2. ASSUME Running, Periodic
        PROVE  /\ timer' = interval(config) /\ shown' <= timer'
               /\ ~postponed' => shown' = timer'
    <3>1. timer' = interval(config)
      BY <1>7, <2>2 DEF WorkEnds, NextTimer
    <3>2. CASE why = "target"
      <4>1. postponed /\ shown <= interval(config)
        BY <2>1, <2>2, <3>2
      <4>2. postponed' /\ shown' = shown
        BY <1>7, <3>2, <4>1 DEF WorkEnds, NextShown
      <4>3. QED
        BY <3>1, <4>1, <4>2
    <3>3. CASE why # "target"
      BY <1>1, <1>7, <2>2, <3>1, <3>3 DEF WorkEnds, NextShown
    <3>4. QED
      BY <3>2, <3>3
  <2>3. QED
    BY <2>1, <2>2 DEF Periodic, Running
<1>8. ASSUME CtxDone \/ Stop PROVE (CountdownInv /\ ShownIsTheTimer)'
  BY <1>8 DEF CtxDone, Stop, Periodic, Running
<1>9. ASSUME Install PROVE (CountdownInv /\ ShownIsTheTimer)'
  BY <1>9 DEF Install
<1>10. ASSUME NEW k \in Keys, Store(k) \/ TriggerTargetProbe(k) \/ Enqueue(k)
       PROVE  (CountdownInv /\ ShownIsTheTimer)'
  BY <1>10 DEF Store, TriggerTargetProbe, Enqueue, Periodic, Running
<1>11. ASSUME TriggerProbe PROVE (CountdownInv /\ ShownIsTheTimer)'
  BY <1>11 DEF TriggerProbe, Periodic, Running
<1>12. ASSUME Tick PROVE (CountdownInv /\ ShownIsTheTimer)'
  <2>1. pc = "select" /\ Running /\ Periodic => timer > 0
    BY <1>1, <1>12 DEF Tick, WorkerInv
  <2>2. shown' <= shown /\ (shown > 0 => shown' = shown - 1)
          /\ (shown <= 0 => shown' = shown)
    BY <1>1, <1>12 DEF Tick, Later
  <2>3. timer > 0 => timer' = timer - 1
    BY <1>12 DEF Tick, Later
  <2>4. UNCHANGED <<config, stopping, pc, why, postponed>>
    BY <1>12 DEF Tick
  <2>5. QED
    BY <1>1, <2>1, <2>2, <2>3, <2>4 DEF Periodic, Running
<1>13. CASE UNCHANGED vars
  BY <1>13 DEF vars, Periodic, Running
<1>14. QED
  BY <1>2, <1>3, <1>4, <1>5, <1>6, <1>7, <1>8, <1>9, <1>10, <1>11, <1>12,
     <1>13 DEF Next

-----------------------------------------------------------------------------
(* No gap. *)

(* The ticket of k outlives the time until the worker will have looked at  *)
(* k again: the rest of the work in hand if that will, and else the rest   *)
(* of it, an interval, and the next sweep.                                 *)
Outlives(k) ==
    /\ pc = "boot" => age[k] <= 0
    /\ pc = "select" => age[k] + timer + MaxWork < ttl(config)
    /\ pc = "work" /\ k \in todo \cup {busy} =>
         age[k] + (MaxWork - spent) < ttl(config)
    /\ pc = "work" /\ k \notin todo \cup {busy} =>
         age[k] + (MaxWork - spent) + interval(config) + MaxWork < ttl(config)

DeadlineInv ==
    Running /\ Periodic /\ KeepsUp => \A k \in Keys \ excused : Outlives(k)

LEMMA Numbers ==
  ASSUME TypeOK
  PROVE  /\ interval(config) \in Nat /\ ttl(config) \in Nat
         /\ probeLead(config) \in Nat /\ MaxWork \in Nat
         /\ timer \in Int /\ timer <= interval(config)
         /\ spent \in Nat /\ spent <= MaxWork
         /\ \A k \in Keys : age[k] \in Int
  BY GetterTypes, ScheduleAssumption DEF TypeOK, NoTime

LEMMA KeepingUp ==
  ASSUME TypeOK, KeepsUp
  PROVE  /\ interval(config) + 2 * MaxWork < ttl(config)
         /\ config.schedule = "state_aware" =>
              interval(config) + 2 * MaxWork <= probeLead(config)
  BY DEF KeepsUp, Round

LEMMA DeadlineStep ==
  ASSUME TypeOK, WorkerInv, DeadlineInv, [Next]_vars
  PROVE  DeadlineInv'
<1>1. ASSUME Install PROVE DeadlineInv'
  BY <1>1 DEF Install, WorkerInv, DeadlineInv
<1>2. ASSUME config' = config, Running', Periodic, KeepsUp, ~Install,
             NEW k \in Keys \ excused'
      PROVE  Outlives(k)'
  <2> USE DEF cacheVars, channelVars, workVars, timeVars, ghostVars
  <2>1. /\ interval(config) \in Nat /\ ttl(config) \in Nat
        /\ probeLead(config) \in Nat /\ MaxWork \in Nat
        /\ timer \in Int /\ timer <= interval(config)
        /\ spent \in Nat /\ spent <= MaxWork /\ age[k] \in Int
    BY <1>2, Numbers
  <2>2. /\ interval(config) + 2 * MaxWork < ttl(config)
        /\ config.schedule = "state_aware" =>
             interval(config) + 2 * MaxWork <= probeLead(config)
    BY <1>2, KeepingUp
  <2>3. Running
    <3>1. ~Stop
      BY <1>2 DEF Stop, Running
    <3>2. config' = config /\ stopping' = stopping
      BY <1>2, <3>1, ConfigStep
    <3>3. QED
      BY <1>2, <3>2 DEF Running
  <2>4. ~stopping /\ pc # "off"
    BY <2>3 DEF Running, WorkerInv
  <2>5. k \notin excused => Outlives(k)
    BY <1>2, <2>3 DEF DeadlineInv
  <2>6. CASE Boot
    <3>1. pc = "boot" /\ k \notin excused /\ age' = age /\ spent = 0
      BY <1>2, <2>6 DEF Boot, BeginSweep, WorkerInv
    <3>2. age[k] <= 0
      BY <2>5, <3>1 DEF Outlives
    <3>3. CASE pc' = "work"
      BY <2>1, <2>2, <2>6, <3>1, <3>2, <3>3, <1>2 DEF Boot, BeginSweep, Outlives
    <3>4. CASE pc' = "select" /\ timer' = interval(config)
      BY <2>1, <2>2, <3>1, <3>2, <3>4, <1>2 DEF Outlives
    <3>5. QED
      BY <1>2, <2>6, <3>3, <3>4 DEF Boot, BeginSweep
  <2>7. CASE TimerFires \/ TakeTrigger
    <3>1. /\ pc = "select" /\ pc' = "work" /\ age' = age
          /\ k \in todo' /\ k \notin excused /\ spent' = spent /\ spent = 0
      BY <1>2, <2>7 DEF TimerFires, TakeTrigger, BeginSweep, WorkerInv
    <3>2. timer >= 0
      BY <1>2, <3>1 DEF WorkerInv
    <3>3. age[k] + timer + MaxWork < ttl(config)
      BY <2>5, <3>1 DEF Outlives
    <3>4. QED
      BY <1>2, <2>1, <3>1, <3>2, <3>3 DEF Outlives
  <2>8. ASSUME NEW q \in Keys, TakeTarget(q) \/ RunDemandProbe(q) \/ DemandSettled(q)
        PROVE  Outlives(k)'
    BY <1>2, <2>8 DEF TakeTarget, RunDemandProbe, DemandSettled
  <2>9. ASSUME NEW q \in Keys, LookAt(q) PROVE Outlives(k)'
    <3>1. /\ pc = "work" /\ pc' = pc /\ age' = age /\ spent' = spent /\ busy = None
          /\ q \in todo
      BY <2>9 DEF LookAt, SkipFresh, SkipBlocked, BeginProbe, Looks
    <3>2. k # None
      BY ScheduleAssumption
    <3>3. CASE k # q
      BY <1>2, <2>5, <2>9, <3>1, <3>2, <3>3
         DEF LookAt, SkipFresh, SkipBlocked, BeginProbe, Outlives
    <3>4. CASE k = q
      <4>1. ~SkipBlocked(q)
        BY <1>2, <3>4 DEF SkipBlocked
      <4>2. CASE SkipFresh(q)
        <5>1. /\ age[k] < ttl(config) - probeLead(config)
              /\ config.schedule = "state_aware"
          BY <3>4, <4>2 DEF SkipFresh, ShouldSkip, Fresh
        <5>2. age[k] + (MaxWork - spent) + interval(config) + MaxWork < ttl(config)
          BY <2>1, <2>2, <5>1
        <5>3. QED
          BY <1>2, <2>1, <3>1, <5>2 DEF Outlives
      <4>3. CASE BeginProbe(q)
        BY <1>2, <2>5, <3>1, <3>4, <4>3 DEF BeginProbe, Outlives
      <4>4. QED
        BY <2>9, <4>1, <4>2, <4>3 DEF LookAt
    <3>5. QED
      BY <3>3, <3>4
  <2>10. CASE Captured
    <3>1. /\ pc = "work" /\ pc' = pc /\ spent' = spent /\ todo' = todo /\ busy' = None
          /\ busy \in Keys
      BY <2>10 DEF Captured, WorkerInv, TypeOK
    <3>2. CASE k = busy
      <4>1. age'[k] = 0
        BY <2>10, <3>2 DEF Captured, TypeOK
      <4>2. QED
        BY <1>2, <2>1, <2>2, <3>1, <4>1 DEF Outlives
    <3>3. CASE k # busy
      <4>1. age'[k] = age[k] /\ k \notin excused
        BY <1>2, <2>3, <2>10, <3>3 DEF Captured, TypeOK
      <4>2. k # None
        BY ScheduleAssumption
      <4>3. QED
        BY <1>2, <2>5, <3>1, <3>3, <4>1, <4>2 DEF Outlives
    <3>4. QED
      BY <3>2, <3>3
  <2>11. CASE Missed
    <3>1. /\ pc = "work" /\ pc' = pc /\ spent' = spent /\ todo' = todo /\ busy' = None
          /\ k # busy /\ k \notin excused /\ age' = age
      BY <1>2, <2>11 DEF Missed, WorkerInv
    <3>2. k # None
      BY ScheduleAssumption
    <3>3. QED
      BY <1>2, <2>5, <3>1, <3>2 DEF Outlives
  <2>12. CASE WorkEnds
    <3>1. /\ pc = "work" /\ pc' = "select" /\ busy = None /\ age' = age
          /\ timer' = interval(config) /\ k \notin excused /\ k \notin todo
      BY <1>2, <2>12 DEF WorkEnds, NextTimer
    <3>2. k # None
      BY ScheduleAssumption
    <3>3. age[k] + (MaxWork - spent) + interval(config) + MaxWork < ttl(config)
      BY <2>5, <3>1, <3>2 DEF Outlives
    <3>4. QED
      BY <1>2, <2>1, <3>1, <3>3 DEF Outlives
  <2>13. CASE CtxDone \/ Stop
    BY <1>2, <2>4, <2>13 DEF CtxDone, Stop, Running
  <2>14. ASSUME NEW q \in Keys, Store(q) PROVE Outlives(k)'
    <3>1. UNCHANGED <<pc, todo, busy, spent, timer>>
      BY <2>14 DEF Store
    <3>2. CASE k = q
      <4>1. age'[k] = 0
        BY <2>14, <3>2 DEF Store, TypeOK
      <4>2. QED
        BY <1>2, <2>1, <2>2, <3>1, <4>1 DEF Outlives
    <3>3. CASE k # q
      <4>1. age'[k] = age[k] /\ k \notin excused
        BY <1>2, <2>3, <2>14, <3>3 DEF Store, TypeOK
      <4>2. QED
        BY <1>2, <2>5, <3>1, <4>1 DEF Outlives
    <3>4. QED
      BY <3>2, <3>3
  <2>15. ASSUME NEW q \in Keys, TriggerTargetProbe(q) \/ Enqueue(q) \/ TriggerProbe
         PROVE  Outlives(k)'
    BY <1>2, <2>5, <2>15 DEF TriggerTargetProbe, Enqueue, TriggerProbe, Outlives
  <2>16. CASE Tick
    <3>1. /\ pc # "boot" /\ (pc = "select" => timer # 0)
          /\ (pc = "work" => spent < MaxWork)
          /\ UNCHANGED <<pc, todo, busy, excused>>
          /\ (pc = "work" => spent' = spent + 1)
      BY <2>16 DEF Tick
    <3>2. age'[k] <= age[k] + 1 /\ age'[k] \in Int
      BY <2>1, <2>16 DEF Tick
    <3>3. pc = "select" => timer' = timer - 1
      BY <1>2, <2>1, <2>16, <3>1 DEF Tick, Later, WorkerInv
    <3>4. Outlives(k)
      BY <1>2, <2>5, <3>1
    <3>5. QED
      BY <1>2, <2>1, <3>1, <3>2, <3>3, <3>4 DEF Outlives
  <2>17. CASE UNCHANGED vars
    BY <1>2, <2>5, <2>17 DEF vars, Outlives
  <2>18. CASE TriggerProbe
    BY <2>15, <2>18
  <2>19. QED
    BY <1>2, <2>6, <2>7, <2>8, <2>9, <2>10, <2>11, <2>12, <2>13, <2>14, <2>15,
       <2>16, <2>17, <2>18 DEF Next
<1>3. QED
  BY <1>1, <1>2, ConfigStep DEF DeadlineInv, Periodic, KeepsUp, Round

-----------------------------------------------------------------------------
(* The age of renewal. *)

LEMMA RenewableIsNotFresh ==
  ASSUME TypeOK, NEW k \in Keys
  PROVE  Renewable(k) <=> ~Fresh(k)
<1>1. RenewAge(config) = ttl(config) - probeLead(config)
  BY RenewAgeIsTheLead DEF TypeOK
<1>2. age[k] \in Int /\ ttl(config) \in Int /\ probeLead(config) \in Int
  BY Numbers
<1>3. QED
  BY <1>1, <1>2 DEF Renewable, Fresh

LEMMA RenewalStep ==
  ASSUME TypeOK, WorkerInv, [Next]_vars, NEW k \in Keys
  PROVE  /\ (/\ busy' = k /\ busy # k
             /\ why = "timer" /\ config.schedule = "state_aware") => ~Fresh(k)
         /\ k \in todo \ (todo' \cup excused') /\ busy' # k => Fresh(k)
         /\ job' = k /\ job # k /\ why' = "demand" => ~Fresh(k)
<1> USE DEF cacheVars, channelVars, workVars, timeVars, ghostVars
<1>1. k # None
  BY ScheduleAssumption
<1>2. CASE pc # "work"
  <2>1. todo = {} /\ busy = None /\ job = None /\ why = "none"
    BY <1>2 DEF WorkerInv
  <2>2. busy' = None \/ \E q \in Keys : LookAt(q)
    BY <2>1, <1>2 DEF Next, vars, Boot, BeginSweep, TimerFires, TakeTrigger,
       Captured, Missed, WorkEnds, CtxDone, Stop, Install, TriggerProbe, Tick,
       TakeTarget, BeginProbeOf, DemandSettled, RunDemandProbe, Store,
       TriggerTargetProbe, Enqueue
  <2>3. ASSUME NEW q \in Keys, LookAt(q) PROVE FALSE
    BY <1>2, <2>3 DEF LookAt, SkipFresh, SkipBlocked, BeginProbe, Looks
  <2>4. job' = k /\ why' = "demand" => RunDemandProbe(k)
    BY <1>1, <1>2, <2>1, <2>3 DEF Next, vars, Boot, BeginSweep, TimerFires,
       TakeTrigger, Captured, Missed, WorkEnds, CtxDone, Stop, Install,
       TriggerProbe, Tick, TakeTarget, BeginProbeOf, DemandSettled,
       RunDemandProbe, Store, TriggerTargetProbe, Enqueue
  <2>5. QED
    BY <1>1, <2>1, <2>2, <2>3, <2>4 DEF RunDemandProbe
<1>3. CASE pc = "work"
  <2>1. ASSUME NEW q \in Keys, LookAt(q)
        PROVE  /\ (/\ busy' = k /\ busy # k
                   /\ why = "timer" /\ config.schedule = "state_aware") => ~Fresh(k)
               /\ k \in todo \ (todo' \cup excused') /\ busy' # k => Fresh(k)
               /\ job' = job
    <3>1. CASE SkipFresh(q)
      BY <1>1, <3>1 DEF SkipFresh, ShouldSkip
    <3>2. CASE SkipBlocked(q)
      BY <1>1, <3>2 DEF SkipBlocked
    <3>3. CASE BeginProbe(q)
      BY <1>1, <3>3 DEF BeginProbe, ShouldSkip
    <3>4. QED
      BY <2>1, <3>1, <3>2, <3>3 DEF LookAt
  <2>2. CASE ~ \E q \in Keys : LookAt(q)
    <3>1. /\ busy' \in {None, busy} /\ job' \in {None, job}
          /\ todo' = todo \/ todo \subseteq excused'
      BY <1>3, <2>2 DEF Next, vars, Boot, TimerFires, TakeTrigger,
         Captured, Missed, WorkEnds, CtxDone, Stop, Install, TriggerProbe, Tick,
         TakeTarget, DemandSettled, RunDemandProbe, Store,
         TriggerTargetProbe, Enqueue
    <3>2. QED
      BY <1>1, <3>1
  <2>3. QED
    BY <2>1, <2>2
<1>4. QED
  BY <1>2, <1>3

-----------------------------------------------------------------------------
IInv == WorkerInv /\ CountdownInv /\ ShownIsTheTimer /\ DeadlineInv

LEMMA ScheduleInit == Init => IInv
<1> SUFFICES ASSUME Init PROVE IInv
  OBVIOUS
<1>1. pc = "off" /\ stopping /\ excused = Keys
  BY DEF Init
<1>2. WorkerInv
  BY DEF Init, WorkerInv, Running
<1>3. CountdownInv /\ ShownIsTheTimer /\ DeadlineInv
  BY <1>1 DEF CountdownInv, ShownIsTheTimer, DeadlineInv, Running
<1>4. QED
  BY <1>2, <1>3 DEF IInv

LEMMA ScheduleInvariant == Spec => [](TypeOK /\ IInv)
<1>1. TypeOK /\ IInv /\ [Next]_vars => (TypeOK /\ IInv)'
  BY TypeStep, WorkerStep, CountdownStep, DeadlineStep DEF IInv
<1>2. QED
  BY <1>1, TypeInit, ScheduleInit, PTL DEF Spec

(* The channels, the worker and the clock keep their types, for every      *)
(* configuration.                                                          *)
THEOREM ScheduleTypeCorrect == Spec => []TypeOK
  BY ScheduleInvariant, PTL

(* No key whose probes succeed is left with an expired ticket, whatever    *)
(* the interval, the lead and the ttl, if they leave time for two sweeps   *)
(* (probe.go, lifecycle.go).                                               *)
THEOREM NoGapBetweenTickets == Spec => []NoGap
<1>1. TypeOK /\ IInv => NoGap
  <2> SUFFICES ASSUME TypeOK, IInv, Running, Periodic, KeepsUp,
                      NEW k \in Keys \ excused
               PROVE  age[k] < ttl(config)
    BY DEF NoGap
  <2>1. Outlives(k)
    BY DEF IInv, DeadlineInv
  <2>2. /\ pc \in {"boot", "select", "work"}
        /\ pc = "select" => timer >= 0
    BY DEF IInv, WorkerInv, TypeOK
  <2>3. /\ interval(config) \in Nat /\ ttl(config) \in Nat /\ ttl(config) > 0
        /\ MaxWork \in Nat /\ timer \in Int
        /\ spent \in Nat /\ spent <= MaxWork /\ age[k] \in Int
    BY Numbers, GetterTypes DEF TypeOK
  <2>4. QED
    BY <2>1, <2>2, <2>3 DEF Outlives
<1>2. QED
  BY <1>1, ScheduleInvariant, PTL

(* The countdown of the status page agrees with the timer (probe.go,       *)
(* runtime.go).                                                            *)
THEOREM CountdownAgrees == Spec => []ShownIsTheTimer
  BY ScheduleInvariant, PTL DEF IInv

(* Tickets are renewed from the documented age on, and not before          *)
(* (config.go, lifecycle.go), for every combination of the settings.       *)
THEOREM RenewalAgeIsDocumented == Spec => RenewsAtDocumentedAge
<1>1. TypeOK /\ IInv /\ [Next]_vars
        => [\A k \in Keys :
              /\ /\ busy' = k /\ busy # k
                 /\ why = "timer" /\ config.schedule = "state_aware"
                 => Renewable(k)
              /\ k \in todo \ (todo' \cup excused') /\ busy' # k => ~Renewable(k)
              /\ job' = k /\ job # k /\ why' = "demand" => Renewable(k)]_vars
  BY RenewalStep, RenewableIsNotFresh DEF IInv
<1>2. QED
  BY <1>1, ScheduleInvariant, PTL DEF Spec, RenewsAtDocumentedAge

=============================================================================
