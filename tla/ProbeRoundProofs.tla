-------------------------- MODULE ProbeRoundProofs --------------------------
(***************************************************************************)
(* Cooldowns, backoffs and the turns of the proxies for every set of keys  *)
(* and accounts, every pool, every number of attempts and every length of  *)
(* cooldown and backoff.                                                   *)
(***************************************************************************)
EXTENDS ProbeRound, FiniteSetTheorems, TLAPS

-----------------------------------------------------------------------------
(* A round is part of a sweep. *)
InSweep == round # Idle => sweep # Idle

LEMMA CountUp ==
    ASSUME NEW D, NEW f \in [D -> Nat], NEW i
    PROVE  [f EXCEPT ![i] = @ + 1] \in [D -> Nat]
  <1>1. CASE i \in D
    <2>1. f[i] + 1 \in Nat
      BY <1>1
    <2>2. QED
      BY <2>1
  <1>2. CASE i \notin D
    BY <1>2
  <1>3. QED
    BY <1>1, <1>2

(* What the steps of a round make of it. *)
LEMMA RoundExcept ==
    ASSUME NEW r \in Round
    PROVE  /\ \A start \in Nat :
                [r EXCEPT !.route = "proxy", !.attempt = 1, !.asked = FALSE,
                          !.start = start] \in Round
           /\ [r EXCEPT !.asked = FALSE, !.route = "enter"] \in Round
           /\ \A n \in Nat \ {0} : [r EXCEPT !.asked = FALSE, !.attempt = n] \in Round
           /\ [r EXCEPT !.asked = TRUE] \in Round
           /\ \A tries \in [0..(CursorPeriod - 1) -> Nat] :
                [r EXCEPT !.asked = TRUE, !.tries = tries] \in Round
  <1>1. /\ r.key \in Keys /\ r.route \in {"direct", "enter", "proxy"}
        /\ r.attempt \in Nat \ {0} /\ r.start \in Nat /\ r.asked \in BOOLEAN
        /\ r.tries \in [0..(CursorPeriod - 1) -> Nat]
        /\ r = [key |-> r.key, route |-> r.route, attempt |-> r.attempt,
                start |-> r.start, asked |-> r.asked,
                tries |-> r.tries]
    BY DEF Round
  <1>3. \A start \in Nat, n \in Nat \ {0} :
          [r EXCEPT !.route = "proxy", !.attempt = n, !.asked = FALSE,
                    !.start = start] \in Round
    BY <1>1 DEF Round
  <1>4. [r EXCEPT !.asked = FALSE, !.route = "enter"] \in Round
    BY <1>1 DEF Round
  <1>5. \A n \in Nat \ {0} : [r EXCEPT !.asked = FALSE, !.attempt = n] \in Round
    BY <1>1 DEF Round
  <1>6. [r EXCEPT !.asked = TRUE] \in Round
    BY <1>1 DEF Round
  <1>7. \A tries \in [0..(CursorPeriod - 1) -> Nat] :
          [r EXCEPT !.asked = TRUE, !.tries = tries] \in Round
    BY <1>1 DEF Round
  <1>8. \A start \in Nat :
          [r EXCEPT !.route = "proxy", !.attempt = 1, !.asked = FALSE,
                    !.start = start] \in Round
    <2>1. 1 \in Nat \ {0}
      OBVIOUS
    <2>2. QED
      BY <1>3, <2>1, Zenon
  <1>9. QED
    BY <1>4, <1>5, <1>6, <1>7, <1>8

LEMMA RoundFields ==
    ASSUME TypeOK, round # Idle
    PROVE  /\ round \in Round
           /\ round.key \in Keys
           /\ Owner[round.key] \in Accounts
           /\ round.attempt \in Nat \ {0} /\ round.start \in Nat
           /\ round.tries \in [0..(CursorPeriod - 1) -> Nat]
           /\ round = [key |-> round.key, route |-> round.route,
                       attempt |-> round.attempt, start |-> round.start,
                       asked |-> round.asked,
                       tries |-> round.tries]
  BY ProbeAssumption DEF TypeOK, Round

LEMMA DryTyped ==
    ASSUME TypeOK, NEW k \in Keys
    PROVE  Dry(k) \in [Keys -> 0..MissRounds]
  BY DEF TypeOK, Dry, MissRounds

LEMMA RecordMissTyped ==
    ASSUME TypeOK, NEW k \in Keys, RecordMiss(k)
    PROVE  /\ missRounds' \in [Keys -> 0..(MissRounds - 1)]
           /\ cooldownUntil' \in [Keys -> Nat]
  BY ProbeAssumption DEF TypeOK, RecordMiss, MissRounds

LEMMA TypeInit == Init => TypeOK
  <1> SUFFICES ASSUME Init PROVE TypeOK
    OBVIOUS
  <1> USE ProbeAssumption DEF Init
  <1>1. now \in 1..MaxTime /\ poolCursor \in 0..(CursorPeriod - 1)
    OBVIOUS
  <1>2. cfg \in Config
    OBVIOUS
  <1>3. /\ missRounds \in [Keys -> 0..(MissRounds - 1)]
        /\ dry \in [Keys -> 0..MissRounds]
    BY DEF MissRounds
  <1>4. QED
    BY <1>1, <1>2, <1>3 DEF TypeOK

LEMMA InSweepStep == TypeOK /\ InSweep /\ [Next]_vars => InSweep'
  <1> SUFFICES ASSUME TypeOK, InSweep, [Next]_vars PROVE InSweep'
    OBVIOUS
  <1>1. CASE Cut
    <2>1. sweep' \in Sweep
      BY <1>1 DEF Cut, TypeOK, Sweep
    <2>2. QED
      BY <2>1, ProbeAssumption DEF InSweep
  <1>2. CASE PrepareProbe
    <2>1. sweep' \in Sweep
      BY <1>2 DEF PrepareProbe, TypeOK, Config, Sweep
    <2>2. QED
      BY <2>1, ProbeAssumption DEF InSweep
  <1>3. CASE round' = Idle
    BY <1>3 DEF InSweep
  <1>4. CASE UNCHANGED sweep /\ (round = Idle => round' = Idle \/ sweep # Idle)
    BY <1>4 DEF InSweep
  <1>5. QED
    BY <1>1, <1>2, <1>3, <1>4
       DEF Next, vars, Ledger, SweepEnds, BeginRound, EnterPool, Ask, Quit,
           Captured, Missed, QuotaAnswer, UsageFails, UsageQuota, ApplyConfig,
           ApplyProxyLines, Tick

LEMMA TypeStep == TypeOK /\ InSweep /\ [Next]_vars => TypeOK'
  <1> SUFFICES ASSUME TypeOK, InSweep, [Next]_vars PROVE TypeOK'
    OBVIOUS
  <1> USE ProbeAssumption
  <1>1. CASE PrepareProbe
    <2>1. sweep' \in Sweep
      BY <1>1 DEF PrepareProbe, Sweep, TypeOK, Config
    <2>2. QED
      BY <1>1, <2>1 DEF PrepareProbe, Ledger, TypeOK
  <1>2. CASE SweepEnds
    BY <1>2 DEF SweepEnds, Ledger, TypeOK
  <1>3. ASSUME NEW k \in Keys, BeginRound(k)
        PROVE  TypeOK'
    <2>1. round' \in Round
      BY <1>3 DEF BeginRound, Round
    <2>2. QED
      BY <1>3, <2>1 DEF BeginRound, Ledger, TypeOK
  <1>4. CASE EnterPool
    <2>1. round' \in Round \cup {Idle}
      <3>1. CASE round' = Idle
        BY <3>1
      <3>2. CASE sweep.pool # 0 /\ ~QuotaBlocked(Owner[round.key])
        <4>1. PICK start : /\ start = IF cfg.rotate THEN poolCursor % sweep.pool ELSE 0
                           /\ round' = [round EXCEPT !.route = "proxy", !.attempt = 1,
                                                     !.asked = FALSE,
                                                     !.start = start]
          BY <1>4, <3>2 DEF EnterPool
        <4>2. start \in Nat
          <5>1. sweep.pool \in Nat \ {0} /\ poolCursor \in Nat
            BY <1>4, <3>2 DEF EnterPool, InSweep, TypeOK, Sweep
          <5>2. QED
            BY <4>1, <5>1
        <4>3. round \in Round
          BY <1>4, RoundFields DEF EnterPool
        <4>4. QED
          BY <4>1, <4>2, <4>3, RoundExcept
      <3>3. QED
        BY <1>4, <3>1, <3>2 DEF EnterPool
    <2>2. dry' \in [Keys -> 0..MissRounds]
      <3>1. dry' \in {dry, Dry(round.key)}
        BY <1>4 DEF EnterPool
      <3>2. round.key \in Keys /\ dry \in [Keys -> 0..MissRounds]
        BY <1>4, RoundFields DEF EnterPool, TypeOK
      <3>3. QED
        BY <3>1, <3>2, DryTyped
    <2>3. poolCursor' \in 0..(CursorPeriod - 1)
      BY <1>4 DEF EnterPool, TypeOK
    <2>4. QED
      BY <1>4, <2>1, <2>2, <2>3 DEF EnterPool, TypeOK
  <1>5. CASE Ask
    <2>1. round \in Round
      BY <1>5, RoundFields DEF Ask
    <2>2. round' \in Round
      <3>1. round.tries \in [0..(CursorPeriod - 1) -> Nat]
        BY <2>1 DEF Round
      <3>2. Tried(round) \in [0..(CursorPeriod - 1) -> Nat]
        BY <3>1, CountUp DEF Tried
      <3>3. CASE round' = [round EXCEPT !.asked = TRUE]
        BY <2>1, <3>3, RoundExcept
      <3>4. CASE round' = [round EXCEPT !.asked = TRUE, !.tries = Tried(round)]
        BY <2>1, <3>2, <3>4, RoundExcept
      <3>5. QED
        BY <1>5, <3>3, <3>4 DEF Ask
    <2>3. QED
      BY <1>5, <2>2 DEF Ask, Ledger, TypeOK
  <1>6. CASE Quit
    BY <1>6 DEF Quit, Ledger, TypeOK
  <1>7. CASE Captured
    <2>1. /\ missRounds' \in [Keys -> 0..(MissRounds - 1)]
          /\ cooldownUntil' \in [Keys -> Nat]
          /\ dry' \in [Keys -> 0..MissRounds]
      <3>1. round.key \in Keys
        BY <1>7, RoundFields DEF Captured
      <3>2. QED
        BY <1>7, <3>1 DEF Captured, TypeOK, MissRounds
    <2>2. QED
      BY <1>7, <2>1 DEF Captured, TypeOK
  <1>8. CASE Missed
    <2>1. round' \in Round \cup {Idle}
      <3>1. CASE round' = Idle
        BY <3>1
      <3>2. CASE round' = [round EXCEPT !.asked = FALSE, !.route = "enter"]
        <4>1. round \in Round
          BY <1>8, RoundFields DEF Missed
        <4>2. QED
          BY <3>2, <4>1, RoundExcept
      <3>3. CASE round' = [round EXCEPT !.asked = FALSE, !.attempt = @ + 1]
        <4>1. round \in Round /\ round.attempt + 1 \in Nat \ {0}
          BY <1>8, RoundFields DEF Missed
        <4>2. QED
          BY <3>3, <4>1, RoundExcept
      <3>4. QED
        BY <1>8, <3>1, <3>2, <3>3 DEF Missed
    <2>2. /\ missRounds' \in [Keys -> 0..(MissRounds - 1)]
          /\ cooldownUntil' \in [Keys -> Nat]
          /\ dry' \in [Keys -> 0..MissRounds]
      <3>1. round.key \in Keys
        BY <1>8, RoundFields DEF Missed
      <3>2. CASE RecordMiss(round.key) /\ dry' = Dry(round.key)
        BY <3>1, <3>2, RecordMissTyped, DryTyped
      <3>3. CASE UNCHANGED <<missRounds, cooldownUntil, dry>>
        BY <3>3 DEF TypeOK
      <3>4. QED
        BY <1>8, <3>2, <3>3 DEF Missed
    <2>3. QED
      BY <1>8, <2>1, <2>2 DEF Missed, TypeOK
  <1>9. CASE QuotaAnswer
    <2>1. now + cfg.backoff \in Nat
      BY DEF TypeOK, Config
    <2>2. /\ quotaUntil' \in [Accounts -> Nat]
          /\ ownQuota' \in [Accounts -> Nat]
      BY <1>9, <2>1 DEF QuotaAnswer, TypeOK
    <2>3. QED
      BY <1>9, <2>2 DEF QuotaAnswer, TypeOK
  <1>10. ASSUME NEW a \in Accounts, UsageQuota(a)
         PROVE  TypeOK'
    <2>1. now + report[a] \in Nat
      BY DEF TypeOK
    <2>2. /\ quotaUntil' \in [Accounts -> Nat]
          /\ ownQuota' \in [Accounts -> Nat]
          /\ report' \in [Accounts -> Nat]
      BY <1>10, <2>1 DEF UsageQuota, TypeOK
    <2>3. QED
      BY <1>10, <2>2 DEF UsageQuota, TypeOK
  <1>17. ASSUME NEW a \in Accounts, UsageFails(a)
         PROVE  TypeOK'
    <2>1. report' \in [Accounts -> Nat]
      BY <1>17 DEF UsageFails, TypeOK, Config
    <2>2. QED
      BY <1>17, <2>1 DEF UsageFails, TypeOK
  <1>11. CASE Cut
    <2>1. sweep' \in Sweep
      BY <1>11 DEF Cut, TypeOK, Sweep
    <2>2. QED
      BY <1>11, <2>1 DEF Cut, Ledger, TypeOK
  <1>12. CASE ApplyConfig
    BY <1>12 DEF ApplyConfig, TypeOK
  <1>13. ASSUME NEW n \in PoolSizes, ApplyProxyLines(n)
         PROVE  TypeOK'
    <2>1. cfg' \in Config
      BY <1>13 DEF ApplyProxyLines, TypeOK, Config
    <2>2. QED
      BY <1>13, <2>1 DEF ApplyProxyLines, TypeOK
  <1>14. CASE Tick
    BY <1>14 DEF Tick, TypeOK
  <1>15. CASE UNCHANGED vars
    BY <1>15 DEF vars, TypeOK
  <1>16. QED
    BY <1>1, <1>2, <1>3, <1>4, <1>5, <1>6, <1>7, <1>8, <1>9, <1>10, <1>11,
       <1>12, <1>13, <1>14, <1>15, <1>17 DEF Next

LEMMA RoundsInSweeps == Spec => [](TypeOK /\ InSweep)
  <1>1. Init => InSweep
    BY DEF Init, InSweep
  <1>2. QED
    BY <1>1, TypeInit, TypeStep, InSweepStep, PTL DEF Spec

(* Clocks, counters, sweeps and rounds keep their shapes. *)
THEOREM RoundTypeCorrect == Spec => []TypeOK
  BY RoundsInSweeps, PTL

-----------------------------------------------------------------------------
(* The step that counts a missed round, and the two that leave a round     *)
(* without counting it.                                                    *)
LEMMA MissKeepsEarned ==
    ASSUME TypeOK, CooldownEarned, NEW j \in Keys,
           RecordMiss(j), dry' = Dry(j), UNCHANGED <<now, cfg>>
    PROVE  CooldownEarned'
  <1> SUFFICES ASSUME NEW k \in Keys
               PROVE  /\ missRounds'[k] <= dry'[k]
                      /\ now < cooldownUntil'[k] => dry'[k] = MissRounds
    BY DEF CooldownEarned
  <1> USE DEF TypeOK, CooldownEarned, MissRounds
  <1>1. CASE k # j \/ ~cfg.onDemand
    BY <1>1 DEF RecordMiss, Dry
  <1>2. CASE k = j /\ cfg.onDemand
    <2>1. dry'[k] = IF dry[k] < 3 THEN dry[k] + 1 ELSE dry[k]
      BY <1>2 DEF Dry
    <2>2. CASE missRounds[k] + 1 < 3
      BY <1>2, <2>1, <2>2 DEF RecordMiss
    <2>3. CASE missRounds[k] + 1 >= 3
      BY <1>2, <2>1, <2>3 DEF RecordMiss
    <2>4. QED
      BY <2>2, <2>3
  <1>3. QED
    BY <1>1, <1>2

LEMMA DryKeepsEarned ==
    ASSUME TypeOK, CooldownEarned, NEW j \in Keys, dry' = Dry(j),
           UNCHANGED <<now, cfg, missRounds, cooldownUntil>>
    PROVE  CooldownEarned'
  BY DEF TypeOK, CooldownEarned, Dry, MissRounds

LEMMA EarnedStep == TypeOK /\ CooldownEarned /\ [Next]_vars => CooldownEarned'
  <1> SUFFICES ASSUME TypeOK, CooldownEarned, [Next]_vars PROVE CooldownEarned'
    OBVIOUS
  <1>1. CASE EnterPool
    <2>1. round.key \in Keys
      BY <1>1, RoundFields DEF EnterPool
    <2>2. CASE dry' = Dry(round.key)
      BY <1>1, <2>1, <2>2, DryKeepsEarned DEF EnterPool
    <2>3. CASE dry' = dry
      BY <1>1, <2>3 DEF EnterPool, CooldownEarned
    <2>4. QED
      BY <1>1, <2>2, <2>3 DEF EnterPool
  <1>2. CASE Captured
    BY <1>2 DEF Captured, TypeOK, CooldownEarned, MissRounds
  <1>3. CASE Missed
    <2>1. CASE RecordMiss(round.key) /\ dry' = Dry(round.key)
      BY <1>3, <2>1, RoundFields, MissKeepsEarned DEF Missed
    <2>2. CASE UNCHANGED <<missRounds, cooldownUntil, dry>>
      BY <1>3, <2>2 DEF Missed, CooldownEarned
    <2>3. QED
      BY <1>3, <2>1, <2>2 DEF Missed
  <1>4. CASE Tick
    BY <1>4 DEF Tick, TypeOK, CooldownEarned
  <1>5. ASSUME UNCHANGED <<now, missRounds, cooldownUntil, dry>>
        PROVE  CooldownEarned'
    BY <1>5 DEF CooldownEarned
  <1>6. QED
    BY <1>1, <1>2, <1>3, <1>4, <1>5
       DEF Next, vars, Ledger, PrepareProbe, SweepEnds, BeginRound, Ask, Quit,
           QuotaAnswer, UsageFails, UsageQuota, Cut, ApplyConfig, ApplyProxyLines

(* No key cools down but for three rounds it missed since its last capture. *)
THEOREM CooldownsAreEarned == Spec => []CooldownEarned
  <1>1. Init => CooldownEarned
    BY ProbeAssumption DEF Init, CooldownEarned
  <1>2. QED
    BY <1>1, EarnedStep, RoundTypeCorrect, PTL DEF Spec

-----------------------------------------------------------------------------
(* With proxies in every pool a round that is missed to its end is counted *)
(* (probeTargetWithProxies returns before recordProbeMissRound only        *)
(* without a pool), so the counter of a key runs with its missed rounds    *)
(* until the first cooldown.                                               *)
PoolsHaveProxies == \A c \in Configs : c.pool > 0
PoolInv == cfg.pool > 0 /\ (sweep # Idle => sweep.pool > 0)
CountInv ==
    \A k \in Keys :
      /\ dry[k] < MissRounds => missRounds[k] = dry[k]
      /\ dry[k] = MissRounds => cooldownUntil[k] # 0

LEMMA PoolStep ==
    ASSUME PoolsHaveProxies, TypeOK, PoolInv, [Next]_vars
    PROVE  PoolInv'
  <1> USE ProbeAssumption DEF PoolInv
  <1>1. CASE PrepareProbe
    BY <1>1 DEF PrepareProbe, Ledger
  <1>2. CASE Cut
    <2>1. sweep \in Sweep
      BY <1>2 DEF Cut, TypeOK
    <2>2. sweep'.pool = sweep.pool
      BY <1>2, <2>1 DEF Cut, Sweep
    <2>3. QED
      BY <1>2, <2>2 DEF Cut, Ledger
  <1>3. CASE ApplyConfig
    BY <1>3 DEF ApplyConfig, PoolsHaveProxies
  <1>4. ASSUME NEW n \in PoolSizes, ApplyProxyLines(n)
        PROVE  PoolInv'
    <2>1. cfg'.pool = n
      BY <1>4 DEF ApplyProxyLines, TypeOK, Config
    <2>2. n > 0
      BY <1>4
    <2>3. QED
      BY <1>4, <2>1, <2>2 DEF ApplyProxyLines
  <1>5. CASE SweepEnds
    BY <1>5 DEF SweepEnds, Ledger
  <1>6. CASE UNCHANGED <<cfg, sweep>>
    BY <1>6
  <1>7. QED
    BY <1>1, <1>2, <1>3, <1>4, <1>5, <1>6
       DEF Next, vars, Ledger, BeginRound, EnterPool, Ask, Quit, Captured,
           Missed, QuotaAnswer, UsageFails, UsageQuota, Tick

LEMMA MissKeepsCount ==
    ASSUME TypeOK, CountInv, NEW j \in Keys,
           RecordMiss(j), dry' = Dry(j), UNCHANGED <<now, cfg>>
    PROVE  CountInv'
  <1> SUFFICES ASSUME NEW k \in Keys
               PROVE  /\ dry'[k] < 3 => missRounds'[k] = dry'[k]
                      /\ dry'[k] = 3 => cooldownUntil'[k] # 0
    BY DEF CountInv, MissRounds
  <1> USE ProbeAssumption DEF TypeOK, CountInv, MissRounds
  <1>1. CASE k # j \/ ~cfg.onDemand
    BY <1>1 DEF RecordMiss, Dry
  <1>2. CASE k = j /\ cfg.onDemand
    <2>1. dry'[k] = IF dry[k] < 3 THEN dry[k] + 1 ELSE dry[k]
      BY <1>2 DEF Dry
    <2>2. CASE missRounds[k] + 1 < 3
      BY <1>2, <2>1, <2>2 DEF RecordMiss
    <2>3. CASE missRounds[k] + 1 >= 3
      <3>1. cooldownUntil'[k] = now + Cooldown /\ missRounds'[k] = 0
        BY <1>2, <2>3 DEF RecordMiss
      <3>2. now + Cooldown # 0
        OBVIOUS
      <3>3. dry'[k] = 3
        BY <2>1, <2>3
      <3>4. QED
        BY <3>1, <3>2, <3>3
    <2>4. QED
      BY <2>2, <2>3
  <1>3. QED
    BY <1>1, <1>2

LEMMA CountStep ==
    ASSUME TypeOK, InSweep, PoolInv, CountInv, [Next]_vars
    PROVE  CountInv'
  <1>1. CASE EnterPool
    <2>1. sweep.pool # 0
      BY <1>1 DEF EnterPool, InSweep, PoolInv
    <2>2. UNCHANGED <<missRounds, cooldownUntil, dry>>
      BY <1>1, <2>1 DEF EnterPool
    <2>3. QED
      BY <2>2 DEF CountInv
  <1>2. CASE Captured
    BY <1>2 DEF Captured, TypeOK, CountInv, MissRounds
  <1>3. CASE Missed
    <2>1. CASE RecordMiss(round.key) /\ dry' = Dry(round.key)
      BY <1>3, <2>1, RoundFields, MissKeepsCount DEF Missed
    <2>2. CASE UNCHANGED <<missRounds, cooldownUntil, dry>>
      BY <2>2 DEF CountInv
    <2>3. QED
      BY <1>3, <2>1, <2>2 DEF Missed
  <1>4. CASE UNCHANGED <<missRounds, cooldownUntil, dry>>
    BY <1>4 DEF CountInv
  <1>5. QED
    BY <1>1, <1>2, <1>3, <1>4
       DEF Next, vars, Ledger, PrepareProbe, SweepEnds, BeginRound, Ask, Quit,
           QuotaAnswer, UsageFails, UsageQuota, Cut, ApplyConfig, ApplyProxyLines, Tick

(* Three rounds a key misses to their end without a capture lead to a      *)
(* cooldown, provided that there is always a pool.                         *)
THEOREM MissesCoolDown ==
    ASSUME PoolsHaveProxies
    PROVE  Spec => []MissedRoundsCoolDown
  <1>1. Init => PoolInv /\ CountInv
    BY DEF Init, PoolInv, PoolsHaveProxies, CountInv, MissRounds
  <1>2. TypeOK /\ InSweep /\ PoolInv /\ CountInv /\ [Next]_vars
          => PoolInv' /\ CountInv'
    BY PoolStep, CountStep
  <1>3. CountInv => MissedRoundsCoolDown
    BY DEF CountInv, MissedRoundsCoolDown
  <1>4. QED
    BY <1>1, <1>2, <1>3, RoundsInSweeps, PTL DEF Spec

-----------------------------------------------------------------------------
(* A backoff in force lasts at least as long as what is left of the one a  *)
(* probe has earned, and while a round is under way its account is not     *)
(* under one.                                                              *)
QuotaInv ==
    /\ \A a \in Accounts : ownQuota[a] <= quotaUntil[a]
    /\ round # Idle /\ cfg.aware => now >= ownQuota[Owner[round.key]]

LEMMA QuotaStep == TypeOK /\ InSweep /\ QuotaInv /\ [Next]_vars => QuotaInv'
  <1> SUFFICES ASSUME TypeOK, InSweep, QuotaInv, [Next]_vars PROVE QuotaInv'
    OBVIOUS
  <1> USE ProbeAssumption
  <1>1. ASSUME NEW k \in Keys, BeginRound(k)
        PROVE  QuotaInv'
    <2>1. round'.key = k
      BY <1>1 DEF BeginRound
    <2>2. cfg.aware => now >= quotaUntil[Owner[k]]
      BY <1>1 DEF BeginRound, QuotaBlocked, TypeOK
    <2>3. cfg.aware => now >= ownQuota[Owner[k]]
      BY <2>2 DEF QuotaInv, TypeOK
    <2>4. QED
      BY <1>1, <2>1, <2>3 DEF BeginRound, Ledger, QuotaInv
  <1>2. ASSUME round # Idle, round' # Idle => round'.key = round.key,
               UNCHANGED <<now, cfg, quotaUntil, ownQuota>>
        PROVE  QuotaInv'
    BY <1>2 DEF QuotaInv
  <1>3. CASE EnterPool \/ Ask \/ Quit \/ Captured \/ Missed
    <2>1. round # Idle /\ UNCHANGED <<now, cfg, quotaUntil, ownQuota>>
      BY <1>3 DEF EnterPool, Ask, Quit, Captured, Missed, Ledger
    <2>2. round' # Idle => round'.key = round.key
      <3>1. round = [key |-> round.key, route |-> round.route,
                     attempt |-> round.attempt, start |-> round.start,
                     asked |-> round.asked,
                     tries |-> round.tries]
        BY <2>1, RoundFields
      <3>2. CASE EnterPool
        BY <3>1, <3>2 DEF EnterPool
      <3>3. CASE Ask
        BY <3>1, <3>3 DEF Ask
      <3>4. CASE Quit \/ Captured
        BY <3>4 DEF Quit, Captured
      <3>5. CASE Missed
        BY <3>1, <3>5 DEF Missed
      <3>6. QED
        BY <1>3, <3>2, <3>3, <3>4, <3>5
    <2>3. QED
      BY <1>2, <2>1, <2>2
  <1>4. CASE QuotaAnswer
    <2>1. /\ round' = Idle /\ now' = now
          /\ \A a \in Accounts :
               \/ ownQuota'[a] = now + cfg.backoff /\ quotaUntil'[a] = now + cfg.backoff
               \/ ownQuota'[a] = ownQuota[a] /\ quotaUntil'[a] = quotaUntil[a]
      BY <1>4 DEF QuotaAnswer, TypeOK
    <2>2. now + cfg.backoff \in Nat
      BY DEF TypeOK, Config
    <2>3. QED
      BY <2>1, <2>2 DEF QuotaInv
  <1>5. ASSUME NEW a \in Accounts, UsageQuota(a)
        PROVE  QuotaInv'
    <2>1. /\ UNCHANGED <<now, cfg, round>>
          /\ \A b \in Accounts : ownQuota'[b] <= quotaUntil'[b]
          /\ \A b \in Accounts : ownQuota'[b] <= ownQuota[b]
      <3>1. /\ now + report[a] \in Nat
            /\ \A b \in Accounts : ownQuota[b] \in Nat /\ quotaUntil[b] \in Nat
        BY DEF TypeOK
      <3>2. /\ quotaUntil' = [quotaUntil EXCEPT ![a] = now + report[a]]
            /\ ownQuota' = [ownQuota EXCEPT ![a] =
                 IF ownQuota[a] <= now + report[a] THEN ownQuota[a] ELSE now + report[a]]
            /\ UNCHANGED <<now, cfg, round>>
        BY <1>5 DEF UsageQuota, TypeOK
      <3>3. QED
        BY <3>1, <3>2 DEF TypeOK, QuotaInv
    <2>2. round # Idle => Owner[round.key] \in Accounts
      BY RoundFields
    <2>3. \A b \in Accounts : ownQuota[b] \in Nat /\ ownQuota'[b] \in Int /\ now \in Nat
      BY <1>5 DEF UsageQuota, TypeOK
    <2>4. round # Idle /\ cfg.aware => now >= ownQuota'[Owner[round.key]]
      BY <2>1, <2>2, <2>3 DEF QuotaInv
    <2>5. QED
      BY <2>1, <2>4 DEF QuotaInv
  <1>6. CASE ApplyConfig
    BY <1>6 DEF ApplyConfig, InSweep, QuotaInv
  <1>7. ASSUME NEW n \in PoolSizes, ApplyProxyLines(n)
        PROVE  QuotaInv'
    <2>1. cfg'.aware = cfg.aware
      BY <1>7 DEF ApplyProxyLines, TypeOK, Config
    <2>2. QED
      BY <1>7, <2>1 DEF ApplyProxyLines, QuotaInv
  <1>8. CASE Tick
    <2>1. now' = now + 1 /\ now \in Nat
      BY <1>8 DEF Tick, TypeOK
    <2>2. \A a \in Accounts : ownQuota[a] \in Nat /\ quotaUntil[a] \in Nat
      BY DEF TypeOK
    <2>3. round # Idle => Owner[round.key] \in Accounts
      BY RoundFields
    <2>4. QED
      BY <1>8, <2>1, <2>2, <2>3 DEF Tick, QuotaInv
  <1>9. CASE \/ PrepareProbe \/ SweepEnds \/ Cut \/ UNCHANGED vars
             \/ \E a \in Accounts : UsageFails(a)
    BY <1>9 DEF PrepareProbe, SweepEnds, Cut, UsageFails, vars, Ledger, QuotaInv
  <1>10. QED
    BY <1>1, <1>3, <1>4, <1>5, <1>6, <1>7, <1>8, <1>9 DEF Next

(* After a quota answer to a probe, no probe of the account goes out       *)
(* before the backoff of that time ends, or the shorter one that a usage   *)
(* record has put in its place.                                            *)
THEOREM OwnQuotaHolds == Spec => OwnQuotaStopsProbes
  <1>1. Init => QuotaInv
    BY ProbeAssumption DEF Init, QuotaInv
  <1>2. QuotaInv =>
          \A a \in Accounts : Asks(a) /\ cfg.aware => now >= ownQuota[a]
    BY DEF QuotaInv, Asks
  <1>3. QED
    BY <1>1, <1>2, QuotaStep, RoundsInSweeps, PTL
       DEF Spec, OwnQuotaStopsProbes

-----------------------------------------------------------------------------
(* Turns.  After c full turns of the whole pool, e turns of the next one   *)
(* and m attempts of the turn under way, the attempt is the one after      *)
(* (c * pool + e) * PerRoute + m, and what a proxy was tried depends on    *)
(* how far behind the start of the round it is.                            *)
Offset(j) == IF j >= round.start THEN j - round.start
             ELSE (j + sweep.pool) - round.start
Turns(c, e, m) ==
    /\ round.attempt = (c * sweep.pool + e) * PerRoute + m + 1
    /\ \A j \in 0..(sweep.pool - 1) :
         round.tries[j] = c * PerRoute +
           (IF Offset(j) < e THEN PerRoute
            ELSE IF Offset(j) = e THEN m + (IF round.asked THEN 1 ELSE 0)
            ELSE 0)
TurnInv ==
    /\ round # Idle /\ round.route # "proxy" =>
         \A j \in 0..(CursorPeriod - 1) : round.tries[j] = 0
    /\ round # Idle /\ round.route = "proxy" =>
         /\ round.start < sweep.pool
         /\ \E c \in Nat, e \in 0..(sweep.pool - 1), m \in 0..(PerRoute - 1) :
              Turns(c, e, m)

LEMMA MultGap ==
    ASSUME NEW n \in Nat \ {0}, NEW a \in Nat, NEW b \in Nat, a < b
    PROVE  a * n + n <= b * n
  <1>1. PICK d \in Nat : b = a + 1 + d
    <2>1. b - a - 1 \in Nat /\ b = a + 1 + (b - a - 1)
      OBVIOUS
    <2>2. QED
      BY <2>1
  <1>2. b * n = a * n + n + d * n
    BY <1>1
  <1>3. d * n >= 0
    OBVIOUS
  <1>4. QED
    BY <1>2, <1>3

LEMMA DivMod ==
    ASSUME NEW n \in Nat \ {0}, NEW q \in Nat, NEW m \in 0..(n - 1)
    PROVE  (q * n + m) \div n = q /\ (q * n + m) % n = m
  <1> DEFINE x == q * n + m
  <1>1. x \in Nat
    OBVIOUS
  <1>2. /\ x = n * (x \div n) + (x % n)
        /\ x % n \in 0..(n - 1) /\ x \div n \in Nat
    BY <1>1
  <1>3. CASE x \div n < q
    BY <1>2, <1>3, MultGap
  <1>4. CASE q < x \div n
    BY <1>2, <1>4, MultGap
  <1>5. QED
    BY <1>2, <1>3, <1>4

(* The slots of the ghost hold every pool. *)
Fits == cfg.pool <= CursorPeriod /\ (sweep # Idle => sweep.pool <= CursorPeriod)

LEMMA PoolsFit ==
    \A n \in PoolSizes \cup {c.pool : c \in Configs} : n <= CursorPeriod
  <1> USE ProbeAssumption
  <1> TAKE n \in PoolSizes \cup {c.pool : c \in Configs}
  <1>0. n \in Nat /\ CursorPeriod \in Nat \ {0}
    BY DEF Config
  <1> SUFFICES ASSUME n > CursorPeriod PROVE FALSE
    BY <1>0
  <1>1. n \in Nat \ {0} /\ CursorPeriod \in 0..(n - 1)
    BY <1>0
  <1>2. (0 * n + CursorPeriod) % n = CursorPeriod
    BY <1>1, DivMod
  <1>3. 0 * n + CursorPeriod = CursorPeriod
    BY <1>1
  <1>4. QED
    BY <1>1, <1>2, <1>3, ProbeAssumption

LEMMA FitsStep ==
    ASSUME TypeOK, Fits, [Next]_vars
    PROVE  Fits'
  <1> USE DEF Fits
  <1>1. CASE PrepareProbe
    BY <1>1 DEF PrepareProbe, Ledger
  <1>2. CASE Cut
    <2>1. sweep'.pool = sweep.pool
      BY <1>2 DEF Cut, TypeOK, Sweep
    <2>2. QED
      BY <1>2, <2>1 DEF Cut, Ledger
  <1>3. CASE ApplyConfig
    BY <1>3, PoolsFit DEF ApplyConfig
  <1>4. ASSUME NEW n \in PoolSizes, ApplyProxyLines(n)
        PROVE  Fits'
    <2>1. cfg'.pool = n
      BY <1>4 DEF ApplyProxyLines, TypeOK, Config
    <2>2. QED
      BY <1>4, <2>1, PoolsFit DEF ApplyProxyLines
  <1>5. CASE SweepEnds
    BY <1>5 DEF SweepEnds, Ledger
  <1>6. CASE UNCHANGED <<cfg, sweep>>
    BY <1>6
  <1>7. QED
    BY <1>1, <1>2, <1>3, <1>4, <1>5, <1>6
       DEF Next, vars, Ledger, BeginRound, EnterPool, Ask, Quit, Captured,
           Missed, QuotaAnswer, UsageFails, UsageQuota, Tick

(* proxyIndex names the proxy whose turn it is. *)
LEMMA SlotIsTheTurn ==
    ASSUME TypeOK, round # Idle, sweep # Idle, round.start < sweep.pool,
           NEW c \in Nat, NEW e \in 0..(sweep.pool - 1),
           NEW m \in 0..(PerRoute - 1), Turns(c, e, m)
    PROVE  /\ Slot(round) \in 0..(sweep.pool - 1)
           /\ \A j \in 0..(sweep.pool - 1) : j = Slot(round) <=> Offset(j) = e
  <1> DEFINE P == sweep.pool
             q == c * P + e
  <1>1. /\ P \in Nat \ {0} /\ PerRoute \in Nat \ {0}
        /\ round.start \in Nat /\ round.attempt \in Nat
    BY RoundFields, ProbeAssumption DEF TypeOK, Sweep
  <1>2. q \in Nat /\ round.attempt - 1 = q * PerRoute + m
    BY <1>1 DEF Turns
  <1> HIDE DEF q
  <1>3. (round.attempt - 1) \div PerRoute = q
    BY <1>1, <1>2, DivMod
  <1>4. CASE round.start + e < P
    <2>1. round.start + q = c * P + (round.start + e)
      BY <1>1 DEF q
    <2>2. round.start + e \in 0..(P - 1)
      BY <1>1, <1>4
    <2>3. (c * P + (round.start + e)) % P = round.start + e
      BY <1>1, <2>2, DivMod
    <2>4. (round.start + q) % P = round.start + e
      BY <2>1, <2>3
    <2>5. QED
      BY <1>1, <1>3, <1>4, <2>4 DEF Slot, Offset
  <1>5. CASE round.start + e >= P
    <2>1. round.start + q = (c + 1) * P + (round.start + e - P)
      BY <1>1 DEF q
    <2>2. round.start + e - P \in 0..(P - 1)
      BY <1>1, <1>5
    <2>3. ((c + 1) * P + (round.start + e - P)) % P = round.start + e - P
      <3>1. c + 1 \in Nat
        OBVIOUS
      <3>2. QED
        BY <1>1, <2>2, <3>1, DivMod
    <2>4. (round.start + q) % P = round.start + e - P
      BY <2>1, <2>3
    <2>5. QED
      BY <1>1, <1>3, <1>5, <2>4 DEF Slot, Offset
  <1>6. QED
    BY <1>1, <1>4, <1>5

LEMMA TurnAsk ==
    ASSUME TypeOK, InSweep, Fits, TurnInv, Ask
    PROVE  TurnInv'
  <1> USE ProbeAssumption
  <1>1. /\ round # Idle /\ round \in Round /\ ~round.asked /\ sweep # Idle
        /\ sweep' = sweep
        /\ round.tries \in [0..(CursorPeriod - 1) -> Nat]
    BY RoundFields DEF Ask, InSweep
  <1>2. CASE round.route = "direct"
    <2>1. /\ round'.route = "direct" /\ round'.tries = round.tries
      BY <1>1, <1>2 DEF Ask, Round
    <2>2. QED
      BY <1>1, <1>2, <2>1 DEF TurnInv
  <1>3. CASE round.route = "proxy"
    <2>1. PICK c \in Nat, e \in 0..(sweep.pool - 1), m \in 0..(PerRoute - 1) :
            Turns(c, e, m)
      BY <1>1, <1>3 DEF TurnInv
    <2>2. /\ round'.route = "proxy" /\ round'.start = round.start
          /\ round'.attempt = round.attempt /\ round'.asked
          /\ round'.tries = Tried(round)
      BY <1>1, <1>3 DEF Ask, Round
    <2>3. /\ round.start < sweep.pool /\ round.start \in Nat
          /\ sweep.pool \in Nat /\ sweep.pool <= CursorPeriod
      BY <1>1, <1>3, RoundFields DEF TurnInv, TypeOK, Sweep, Fits
    <2>4. /\ Slot(round) \in 0..(sweep.pool - 1)
          /\ \A j \in 0..(sweep.pool - 1) : j = Slot(round) <=> Offset(j) = e
      BY <1>1, <2>1, <2>3, SlotIsTheTurn
    <2>5. \A j \in 0..(sweep.pool - 1) :
            /\ Offset(j)' = Offset(j)
            /\ Tried(round)[j] = IF Offset(j) = e THEN round.tries[j] + 1
                                                  ELSE round.tries[j]
      <3> SUFFICES ASSUME NEW j \in 0..(sweep.pool - 1)
                   PROVE  /\ Offset(j)' = Offset(j)
                          /\ Tried(round)[j] =
                               IF j = Slot(round) THEN round.tries[j] + 1
                                                  ELSE round.tries[j]
        BY <2>4
      <3>1. Offset(j)' = Offset(j)
        BY <1>1, <2>2 DEF Offset
      <3>2. j \in 0..(CursorPeriod - 1)
        BY <2>3
      <3>3. QED
        BY <1>1, <3>1, <3>2 DEF Tried
    <2>6. \A j \in 0..(sweep.pool - 1) :
            round'.tries[j] = c * PerRoute +
              (IF Offset(j)' < e THEN PerRoute
               ELSE IF Offset(j)' = e THEN m + 1 ELSE 0)
      <3> SUFFICES ASSUME NEW j \in 0..(sweep.pool - 1)
                   PROVE  round'.tries[j] = c * PerRoute +
                            (IF Offset(j)' < e THEN PerRoute
                             ELSE IF Offset(j)' = e THEN m + 1 ELSE 0)
        OBVIOUS
      <3>1. Offset(j) \in Int /\ c * PerRoute \in Nat
        BY <2>3 DEF Offset
      <3>2. round.tries[j] = c * PerRoute +
              (IF Offset(j) < e THEN PerRoute
               ELSE IF Offset(j) = e THEN m ELSE 0)
        BY <1>1, <2>1 DEF Turns
      <3>3. QED
        BY <2>2, <2>5, <3>1, <3>2
    <2>7. Turns(c, e, m)'
      BY <1>1, <2>1, <2>2, <2>6 DEF Turns
    <2>8. QED
      BY <1>1, <2>1, <2>2, <2>3, <2>7 DEF TurnInv
  <1>4. QED
    BY <1>2, <1>3 DEF Ask

(* The next attempt: of the same turn, of the next proxy's, or of the      *)
(* first proxy's again.                                                    *)
LEMMA TurnMissed ==
    ASSUME TypeOK, InSweep, Fits, TurnInv, Missed, round' # Idle
    PROVE  TurnInv'
  <1> USE ProbeAssumption
  <1>1. /\ round # Idle /\ round \in Round /\ round.asked /\ sweep # Idle
        /\ sweep' = sweep /\ round.attempt \in Nat
        /\ round'.tries = round.tries /\ round'.start = round.start
        /\ ~round'.asked
    BY RoundFields DEF Missed, InSweep, Round
  <1>2. CASE round.route # "proxy"
    <2>1. round'.route # "proxy"
      BY <1>1, <1>2 DEF Missed, Round
    <2>2. QED
      BY <1>1, <1>2, <2>1 DEF TurnInv
  <1>3. CASE round.route = "proxy"
    <2>1. PICK c \in Nat, e \in 0..(sweep.pool - 1), m \in 0..(PerRoute - 1) :
            Turns(c, e, m)
      BY <1>1, <1>3 DEF TurnInv
    <2>2. round'.route = "proxy" /\ round'.attempt = round.attempt + 1
      BY <1>1, <1>3 DEF Missed, Round
    <2>3. round.start < sweep.pool /\ round.start \in Nat /\ sweep.pool \in Nat
      BY <1>1, <1>3, RoundFields DEF TurnInv, TypeOK, Sweep
    <2>4. \A j \in 0..(sweep.pool - 1) :
            Offset(j)' = Offset(j) /\ Offset(j) \in 0..(sweep.pool - 1)
      BY <1>1, <2>3 DEF Offset
    <2>5. \A j \in 0..(sweep.pool - 1) :
            round.tries[j] = c * PerRoute +
              (IF Offset(j) < e THEN PerRoute
               ELSE IF Offset(j) = e THEN m + 1 ELSE 0)
      BY <1>1, <2>1 DEF Turns
    <2>6. round.attempt = (c * sweep.pool + e) * PerRoute + m + 1
      BY <2>1 DEF Turns
    <2>7. m + 1 = PerRoute =>
             round'.attempt = (c * sweep.pool + (e + 1)) * PerRoute + 0 + 1
      <3>1. PICK x \in Nat : x = c * sweep.pool + e
        BY <2>3
      <3>2. c * sweep.pool + (e + 1) = x + 1
        BY <2>3, <3>1
      <3>3. (x + 1) * PerRoute = x * PerRoute + PerRoute
        OBVIOUS
      <3>4. round.attempt = x * PerRoute + m + 1
        BY <2>6, <3>1
      <3>5. QED
        BY <2>2, <3>2, <3>3, <3>4
    <2>8. CASE m + 1 < PerRoute
      <3>1. round'.attempt = (c * sweep.pool + e) * PerRoute + (m + 1) + 1
        <4>1. PICK x \in Nat : x = (c * sweep.pool + e) * PerRoute
          BY <2>3
        <4>2. round.attempt = x + m + 1
          BY <2>6, <4>1
        <4>3. round'.attempt = x + (m + 1) + 1
          BY <2>2, <4>1, <4>2
        <4>4. QED
          BY <4>1, <4>3
      <3>2. \A j \in 0..(sweep.pool - 1) :
              round'.tries[j] = c * PerRoute +
                (IF Offset(j)' < e THEN PerRoute
                 ELSE IF Offset(j)' = e THEN m + 1 ELSE 0)
        BY <1>1, <2>4, <2>5
      <3>3. Turns(c, e, m + 1)'
        BY <1>1, <3>1, <3>2 DEF Turns
      <3>4. m + 1 \in 0..(PerRoute - 1)
        BY <2>8
      <3>5. QED
        BY <1>1, <2>1, <2>2, <2>3, <3>3, <3>4 DEF TurnInv
    <2>9. CASE m + 1 = PerRoute /\ e + 1 < sweep.pool
      <3>1. round'.attempt = (c * sweep.pool + (e + 1)) * PerRoute + 0 + 1
        BY <2>9, <2>7
      <3>2. \A j \in 0..(sweep.pool - 1) :
              round'.tries[j] = c * PerRoute +
                (IF Offset(j)' < e + 1 THEN PerRoute
                 ELSE IF Offset(j)' = e + 1 THEN 0 ELSE 0)
        <4> SUFFICES ASSUME NEW j \in 0..(sweep.pool - 1)
                     PROVE  round.tries[j] = c * PerRoute +
                              (IF Offset(j) < e + 1 THEN PerRoute ELSE 0)
          BY <1>1, <2>4
        <4>1. Offset(j) < e + 1 <=> Offset(j) < e \/ Offset(j) = e
          BY <2>3, <2>4
        <4>2. QED
          BY <2>5, <2>9, <4>1
      <3>3. Turns(c, e + 1, 0)'
        BY <1>1, <3>1, <3>2 DEF Turns
      <3>4. e + 1 \in 0..(sweep'.pool - 1) /\ 0 \in 0..(PerRoute - 1)
        BY <1>1, <2>3, <2>9
      <3>5. QED
        BY <1>1, <2>1, <2>2, <2>3, <3>3, <3>4 DEF TurnInv
    <2>10. CASE m + 1 = PerRoute /\ e + 1 = sweep.pool
      <3>1. c * sweep.pool + (e + 1) = (c + 1) * sweep.pool + 0
        <4>1. (c + 1) * sweep.pool = c * sweep.pool + sweep.pool
          BY <2>3
        <4>2. c * sweep.pool \in Nat
          BY <2>3
        <4>3. QED
          BY <2>3, <2>10, <4>1, <4>2
      <3>2. round'.attempt = (c * sweep.pool + (e + 1)) * PerRoute + 0 + 1
        BY <2>10, <2>7
      <3>3. \A j \in 0..(sweep.pool - 1) :
              round'.tries[j] = (c + 1) * PerRoute +
                (IF Offset(j)' < 0 THEN PerRoute
                 ELSE IF Offset(j)' = 0 THEN 0 ELSE 0)
        <4>1. \A j \in 0..(sweep.pool - 1) :
                round.tries[j] = c * PerRoute + PerRoute
          BY <2>4, <2>5, <2>10
        <4>2. (c + 1) * PerRoute = c * PerRoute + PerRoute
          OBVIOUS
        <4>3. QED
          BY <1>1, <2>4, <4>1, <4>2
      <3>4. Turns(c + 1, 0, 0)'
        BY <1>1, <3>1, <3>2, <3>3 DEF Turns
      <3>5. c + 1 \in Nat /\ 0 \in 0..(sweep'.pool - 1) /\ 0 \in 0..(PerRoute - 1)
        BY <1>1, <2>3, <2>10
      <3>6. QED
        BY <1>1, <2>1, <2>2, <2>3, <3>4, <3>5 DEF TurnInv
    <2>11. QED
      BY <2>1, <2>3, <2>8, <2>9, <2>10
  <1>4. QED
    BY <1>2, <1>3

LEMMA TurnEnter ==
    ASSUME TypeOK, InSweep, Fits, TurnInv, EnterPool, round' # Idle
    PROVE  TurnInv'
  <1> USE ProbeAssumption
  <1>1. /\ round # Idle /\ round \in Round /\ round.route = "enter"
        /\ sweep # Idle /\ sweep' = sweep
        /\ sweep.pool \in Nat \ {0} /\ sweep.pool <= CursorPeriod
        /\ \A j \in 0..(CursorPeriod - 1) : round.tries[j] = 0
    BY RoundFields DEF EnterPool, InSweep, TurnInv, TypeOK, Sweep, Fits
  <1>2. /\ round'.route = "proxy" /\ round'.attempt = 1 /\ ~round'.asked
        /\ round'.tries = round.tries
        /\ round'.start = IF cfg.rotate THEN poolCursor % sweep.pool ELSE 0
    BY <1>1 DEF EnterPool, Round
  <1>3. round'.start < sweep.pool /\ round'.start \in Nat
    BY <1>1, <1>2 DEF TypeOK
  <1>4. \A j \in 0..(sweep.pool - 1) : round'.tries[j] = 0 /\ Offset(j)' >= 0
    BY <1>1, <1>2, <1>3 DEF Offset
  <1>5. 0 * sweep.pool = 0 /\ 0 * PerRoute = 0
    BY <1>1
  <1>6. Turns(0, 0, 0)'
    <2>1. round'.attempt = (0 * sweep'.pool + 0) * PerRoute + 0 + 1
      BY <1>1, <1>2, <1>5
    <2>2. ASSUME NEW j \in 0..(sweep'.pool - 1)
          PROVE  round'.tries[j] = 0 * PerRoute +
                   (IF Offset(j)' < 0 THEN PerRoute
                    ELSE IF Offset(j)' = 0 THEN 0 + 0 ELSE 0)
      <3>1. ~(Offset(j)' < 0)
        BY <1>1, <1>2, <1>3, <2>2 DEF Offset
      <3>2. QED
        BY <1>1, <1>4, <1>5, <2>2, <3>1
    <2>3. QED
      BY <1>2, <2>1, <2>2 DEF Turns
  <1>7. 0 \in 0..(sweep'.pool - 1) /\ 0 \in 0..(PerRoute - 1)
    BY <1>1
  <1>8. QED
    BY <1>1, <1>2, <1>3, <1>6, <1>7 DEF TurnInv

LEMMA TurnStep ==
    ASSUME TypeOK, InSweep, Fits, TurnInv, [Next]_vars
    PROVE  TurnInv'
  <1>1. CASE round' = Idle
    BY <1>1 DEF TurnInv
  <1>2. CASE UNCHANGED round /\ UNCHANGED sweep
    BY <1>2 DEF TurnInv, Turns, Offset
  <1>3. CASE Cut
    <2>1. sweep'.pool = sweep.pool /\ UNCHANGED round
      BY <1>3 DEF Cut, TypeOK, Sweep
    <2>2. QED
      BY <2>1 DEF TurnInv, Turns, Offset
  <1>4. CASE PrepareProbe
    BY <1>4 DEF PrepareProbe, InSweep, TurnInv
  <1>5. ASSUME NEW k \in Keys, BeginRound(k)
        PROVE  TurnInv'
    BY <1>5 DEF BeginRound, TurnInv
  <1>6. QED
    BY <1>1, <1>2, <1>3, <1>4, <1>5, TurnAsk, TurnMissed, TurnEnter
       DEF Next, vars, Ledger, SweepEnds, Quit, Captured, QuotaAnswer,
           UsageFails, UsageQuota, ApplyConfig, ApplyProxyLines, Tick

LEMMA TurnsAreFair ==
    ASSUME TypeOK, InSweep, Fits, TurnInv
    PROVE  ProxiesTakeTurns
  <1> USE ProbeAssumption
  <1>1. CASE round = Idle
    <2>1. {i \in Used : round.tries[i] % PerRoute # 0} = {}
      BY <1>1 DEF Used
    <2>2. QED
      BY <1>1, <2>1, FS_EmptySet DEF ProxiesTakeTurns, Used
  <1>2. CASE round # Idle /\ round.route # "proxy"
    <2>1. \A i \in Used : round.tries[i] = 0
      BY <1>2, RoundFields DEF Used, TurnInv, Fits, InSweep, TypeOK, Sweep
    <2>2. 0 % PerRoute = 0
      OBVIOUS
    <2>3. {i \in Used : round.tries[i] % PerRoute # 0} = {}
      BY <2>1, <2>2
    <2>4. Cardinality({i \in Used : round.tries[i] % PerRoute # 0}) <= 1
      <3>1. Cardinality({}) <= 1
        BY FS_EmptySet
      <3>2. QED
        BY <2>3, <3>1
    <2>5. \A i, j \in Used : round.tries[i] <= round.tries[j] + PerRoute
      BY <2>1
    <2>6. QED
      BY <2>4, <2>5 DEF ProxiesTakeTurns
  <1>3. CASE round # Idle /\ round.route = "proxy"
    <2>1. PICK c \in Nat, e \in 0..(sweep.pool - 1), m \in 0..(PerRoute - 1) :
            Turns(c, e, m)
      BY <1>3 DEF TurnInv
    <2>2. sweep # Idle /\ round.start < sweep.pool
      BY <1>3 DEF TurnInv, InSweep
    <2>3. \A j \in Used : j = Slot(round) <=> Offset(j) = e
      BY <1>3, <2>1, <2>2, SlotIsTheTurn DEF Used
    <2>4. \A j \in Used :
            /\ round.tries[j] \in (c * PerRoute)..(c * PerRoute + PerRoute)
            /\ Offset(j) # e =>
                 round.tries[j] \in {c * PerRoute, c * PerRoute + PerRoute}
      BY <1>3, <2>1 DEF Used, Turns
    <2>5. /\ (c * PerRoute) % PerRoute = 0
          /\ (c * PerRoute + PerRoute) % PerRoute = 0
      <3>1. (c * PerRoute + 0) % PerRoute = 0
        BY DivMod
      <3>2. ((c + 1) * PerRoute + 0) % PerRoute = 0
        BY DivMod
      <3>3. (c + 1) * PerRoute + 0 = c * PerRoute + PerRoute
        OBVIOUS
      <3>4. QED
        BY <3>1, <3>2, <3>3
    <2>6. {i \in Used : round.tries[i] % PerRoute # 0} \subseteq {Slot(round)}
      BY <2>3, <2>4, <2>5
    <2>7. Cardinality({i \in Used : round.tries[i] % PerRoute # 0}) <= 1
      <3> DEFINE cut == {i \in Used : round.tries[i] % PerRoute # 0}
                 one == {Slot(round)}
      <3>1. IsFiniteSet(one) /\ Cardinality(one) = 1
        BY FS_Singleton
      <3> HIDE DEF one
      <3>2. cut \subseteq one
        BY <2>6 DEF one
      <3> HIDE DEF cut
      <3>3. Cardinality(cut) <= Cardinality(one)
        BY <3>1, <3>2, FS_Subset
      <3>4. QED
        BY <3>1, <3>3 DEF cut
    <2>8. \A i, j \in Used : round.tries[i] <= round.tries[j] + PerRoute
      BY <2>4
    <2>9. QED
      BY <2>7, <2>8 DEF ProxiesTakeTurns
  <1>4. QED
    BY <1>1, <1>2, <1>3

(* For every pool, start, number of attempts and attempts_per_route the    *)
(* proxies of a round are used in turns.                                   *)
THEOREM TurnsHold == Spec => []ProxiesTakeTurns
  <1>1. Init => Fits /\ TurnInv
    BY PoolsFit DEF Init, Fits, TurnInv
  <1>2. TypeOK /\ InSweep /\ Fits /\ TurnInv /\ [Next]_vars => Fits' /\ TurnInv'
    BY FitsStep, TurnStep
  <1>3. TypeOK /\ InSweep /\ Fits /\ TurnInv => ProxiesTakeTurns
    BY TurnsAreFair
  <1>4. QED
    BY <1>1, <1>2, <1>3, RoundsInSweeps, PTL DEF Spec

=============================================================================
