---------------------------- MODULE ProbeRound ----------------------------
(***************************************************************************)
(* Rounds of probe requests (probe.go) and what holds them back            *)
(* (lifecycle.go): the worker tries a key on the direct route, then on the *)
(* proxies of the pool in turn; misses lead to a cooldown of the key, a    *)
(* quota failure to a backoff of its account.  Meanwhile usage records     *)
(* report quota failures of production requests, the operator saves        *)
(* another pool, the context of the round is cancelled, time passes.       *)
(***************************************************************************)
EXTENDS Naturals, FiniteSets

CONSTANTS Keys,         \* (account, model) pairs
          Accounts,
          Owner,        \* the account of a key
          Configs,      \* the configurations the host applies
          PoolSizes,    \* numbers of proxies an operator saves
          PerRoute,     \* attemptsPerRoute()
          MaxAttempts,  \* maxAttempts()
          Cooldown,     \* onDemandCooldown()
          CursorPeriod, \* a multiple of every pool size
          MaxTime,      \* bound: the clock stops here
          Idle

MissRounds == 3         \* onDemandMissRounds

Config == [onDemand : BOOLEAN, aware : BOOLEAN, direct : BOOLEAN,
           rotate : BOOLEAN, pool : Nat, backoff : Nat \ {0}]

(* A sweep goes with the pool it read at its start; cut, its context is    *)
(* done.                                                                   *)
Sweep == [pool : Nat, cut : BOOLEAN]

(* asked, while a request is under way; tries counts the requests of the   *)
(* round through each proxy.                                               *)
Round == [key : Keys, route : {"direct", "enter", "proxy"},
          attempt : Nat \ {0}, start : Nat, asked : BOOLEAN,
          tries : [0..(CursorPeriod - 1) -> Nat]]

ASSUME ProbeAssumption ==
    /\ Owner \in [Keys -> Accounts]
    /\ Configs \subseteq Config /\ Configs # {}
    /\ PoolSizes \subseteq Nat \ {0}
    /\ PerRoute \in Nat \ {0} /\ MaxAttempts \in Nat \ {0}
    /\ Cooldown \in Nat \ {0}
    /\ CursorPeriod \in Nat \ {0}
    /\ \A n \in PoolSizes \cup {c.pool : c \in Configs} :
         n # 0 => CursorPeriod % n = 0
    /\ MaxTime \in Nat \ {0}
    /\ Idle \notin Sweep \cup Round

VARIABLES
    now,           \* nowFunc()
    cfg,           \* r.config: what a round reads of it
    quotaUntil,    \* r.quotaUntil, 0 when there is none
    missRounds,    \* r.probeMissRounds
    cooldownUntil, \* r.probeCooldownUntil, 0 when there is none
    poolCursor,    \* r.poolCursor, modulo CursorPeriod
    sweep,         \* the sweep (or the single key) the worker is at
    round,         \* the round it is in
    report,        \* the backoff a usage record is about to set, 0 when none
    dry,           \* ghost: rounds a key missed to the end since its last capture
    ownQuota       \* ghost: until when a quota answer to a probe bars its account

vars == <<now, cfg, quotaUntil, missRounds, cooldownUntil, poolCursor, sweep,
          round, report, dry, ownQuota>>

TypeOK ==
    /\ now \in 1..MaxTime
    /\ cfg \in Config
    /\ quotaUntil \in [Accounts -> Nat]
    /\ missRounds \in [Keys -> 0..(MissRounds - 1)]
    /\ cooldownUntil \in [Keys -> Nat]
    /\ poolCursor \in 0..(CursorPeriod - 1)
    /\ sweep \in Sweep \cup {Idle}
    /\ round \in Round \cup {Idle}
    /\ report \in [Accounts -> Nat]
    /\ dry \in [Keys -> 0..MissRounds]
    /\ ownQuota \in [Accounts -> Nat]

Init ==
    /\ now = 1
    /\ cfg \in Configs
    /\ quotaUntil = [a \in Accounts |-> 0]
    /\ missRounds = [k \in Keys |-> 0]
    /\ cooldownUntil = [k \in Keys |-> 0]
    /\ poolCursor = 0
    /\ sweep = Idle
    /\ round = Idle
    /\ report = [a \in Accounts |-> 0]
    /\ dry = [k \in Keys |-> 0]
    /\ ownQuota = [a \in Accounts |-> 0]

-----------------------------------------------------------------------------
(* quotaBlocked, probeCooldownBlocked *)
QuotaBlocked(a) == cfg.aware /\ now < quotaUntil[a]
Cooling(k) == cfg.onDemand /\ now < cooldownUntil[k]

(* Everything but what the worker is at. *)
Ledger == <<now, cfg, quotaUntil, missRounds, cooldownUntil, poolCursor,
            report, dry, ownQuota>>
Dry(k) == [dry EXCEPT ![k] = IF cfg.onDemand /\ @ < MissRounds THEN @ + 1 ELSE @]

(* probeAll and probeKey: prepareProbe reads the pool once, and there is   *)
(* no sweep without an egress.                                             *)
PrepareProbe ==
    /\ sweep = Idle
    /\ cfg.pool > 0 \/ cfg.direct
    /\ sweep' = [pool |-> cfg.pool, cut |-> FALSE]
    /\ UNCHANGED <<Ledger, round>>

SweepEnds ==
    /\ sweep # Idle /\ round = Idle
    /\ sweep' = Idle
    /\ UNCHANGED <<Ledger, round>>

(* probeTargetOnce, for one of its keys. *)
BeginRound(k) ==
    /\ sweep # Idle /\ round = Idle
    /\ ~Cooling(k)
    /\ ~QuotaBlocked(Owner[k])
    /\ round' = [key |-> k, route |-> IF cfg.direct THEN "direct" ELSE "enter",
                 attempt |-> 1, start |-> 0, asked |-> FALSE,
                 tries |-> [i \in 0..(CursorPeriod - 1) |-> 0]]
    /\ UNCHANGED <<Ledger, sweep>>

(* The head of probeTargetWithProxies: without a pool or under a backoff   *)
(* the round is over; otherwise the pool starts at its first proxy, or at  *)
(* the next one each time with rotate_proxy_start.                         *)
EnterPool ==
    /\ round # Idle /\ round.route = "enter"
    /\ IF sweep.pool = 0 \/ QuotaBlocked(Owner[round.key])
       THEN /\ round' = Idle
            /\ dry' = IF sweep.pool = 0 THEN Dry(round.key) ELSE dry
            /\ UNCHANGED poolCursor
       ELSE /\ round' = [round EXCEPT
                           !.route = "proxy", !.attempt = 1, !.asked = FALSE,
                           !.start = IF cfg.rotate THEN poolCursor % sweep.pool ELSE 0]
            /\ poolCursor' = IF cfg.rotate THEN (poolCursor + 1) % CursorPeriod
                                           ELSE poolCursor
            /\ UNCHANGED dry
    /\ UNCHANGED <<now, cfg, quotaUntil, missRounds, cooldownUntil, sweep,
                   report, ownQuota>>

(* proxyIndex *)
SlotMovesEarly(r) == (r.start + r.attempt \div PerRoute) % sweep.pool
Slot(r) == (r.start + (r.attempt - 1) \div PerRoute) % sweep.pool
Tried(r) == [r.tries EXCEPT ![Slot(r)] = @ + 1]

(* The head of either loop: probeOnce sends a request ... *)
Ask ==
    /\ round # Idle /\ round.route \in {"direct", "proxy"} /\ ~round.asked
    /\ ~sweep.cut
    /\ \/ /\ round.route = "direct"
          /\ round' = [round EXCEPT !.asked = TRUE]
       \/ /\ round.route = "proxy"
          /\ ~QuotaBlocked(Owner[round.key])
          /\ round' = [round EXCEPT !.asked = TRUE, !.tries = Tried(round)]
    /\ UNCHANGED <<Ledger, sweep>>

(* ... unless the context is done or, on a proxy, the account backs off. *)
Quit ==
    /\ round # Idle /\ round.route \in {"direct", "proxy"} /\ ~round.asked
    /\ \/ sweep.cut
       \/ round.route = "proxy" /\ QuotaBlocked(Owner[round.key])
    /\ round' = Idle
    /\ UNCHANGED <<Ledger, sweep>>

(* A ticket arrives and the cache takes it: resetProbeMiss. *)
CapturedKeepsMisses ==
    /\ round # Idle /\ round.asked
    /\ round' = Idle
    /\ dry' = [dry EXCEPT ![round.key] = 0]
    /\ UNCHANGED <<now, cfg, quotaUntil, missRounds, cooldownUntil, poolCursor,
                   sweep, report, ownQuota>>
Captured ==
    /\ round # Idle /\ round.asked
    /\ round' = Idle
    /\ missRounds' = [missRounds EXCEPT ![round.key] = 0]
    /\ cooldownUntil' = [cooldownUntil EXCEPT ![round.key] = 0]
    /\ dry' = [dry EXCEPT ![round.key] = 0]
    /\ UNCHANGED <<now, cfg, quotaUntil, poolCursor, sweep, report, ownQuota>>

(* recordProbeMissRound, at the end of the proxy loop. *)
RecordMissNever(k) == UNCHANGED <<missRounds, cooldownUntil>>
RecordMiss(k) ==
    LET rounds == missRounds[k] + 1
    IN  \/ ~cfg.onDemand /\ UNCHANGED <<missRounds, cooldownUntil>>
        \/ /\ cfg.onDemand /\ rounds < MissRounds
           /\ missRounds' = [missRounds EXCEPT ![k] = rounds]
           /\ UNCHANGED cooldownUntil
        \/ /\ cfg.onDemand /\ rounds >= MissRounds
           /\ missRounds' = [missRounds EXCEPT ![k] = 0]
           /\ cooldownUntil' = [cooldownUntil EXCEPT ![k] = now + Cooldown]

(* The request fails, or its ticket is refused by the cache: the next      *)
(* attempt, the next route, or the end of the round.                       *)
Missed ==
    /\ round # Idle /\ round.asked
    /\ \/ /\ round.route = "direct" /\ round.attempt = PerRoute
          /\ round' = [round EXCEPT !.asked = FALSE, !.route = "enter"]
          /\ UNCHANGED <<missRounds, cooldownUntil, dry>>
       \/ /\ round.attempt < IF round.route = "direct" THEN PerRoute ELSE MaxAttempts
          /\ round' = [round EXCEPT !.asked = FALSE, !.attempt = @ + 1]
          /\ UNCHANGED <<missRounds, cooldownUntil, dry>>
       \/ /\ round.route = "proxy" /\ round.attempt = MaxAttempts
          /\ round' = Idle
          /\ RecordMiss(round.key)
          /\ dry' = Dry(round.key)
    /\ UNCHANGED <<now, cfg, quotaUntil, poolCursor, sweep, report, ownQuota>>

(* The request fails for want of quota: stopForQuota. *)
QuotaAnswerRetries ==
    /\ round # Idle /\ round.asked /\ cfg.aware
    /\ quotaUntil' = [quotaUntil EXCEPT ![Owner[round.key]] = now + cfg.backoff]
    /\ ownQuota' = [ownQuota EXCEPT ![Owner[round.key]] = now + cfg.backoff]
    /\ round' = [round EXCEPT !.asked = FALSE,
                   !.route = IF round.attempt = PerRoute /\ @ = "direct" THEN "enter" ELSE @,
                   !.attempt = @ + 1]
    /\ UNCHANGED <<now, cfg, missRounds, cooldownUntil, poolCursor, sweep, report, dry>>
QuotaAnswer ==
    /\ round # Idle /\ round.asked /\ cfg.aware
    /\ quotaUntil' = [quotaUntil EXCEPT ![Owner[round.key]] = now + cfg.backoff]
    /\ ownQuota' = [ownQuota EXCEPT ![Owner[round.key]] = now + cfg.backoff]
    /\ round' = Idle
    /\ UNCHANGED <<now, cfg, missRounds, cooldownUntil, poolCursor, sweep, report, dry>>

-----------------------------------------------------------------------------
(* handleUsage: a production request failed for want of quota.  The        *)
(* configuration is a copy taken before, and deferQuota puts its backoff   *)
(* in the place of whatever was there, be it longer.                       *)
UsageFails(a) ==
    /\ cfg.aware /\ report[a] = 0
    /\ report' = [report EXCEPT ![a] = cfg.backoff]
    /\ UNCHANGED <<now, cfg, quotaUntil, missRounds, cooldownUntil, poolCursor,
                   sweep, round, dry, ownQuota>>

UsageQuota(a) ==
    /\ report[a] # 0
    /\ report' = [report EXCEPT ![a] = 0]
    /\ quotaUntil' = [quotaUntil EXCEPT ![a] = now + report[a]]
    /\ ownQuota' = [ownQuota EXCEPT ![a] =
                      IF @ <= now + report[a] THEN @ ELSE now + report[a]]
    /\ UNCHANGED <<now, cfg, missRounds, cooldownUntil, poolCursor, sweep,
                   round, dry>>

(* The worker is stopped, or the timeout of a demand probe runs out. *)
Cut ==
    /\ sweep # Idle /\ ~sweep.cut
    /\ sweep' = [sweep EXCEPT !.cut = TRUE]
    /\ UNCHANGED <<Ledger, round>>

(* applyConfig waits for the worker before it installs a configuration;    *)
(* misses, cooldowns and backoffs stay.                                    *)
ApplyConfig ==
    /\ sweep = Idle
    /\ cfg' \in Configs
    /\ UNCHANGED <<now, quotaUntil, missRounds, cooldownUntil, poolCursor,
                   sweep, round, report, dry, ownQuota>>

(* applyProxyLines does not wait: a sweep under way keeps its own pool. *)
ApplyProxyLines(n) ==
    /\ cfg' = [cfg EXCEPT !.pool = n]
    /\ UNCHANGED <<now, quotaUntil, missRounds, cooldownUntil, poolCursor,
                   sweep, round, report, dry, ownQuota>>

Tick ==
    /\ now < MaxTime
    /\ now' = now + 1
    /\ UNCHANGED <<cfg, quotaUntil, missRounds, cooldownUntil, poolCursor,
                   sweep, round, report, dry, ownQuota>>

Next ==
    \/ PrepareProbe \/ SweepEnds
    \/ \E k \in Keys : BeginRound(k)
    \/ EnterPool \/ Ask \/ Quit \/ Captured \/ Missed \/ QuotaAnswer
    \/ \E a \in Accounts : UsageFails(a) \/ UsageQuota(a)
    \/ Cut \/ ApplyConfig \/ Tick
    \/ \E n \in PoolSizes : ApplyProxyLines(n)

Spec == Init /\ [][Next]_vars

-----------------------------------------------------------------------------
(* A key cools down for its own misses only: behind a cooldown in force    *)
(* there are three rounds, missed to their end under on_demand, and no     *)
(* capture since, whatever was cancelled, barred or reconfigured between.  *)
CooldownEarned ==
    \A k \in Keys :
      /\ missRounds[k] <= dry[k]
      /\ now < cooldownUntil[k] => dry[k] = MissRounds

(* Three rounds missed without a capture lead to a cooldown                *)
(* (recordProbeMissRound; "after 3 consecutive missed rounds" in main.go   *)
(* and README_CN).                                                         *)
MissedRoundsCoolDown ==
    \A k \in Keys : dry[k] = MissRounds => cooldownUntil[k] # 0

(* A request goes out for an account. *)
Asks(a) == /\ round # Idle /\ Owner[round.key] = a /\ ~round.asked
           /\ round' # Idle /\ round'.asked

(* Once a probe was answered with a quota failure, no probe of any model   *)
(* of that account goes out before the backoff of that time ends, also if  *)
(* the configured one has changed: not the next attempt, not the next key  *)
(* of the sweep, not a round that starts later.  If a usage record reports *)
(* the account again under a shorter backoff, that one counts.             *)
OwnQuotaStopsProbes ==
    [][\A a \in Accounts : Asks(a) /\ cfg.aware => now >= ownQuota[a]]_vars

(* The pool is used in turns of attempts_per_route: at most one proxy has  *)
(* a turn unfinished, and none is more than one turn ahead of another.     *)
Used == IF round = Idle THEN {} ELSE 0..(sweep.pool - 1)
ProxiesTakeTurns ==
    /\ Cardinality({i \in Used : round.tries[i] % PerRoute # 0}) <= 1
    /\ \A i, j \in Used : round.tries[i] <= round.tries[j] + PerRoute

=============================================================================
