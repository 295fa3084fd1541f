------------------------------- MODULE Config -------------------------------
(***************************************************************************)
(* The numbers of the plugin's configuration (config.go): what the YAML    *)
(* may hold, what normalizeConfig makes of it, and the effective values    *)
(* the rest of the code reads through getters.  A field that is absent     *)
(* from the YAML is zero, as in Go.  Texts, lists and the switches that    *)
(* only have a default are left out.                                       *)
(***************************************************************************)
EXTENDS Integers

CONSTANTS DefaultInterval,   \* defaultIntervalSeconds
          DefaultTTL,        \* defaultTTLSeconds
          DefaultLead        \* defaultProbeLeadSeconds

ASSUME ConfigAssumption ==
    /\ DefaultInterval \in Nat \ {0}
    /\ DefaultTTL \in Nat \ {0}
    /\ DefaultLead \in Nat \ {0}

Schedules == {"fixed", "state_aware", "on_demand"}

RawConfig == [schedule : Schedules, probe : BOOLEAN,
              interval : Int, ttl : Int, lead : Int, refresh : Int,
              cookieTTL : Int, logLimit : Int, attempts : Int, perRoute : Int,
              threshold : Int, wait : Int, timeout : Int, cooldown : Int,
              backoff : Int]

(* The zero value: every number left to its default. *)
Unset == [schedule |-> "state_aware", probe |-> TRUE,
          interval |-> 0, ttl |-> 0, lead |-> 0, refresh |-> 0,
          cookieTTL |-> 0, logLimit |-> 0, attempts |-> 0, perRoute |-> 0,
          threshold |-> 0, wait |-> 0, timeout |-> 0, cooldown |-> 0,
          backoff |-> 0]

MaxLogLimit == 1000   \* maxProbeLogLimit
MaxPerRoute == 10     \* maxAttemptsPerRoute

AtLeast(low, n) == IF n < low THEN low ELSE n
AtMost(high, n) == IF n > high THEN high ELSE n
(* A field that is not positive stands for its default. *)
OrDefault(n, default) == IF n <= 0 THEN default ELSE n

-----------------------------------------------------------------------------
(* normalizeConfig.  The waits, timeouts and backoffs are not touched. *)
Normalized(c) ==
    [c EXCEPT !.interval = AtLeast(0, @), !.ttl = AtLeast(0, @),
              !.lead = AtLeast(0, @), !.refresh = AtLeast(0, @),
              !.cookieTTL = AtLeast(0, @), !.attempts = AtLeast(0, @),
              !.logLimit = AtMost(MaxLogLimit, AtLeast(0, @)),
              !.perRoute = AtMost(MaxPerRoute, AtLeast(0, @)),
              !.threshold = AtLeast(-1, @)]

-----------------------------------------------------------------------------
(* The getters. *)
interval(c) == OrDefault(c.interval, DefaultInterval)
ttl(c) == OrDefault(c.ttl, DefaultTTL)
cookieTTL(c) == OrDefault(c.cookieTTL, 300)
maxAttempts(c) == OrDefault(c.attempts, 3)
probeLogLimit(c) == AtMost(MaxLogLimit, OrDefault(c.logLimit, 200))
attemptsPerRoute(c) == AtMost(MaxPerRoute, OrDefault(c.perRoute, 1))
probeTimeout(c) == OrDefault(c.timeout, 60)
onDemandCooldown(c) == OrDefault(c.cooldown, 600)
quotaBackoff(c) == OrDefault(c.backoff, 900)

(* Zero switches the reprobe off; that is what a negative field asks for. *)
failureReprobeThreshold(c) ==
    IF c.threshold < 0 THEN 0 ELSE OrDefault(c.threshold, 3)

(* In milliseconds; a negative field means not to wait at all. *)
probeWait(c) == IF c.wait < 0 THEN 0 ELSE OrDefault(c.wait, 1500)

(* How long before its expiry a ticket counts as renewable. *)
LeadOfRefreshFirst(c) ==
    IF c.refresh > 0 THEN AtLeast(0, ttl(c) - c.refresh)
    ELSE OrDefault(c.lead, DefaultLead)
probeLead(c) ==
    IF c.lead > 0 THEN c.lead
    ELSE IF c.refresh > 0 THEN AtLeast(0, ttl(c) - c.refresh)
    ELSE DefaultLead

=============================================================================
