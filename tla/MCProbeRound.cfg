\* Two models of one account; a pool of one or two proxies.
CONSTANTS
    m1 = m1
    m2 = m2
    a1 = a1
    Keys = {m1, m2}
    Accounts = {a1}
    Owner <- MCOwner
    Configs <- MCConfigs
    PoolSizes = {1, 2}
    PerRoute = 2
    MaxAttempts = 3
    Cooldown = 2
    CursorPeriod = 2
    MaxTime = 4
    Idle = Idle
SPECIFICATION Spec
INVARIANTS
    CooldownEarned
    MissedRoundsCoolDown
    ProxiesTakeTurns
PROPERTIES
    OwnQuotaStopsProbes
SYMMETRY MCSymmetry
