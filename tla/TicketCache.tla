---------------------------- MODULE TicketCache ----------------------------
(***************************************************************************)
(* The ticket cache (state.go) with its copy on disk (runtime_store.go):   *)
(* probes and production responses store tickets, an operator saves one by *)
(* hand, the host reconfigures the plugin, the process crashes and starts  *)
(* again.  A ticket carries the time it was issued in its envelope; the    *)
(* plugin judges it by that time when use_issued_at is set (issuedMode),   *)
(* and by the time it was stored otherwise.                                *)
(***************************************************************************)
EXTENDS Naturals

CONSTANTS Keys,      \* (account, model) pairs
          Tickets,   \* x-codex-turn-state values
          IssueOf,   \* the time in a ticket's envelope, 0 when it has none
          TTLs,      \* the values of ttl_seconds the host configures
          Skew,      \* how far in the future an issue time may lie (1 minute)
          MaxTime,   \* bound: the clock stops here
          None

ASSUME TicketAssumption ==
    /\ IssueOf \in [Tickets -> Nat]
    /\ TTLs \subseteq Nat \ {0} /\ TTLs # {}
    /\ Skew \in Nat
    /\ MaxTime \in Nat \ {0}
    /\ None \notin [state : Tickets, stored : Nat, issued : Nat, manual : BOOLEAN]

VARIABLES
    now,         \* nowFunc()
    up,          \* the process runs
    issuedMode,  \* cache.useIssuedAt
    ttl,         \* cache.ttl
    entries,     \* cache.entries
    probed,      \* r.probeLogs is not empty
    stage,       \* how far an applyConfig that runs has come
    left,        \* the keys whose file entries it has still to restore
    disk,        \* runtime.json: the entries, and whether there are logs
    fileMode,    \* ghost: issuedMode when the file was last written
    dirty,       \* ghost: a change of the entries is in no completed write yet
    observed     \* ghost: when a ticket was last handed to the cache for a key

vars == <<now, up, issuedMode, ttl, entries, probed, stage, left, disk,
          fileMode, dirty, observed>>
config == <<up, issuedMode, ttl, stage, left>>
file == <<disk, fileMode>>

(* manual: the source is "manual", an operator has saved it. *)
Entry == [state : Tickets, stored : Nat, issued : Nat, manual : BOOLEAN]
Slots == [Keys -> Entry \cup {None}]
Nothing == [k \in Keys |-> None]

(* freshnessTime and expiredLocked; 0 is Go's zero time. *)
Freshness(e) == IF e.issued # 0 THEN e.issued ELSE e.stored
ExpiredAt(e, limit) == now >= Freshness(e) + limit

TypeOK ==
    /\ now \in 1..MaxTime
    /\ up \in BOOLEAN
    /\ issuedMode \in BOOLEAN
    /\ ttl \in TTLs
    /\ entries \in Slots
    /\ probed \in BOOLEAN
    /\ stage \in {"idle", "reconfigured", "rearmed", "restoring"}
    /\ left \subseteq Keys
    /\ disk \in [entries : Slots, logs : BOOLEAN]
    /\ fileMode \in BOOLEAN
    /\ dirty \in BOOLEAN
    /\ observed \in [Keys -> [Tickets -> Nat]]

Init ==
    /\ now = 1
    /\ up = FALSE
    /\ issuedMode = FALSE
    /\ ttl \in TTLs
    /\ entries = Nothing
    /\ probed = FALSE
    /\ stage = "idle"
    /\ left = {}
    /\ disk = [entries |-> Nothing, logs |-> FALSE]
    /\ fileMode = FALSE
    /\ dirty = FALSE
    /\ observed = [k \in Keys |-> [s \in Tickets |-> 0]]

-----------------------------------------------------------------------------
(* What a cache in issued mode takes: a ticket with an issue time, not too *)
(* far in the future, and not expired by it.                               *)
Admits(s) ==
    issuedMode => /\ IssueOf[s] # 0
                  /\ IssueOf[s] <= now + Skew
                  /\ now < IssueOf[s] + ttl

(* The entry store finds: an expired one is deleted first. *)
Current(k) ==
    IF entries[k] # None /\ ~ExpiredAt(entries[k], ttl) THEN entries[k] ELSE None

(* In issued mode an older ticket does not replace a newer one. *)
NeverOlder(k, s) == FALSE
Older(k, s) ==
    issuedMode /\ Current(k) # None /\ Current(k).issued > IssueOf[s]

NewEntry(s, manual) ==
    [state |-> s, stored |-> now, issued |-> IF issuedMode THEN IssueOf[s] ELSE 0,
     manual |-> manual]

Observed(k, s) == observed' = [observed EXCEPT ![k][s] = now]

(* observeState: store, with refresh for a probe, under the cache's own    *)
(* lock; the tail of the handler (recordObservation) owes the disk a write.*)
StoreForgetsWrite(k, s, refresh) ==
    /\ up
    /\ Observed(k, s)
    /\ entries' = IF \/ ~Admits(s) \/ Older(k, s)
                     \/ ~refresh /\ Current(k) # None /\ Current(k).state = s
                  THEN entries
                  ELSE [entries EXCEPT ![k] = NewEntry(s, FALSE)]
    /\ UNCHANGED <<now, config, probed, file, dirty>>
Store(k, s, refresh) ==
    /\ up
    /\ Observed(k, s)
    /\ entries' = IF \/ ~Admits(s) \/ Older(k, s)
                     \/ ~refresh /\ Current(k) # None /\ Current(k).state = s
                  THEN entries
                  ELSE [entries EXCEPT ![k] = NewEntry(s, FALSE)]
    /\ dirty' = TRUE
    /\ UNCHANGED <<now, config, probed, file>>

(* applyManualState: putManual does not ask which ticket is the older. *)
PutManual(k, s) ==
    /\ up
    /\ Admits(s)
    /\ Observed(k, s)
    /\ entries' = [entries EXCEPT ![k] = NewEntry(s, TRUE)]
    /\ dirty' = TRUE
    /\ UNCHANGED <<now, config, probed, file>>

(* persistLocked, under r.mu: every handler that records something ends    *)
(* with it; recordProbeAttempt has put a line into the log just before.    *)
Persist(log) ==
    /\ up /\ stage = "idle"
    /\ probed' = (probed \/ log)
    /\ disk' = [entries |-> entries, logs |-> probed']
    /\ fileMode' = issuedMode
    /\ dirty' = FALSE
    /\ UNCHANGED <<now, config, entries, observed>>

(* os.WriteFile truncates before it writes and its error is ignored: cut   *)
(* short, it leaves a file json.Unmarshal refuses whole.                   *)
PersistTorn(log) ==
    /\ up /\ stage = "idle"
    /\ probed' = (probed \/ log)
    /\ disk' = [entries |-> Nothing, logs |-> FALSE]
    /\ dirty' = TRUE
    /\ UNCHANGED <<now, config, entries, fileMode, observed>>

-----------------------------------------------------------------------------
(* restore, entry by entry: expired by the times on file, or without an    *)
(* admissible issue time in issued mode, it stays behind.  StoredAt is the *)
(* one on file.                                                            *)
Reissued(e, mode) == [e EXCEPT !.issued = IF mode THEN IssueOf[e.state] ELSE 0]
Plausible(e, mode) ==
    mode => IssueOf[e.state] # 0 /\ IssueOf[e.state] <= now + Skew

RestoreRenews(e, mode, limit) ==
    IF e # None /\ ~ExpiredAt(e, limit) /\ Plausible(e, mode)
    THEN [Reissued(e, mode) EXCEPT !.stored = now] ELSE None
Restore(e, mode, limit) ==
    IF e # None /\ e.stored <= now /\ ~ExpiredAt(e, limit) /\ Plausible(e, mode)
    THEN Reissued(e, mode) ELSE None

(* applyConfig, on a new process or a running one, holds r.mu from here to *)
(* the end, so that nothing is written meanwhile; the cache is locked for  *)
(* each step alone, and a response may store a ticket between two of them. *)
Reconfigure(limit) ==
    /\ stage = "idle"
    /\ stage' = "reconfigured"
    /\ up' = TRUE
    /\ ttl' = limit
    /\ entries' = [k \in Keys |->
         IF entries[k] # None /\ ~ExpiredAt(entries[k], limit)
         THEN entries[k] ELSE None]
    /\ UNCHANGED <<now, issuedMode, probed, left, file, dirty, observed>>

(* configureIssuedAt: issue times from the envelopes, or none. *)
RearmKeepsIssued(e, mode) ==
    IF e # None /\ Plausible(e, mode) THEN e ELSE None
Rearm(e, mode) ==
    IF e # None /\ Plausible(e, mode) THEN Reissued(e, mode) ELSE None

ConfigureIssuedAt(mode) ==
    /\ stage = "reconfigured"
    /\ stage' = "rearmed"
    /\ issuedMode' = mode
    /\ entries' = [k \in Keys |-> Rearm(entries[k], mode)]
    /\ UNCHANGED <<now, up, ttl, probed, left, file, dirty, observed>>

(* restorePersistedRuntimeLocked reads the file only while there are       *)
(* neither logs nor entries; of the file only the keys it has matter.      *)
CheckEmpty ==
    LET onFile == {k \in Keys : disk.entries[k] # None}
    IN  /\ stage = "rearmed"
        /\ IF ~probed /\ entries = Nothing
           THEN /\ stage' = IF onFile = {} THEN "idle" ELSE "restoring"
                /\ left' = onFile
                /\ probed' = disk.logs
           ELSE /\ stage' = "idle"
                /\ UNCHANGED <<left, probed>>
        /\ UNCHANGED <<now, up, issuedMode, ttl, entries, file, dirty, observed>>

(* restore puts an entry of the file in place without a look at what is    *)
(* there by now.                                                           *)
RestoreEntry(k) ==
    LET e == Restore(disk.entries[k], issuedMode, ttl)
    IN  /\ stage = "restoring" /\ k \in left
        /\ left' = left \ {k}
        /\ stage' = IF left = {k} THEN "idle" ELSE "restoring"
        /\ entries' = IF e = None THEN entries ELSE [entries EXCEPT ![k] = e]
        /\ UNCHANGED <<now, up, issuedMode, ttl, probed, file, dirty, observed>>

(* The process dies, at any point; its memory goes. *)
Crash ==
    /\ up
    /\ up' = FALSE
    /\ entries' = Nothing
    /\ probed' = FALSE
    /\ stage' = "idle"
    /\ left' = {}
    /\ dirty' = FALSE
    /\ UNCHANGED <<now, issuedMode, ttl, file, observed>>

Tick ==
    /\ now < MaxTime
    /\ now' = now + 1
    /\ UNCHANGED <<config, entries, probed, file, dirty, observed>>

Next ==
    \/ \E k \in Keys, s \in Tickets, refresh \in BOOLEAN : Store(k, s, refresh)
    \/ \E k \in Keys, s \in Tickets : PutManual(k, s)
    \/ \E log \in BOOLEAN : Persist(log) \/ PersistTorn(log)
    \/ \E limit \in TTLs : Reconfigure(limit)
    \/ \E mode \in BOOLEAN : ConfigureIssuedAt(mode)
    \/ CheckEmpty
    \/ \E k \in Keys : RestoreEntry(k)
    \/ Crash
    \/ Tick

Spec == Init /\ [][Next]_vars

-----------------------------------------------------------------------------
(* lookup: what the interceptor injects for a key right now. *)
Lookup(k) ==
    IF entries[k] # None /\ issuedMode /\ ExpiredAt(entries[k], ttl)
    THEN None ELSE entries[k]

(* "restarting cannot renew the token's lifetime": neither in memory nor   *)
(* on disk does a ticket look younger than the last time it was really     *)
(* observed for its key, through crashes, reloads and mode switches.       *)
NeverRenewed ==
    \A k \in Keys :
      /\ entries[k] # None =>
           entries[k].stored <= observed[k][entries[k].state]
      /\ disk.entries[k] # None =>
           disk.entries[k].stored <= observed[k][disk.entries[k].state]

(* The issue times in memory belong to the mode in force: taken from the   *)
(* envelope under use_issued_at (whatever the file or the mode before      *)
(* said), absent otherwise, so that lookup and store compare like to like. *)
IssueTimesMatchMode ==
    \A k \in Keys : entries[k] # None =>
      IF issuedMode
      THEN /\ entries[k].issued = IssueOf[entries[k].state]
           /\ entries[k].issued # 0
           /\ entries[k].issued <= now + Skew
      ELSE entries[k].issued = 0

(* With no write owed, a crash and a restart under the same configuration  *)
(* give back every unexpired ticket as it was, with its age and its issue  *)
(* time.  The mode must be the one the file was written under: a restart   *)
(* in the other mode judges a ticket by the issue time on file before it   *)
(* forgets or reads it anew.                                               *)
CrashLosesNothingWritten ==
    up /\ ~dirty /\ fileMode = issuedMode =>
      \A k \in Keys :
        entries[k] # None /\ ~ExpiredAt(entries[k], ttl) =>
          Restore(disk.entries[k], issuedMode, ttl) = entries[k]

(* Under use_issued_at, responses that arrive out of order, reconfigured   *)
(* ttls and mode switches never put an older ticket in the place of a      *)
(* newer live one; only a ticket saved by hand may, and a restore that a   *)
(* response overtook after applyConfig had found the cache empty.          *)
NoRollback ==
    [][\A k \in Keys :
         /\ up /\ up' /\ issuedMode /\ issuedMode'
         /\ Lookup(k) # None /\ Lookup(k)' # None
         /\ ~Lookup(k)'.manual /\ ~RestoreEntry(k)
         => Lookup(k)'.issued >= Lookup(k).issued]_vars

=============================================================================
