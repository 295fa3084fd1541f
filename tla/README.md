# Verification of codex-turn-state

This directory holds TLA+ models of the plugin, the TLC configurations that
check them on small instances, and TLAPS proofs of their main theorems for
every value of the constants.  Source references are relative to the repository
root (`lifecycle.go:26` is line 26 of that file).

Run them here with

    tlc -workers 2 -config MCLifecycle.cfg MCLifecycle
    tlapm LifecycleProofs.tla

`PROJECT.json` lists the runs, the mutants that show each property can fail, the
lines of code each definition stands for, the hazards and the findings.

## 1. The system

The plugin sits in a host (CLIProxyAPI) between production requests and the
upstream.  It keeps one *ticket* (the `X-Codex-Turn-State` header) per key, a
key being an (account, model) pair, injects it into production requests, and
replaces it from probes of its own and, if configured, from production
responses.

| Part | State | Operations | Correct when |
|---|---|---|---|
| Worker and lifecycle (`lifecycle.go`, `probe.go`, `runtime.go`) | `cancel`, `wg`, `demandPending`, `demandTrigger`, `trigger`, `targetTrigger` | `ensureDemandProbe`, `finishDemand`, `runProbeLoop`, `applyConfig`, `shutdown` | one probe per key serves all who ask; nobody waits for nothing; channels close once; a stop is complete |
| Ticket cache (`state.go`, `runtime_store.go`) | `entries`, `ttl`, `useIssuedAt`, `runtime.json` | `store`, `putManual`, `lookup`, `reconfigure`, `configureIssuedAt`, `restore`, `persistLocked` | a ticket never gets younger; issue times belong to the mode; what was written survives; no rollback under `use_issued_at` |
| Probe rounds (`probe.go`, `lifecycle.go`) | `quotaUntil`, `probeMissRounds`, `probeCooldownUntil`, `poolCursor` | `probeAll`, `probeKey`, `probeTargetOnce`, `probeTargetWithProxies`, `recordProbeMissRound`, `deferQuota` | cooldowns are earned; quota stops probing; proxies take turns; budgets hold |
| Harvest (`completion.go`, `intercept.go`) | `harvestPending` | `harvestCompleted` from headers, chunks, whole responses | only a completed response gives its own ticket; none is lost; the table is bounded |
| Usage windows (`runtime.go`, `usage.go`) | `windows`, `targetTrigger` | `handleUsage`, `observeState`, `triggerTargetProbe` | failures count against their ticket; a queued reprobe comes |
| Cookie jar (`cookies.go`, `cookie_forward.go`) | `entries`, `runtime.json` | `observe`, `live`, `configure`, `snapshot`, `restore` | a cookie never gets younger; the newest live value is used; updates survive a crash |
| Counters, injection log, combos (`runtime.go`) | `injections`, `ticketStats`, `combos` | `recordInjection`, `recordBareRequest`, `attachUsageToInjection` | usage goes to its own request; requests are counted once; a lifetime is measured once |
| Configuration and its files (`config.go`, `account_store.go`, `proxy_store.go`) | `config`, two files | `normalizeConfig`, `applyProxyLines`, `applyProbeAuthIDs`, `applyConfig` | what was saved is what the next process reads, and is in force |
| Periodic schedule (`probe.go`, `lifecycle.go`) | the timer, `nextProbeAt`, the tickets' ages | `runProbeLoop`, `probeAll`, `shouldSkipFreshProbe`, `freshForProbe`, `probeLead` | a key is not left with an expired ticket; the countdown is right; renewals come at the documented age; sweeps recur |
| Status page (`status_security.go`, `management.go`) | the script's `key`, `generation` and frame | `submit`, `logout`, `clear`, `ctsFetch`, `ctsReload`, `tryHostedLogin`; `handleManagement` | a late answer is not shown; the user is never stuck; what was checked is what is selected |
| Transport, parsing, ABI | none of their own | | |

**How they interact.**  The host calls into the plugin from many goroutines:
request and response interceptors, usage records, management requests,
`applyConfig` and `shutdown`.  One worker goroutine does all probing; it is
reached through three channels (`demandTrigger`, `trigger`, `targetTrigger`)
whose senders never block.  State is shared under `r.mu`; the ticket cache has a
lock of its own, so a handler that needs both takes them one after the other.
A request may wait for the worker on a `done` channel it shares with the other
requests for its key.  Almost every handler ends by rewriting `runtime.json`.

**What is hard.**  Requests racing with the cancellation and the drain of the
worker; two workers, if the host overlaps its calls; counters and windows
updated from values read under another lock; rounds cancelled between any two
attempts while quota reports arrive from elsewhere; responses in fragments,
interleaved, out of order, or tried again under the same request id; a file
truncated by a crash; restarts with another `ttl_seconds` or `use_issued_at`;
tickets that expire between two sweeps of a timer other work resets; answers to
the status page after a logout, operations on accounts the host no longer lists.
`PROJECT.json` lists each such place.

## 2. The modules

| Module | Models | Checked by | Proved in |
|---|---|---|---|
| `SingleFlight` | what `ensureDemandProbe` promises, without queue or worker (abstract) | through `Lifecycle` | `LifecycleProofs` |
| `Lifecycle` | requests, worker loops, drain, `applyConfig`, `shutdown` | `MCLifecycle.cfg`, `MCLifecycleLive.cfg` | `LifecycleProofs` |
| `TicketCache` | tickets in memory and on disk, modes, crashes | `MCTicketCache.cfg` | `TicketCacheProofs` |
| `ProbeRound` | what happens inside one probe, and what holds probes back | `MCProbeRound.cfg` | `ProbeRoundProofs` |
| `Config` | the numbers of the configuration: `normalizeConfig` and the getters (operators only) | through `Schedule` | `ScheduleProofs` |
| `Schedule` | when the worker probes, against a clock | `MCSchedule.cfg` | `ScheduleProofs` |
| `Harvest` | candidates from production responses | `MCHarvest.cfg` | `UsageWindowProofs` |
| `UsageWindow` | failure counting and queued reprobes | `MCUsageWindow.cfg` | `UsageWindowProofs` |
| `CookieJar` | the routing cookies of one account, in memory and on disk | `MCCookieJar.cfg` | `CookieJarProofs` |
| `Bookkeeping` | injection log, counters and combos of one key | `MCBookkeeping.cfg` | `StatusPageProofs` |
| `Settings` | the operator's two settings in memory, file and YAML | `MCSettings.cfg`, `MCSettingsLost.cfg` | `SettingsProofs` |
| `StatusPage` | the script of the page and the operations on accounts behind it | `MCStatusPage.cfg` | `StatusPageProofs` |

Two proof modules prove about two components, which share nothing:
`UsageWindowProofs` about what production traffic leaves behind, and
`StatusPageProofs` about the page and the figures it shows.  This is why the names
in `Harvest` and `Bookkeeping` differ from those of the other modules
(`HarvestSpec`, `BookNext`, `bookVars`).

The modules meet where the code does, at the operations they share:
`applyConfig` is in all of them but `UsageWindow` and `StatusPage` (each with
what it does to that module's state), `observeState` in `TicketCache`, `UsageWindow` and
`Bookkeeping`, `handleUsage` in `UsageWindow`, `ProbeRound` and `Bookkeeping`.
`Lifecycle` implements the abstract `SingleFlight`.  The worker is in three
modules, each with what the others leave open: `Lifecycle` has the channels and
the requests that wait, with a timer that may fire at any time; `Schedule` has
the clock, with a key in demand as a member of a set; `ProbeRound` has the inside
of a probe, which is an interval in the other two.

### Lifecycle

A request calls `ensureDemandProbe` once, so a request names the job it may
create and the channel that job carries.  `Gate` is the test before the lock;
`TurnAway`, `Join`, `Launch` and `Overflow` are the outcomes of the locked
section; `Released` and `TimedOut` the `select` at its end.  A worker boots into
the on-demand or the periodic loop by the schedule it reads, and each `case` of
its `select` is an action (`Receive`, `TakeTrigger`, `TakeTarget`, `TimerFires`,
`CtxDone`); `CtxDone` leaves the on-demand loop for the drain, one job per step.
A probe or a sweep is an interval: it begins, it ends, everything else happens
meanwhile.  `StopToApply`, `WaitReturns` and `Install` are the three parts of
`applyConfig` between its locks; `StopToShutdown` and `WaitReturns` are
`shutdown`.  `settled` stands for every reason not to probe a key (fresh,
cooling down, deselected, out of quota) and changes at any time.

### TicketCache

An entry is a ticket, when it was stored, and its issue time if the mode uses
one.  `IssueOf` says what the envelope of a ticket contains, zero for one that
does not parse.  `Store` is `observeState` with the cache's `store`; the write to
disk it owes is a separate step (`Persist`), as it happens under another lock
later in the handler, and a crash may come between.  `PersistTorn` is
`os.WriteFile` cut short.  `applyConfig` is as many steps as it takes the cache's
lock: `Reconfigure`, `ConfigureIssuedAt`, `CheckEmpty` (neither entries nor logs;
`probed` stands for the logs), then `RestoreEntry` for each key on file, without
a look at what the cache has by then.  `stage` and `left` are its place in them.
It holds `r.mu` throughout, so no write comes between; a response may (`Store`
takes the cache's lock alone).  `fileMode`, a ghost, is the mode the file was
written under; an entry's `manual` says that it was saved by hand.

### ProbeRound

`PrepareProbe` takes the pool once for a sweep, as `prepareProbe` does;
`BeginRound` is `probeTargetOnce`; `Ask` sends a request from either loop and
`Captured`, `Missed` and `QuotaAnswer` are its outcomes; `EnterPool` is the head
of `probeTargetWithProxies`; `Quit` is a loop that finds its context done or its
account barred.  `UsageFails`, `UsageQuota`, `Cut`, `ApplyConfig` and
`ApplyProxyLines` are what others do meanwhile.  The backoff is a number of the
configuration; `handleUsage` takes its snapshot of that first (`UsageFails`, kept
in `report`) and sets the account's backoff from it later (`UsageQuota`), in the
place of whatever was there.  `dry` and `ownQuota` are ghosts: they record what
has happened, for the properties, and guard nothing.  The pool cursor is kept modulo
a common multiple of the pool sizes, which changes no remainder the code takes.

### Config and Schedule

`Config` translates the getters of `config.go` one by one, over any integers;
`Normalized` is `normalizeConfig`.  `Schedule` runs on them: `Install` takes any
configuration of `RawConfigs`, so the schedule, the interval, the ttl and the
lead change under way.  Time is kept in differences (the age of a ticket, the
time until the timer fires, until the shown instant), so that it need not end.
`Boot`, `TimerFires`, `TakeTrigger`, `TakeTarget` and `RunDemandProbe` are the
cases of `runProbeLoop`; `BeginSweep` is `prepareProbe`, which may list any of the
keys; `LookAt` is one turn of the loop of `probeAll`; `WorkEnds` ends the work and
resets the timer and, except after a targeted probe, `nextProbeAt`.  `excused` and
`postponed` are ghosts: keys whose last probe failed, was blocked or was put off,
and whether a targeted probe has reset the timer.

### StatusPage

The script's variables are `key`, `generation`, what is visible and the frame;
`flight` holds the requests it has sent and the answers it has not yet received,
in any order.  `Submit`, `Logout`, `Refresh` and `Operate` are the user,
`Receive` is `ctsFetch` with `ctsReload` or the `catch` of `tryHostedLogin`.
`Render`, `SaveSelection` and `OnAccount` are `handleManagement` behind the host's
check of the key; `Turn` is that check failing, or a lost answer.  Each call of
`resolveStatusAuthID` gets a list of its own, which may be empty (`AuthList`
failed) or have lost an account.  Requests carry the `session`, a ghost that
counts logins and logouts as the user sees them, next to the `generation` the
script counts.

### Harvest

An event of a body is two fragments, the second with its delimiter; a chunk
brings any number of fragments up to `MaxChunk`, so it may end inside an event.
`HarvestCompleted` is the whole of `harvestCompleted`; the ticket it is handed is
the one in the headers or the whole body, or the one that
`extractTurnStateFromChunk` finds in the raw chunk (`ExtractTurnState`), which also
reads events whose delimiter is still to come (`Begun`).  `RetryOf` names the
attempt a response comes after on the same account under the same request id; the
two share a candidate, and the first event of the second may be `Glued` to a
fragment the first has left, and is then read or not (`Readings`).  `disturbed` is
a ghost: responses whose candidate was dropped (stale, refused, too long, no
request id, reconfigured) or that are glued.

### UsageWindow

`handleUsage` is four steps, one between each pair of locks: `Report` (classify
the failure, bar the account or queue a probe), `Look` (read the cache), `Count`
(under `r.mu`), `QueueReprobe`, and `Undo` if the channel was full.
`observeState` is two: `Store` and `OpenWindow`; so is `applyManualState`.  A
ticket is named by the time it was stored at.

### CookieJar

`Observe` is `observeCookies` up to its lock of `r.mu`: `Taken` is the loop of
`observe` for one name, `Pruned` its end.  The write it owes comes under `r.mu`
and in two steps, since the jar has a lock of its own and may change between the
picture (`Snapshot`) and the file (`WriteFile`, or `WriteTorn` for a write cut
short).  `ApplyConfig` is `configure` and, if `reload`, `restore`; `reload` is a
free choice that stands for "no tickets and no probe logs" in a running process.
`received`, `announced`, `owed` and `resent` (names whose value came again with
another expiry, which owes no write) are ghosts.

### Bookkeeping

A request is looked up, recorded (`RecordInjection`, or `RecordBare` if it found
neither ticket nor cookies) and done when its usage record comes or its client
gives up.  Lookup and record are separate steps, so a ticket may be stored in
between; so are the two of `handleUsage`, `Usage` (is the ticket still the one
the request had?) and `Attach`, which is `attachUsageToInjection`.  `Store` and
`StartCombo` are the two locks of `observeState`, `PutManual` a ticket saved by
hand, `Persist` any other handler that ends with `persistLocked`.  `Reconfigure`
is `applyConfig` up to its look at the cache, of a start or with another ttl, and
`RestoreFile` or `RestoreNothing` the rest, with `r.mu` held between the two.

Each request has a session id, and requests of one session overlap as they like.
`mixed`, a ghost, are the requests whose usage record `attachUsageToInjection` has
no means to place: those that were under way together with another of their
session, and those under way when a ticket that was gone came back.

### Settings

`Accept` puts a setting into `r.config` under `r.mu`; `Open` and `Write` are
`os.WriteFile`, which empties the file first; `SaveFails` is either of them
failing.  `Register`, `Read` and `Install` (or `Refuse`) are `applyConfig`, which
reads proxies, then accounts, with no lock.  Two writes over each other may leave
`Garbled` text.  `torn`, `stale`, `chosen` and `pinned` are ghosts: what the
operator last chose, and what went wrong with that save.

## 3. What the runs check

| Run | Question | Bounds, and why they are enough |
|---|---|---|
| `lifecycle_core` | Is the pending table always the set of jobs on their way, one per key? Does every waiter have a channel that is or will be closed? Does a cancelled worker get no more jobs? | 3 requests, 2 keys, channel of 1: joining, launching and overflowing all happen, and a key is asked for again after it was finished. 2 goroutines, so that a second worker could appear. |
| `lifecycle_live` | Do flights land, host calls return, waiters leave? Does the model implement `SingleFlight`? | 2 requests on one key, one goroutine (the run above and a theorem say there is never a second one). |
| `ticket_cache` | Can a ticket get younger, an issue time be of the wrong mode, a written ticket get lost, an older ticket replace a newer? | One key (keys never interact in the cache), tickets with an early, a late, a future and no issue time, ttls of 1 and 2, time to 3: longer than the longer ttl, and enough for a ticket to be written, switched to the other mode, lost and restored. |
| `probe_rounds` | Are cooldowns earned and given, do proxies take turns, does a quota answer stop every later probe? | 2 models of one account, pools of 1 and 2 that change during a sweep, 3 attempts of 2 per route, so that a turn is cut by the end of the budget; time to 4 with a cooldown of 2 and a backoff of 2 or 1, so that both end and a later report may shorten the backoff. |
| `schedule` | Is a key left with an expired ticket, does the countdown agree with the timer, do renewals come at the documented age, do sweeps recur and triggers get served? | 2 keys, a channel of 1; times in units of a sweep: a ticket lives 4, the interval is 1, so the configuration just keeps up (`Round` is 3) and one tick more would leave a gap. Four raw configurations: a lead with a refresh age and a negative interval, fixed, on demand, off. |
| `harvest` | Does a ticket come only from a response that completed, and always then? | 5 responses: a failover under one request id, a first attempt that fails with a ticket in its last event and a retry of it on its own account that carries none, one with an oversized event, one with an event after its completion, one whole response without id; table of 2; time to 3, so that a candidate goes stale. |
| `usage_window` | Are failures counted against the right ticket; does the flag agree with the queue? | 2 overlapping calls, threshold 2, channel of 1, 2 tickets. |
| `cookie_jar` | Can a cookie get younger, an older value replace a live newer one, an update be lost? | One name (names share only the write), 2 values in either order, any expiry up to the end of time, ttls of 1 and 3, time to 4: a ttl and an expiry both end, and the file can be two updates behind. |
| `bookkeeping` | Does usage reach its own request, is each request counted once, does a ticket give one lifetime sample? | 3 requests, two of one session (which are alike, hence the symmetry), a log of 2 that drops its oldest, ttls of 1 and 2, time to 3, `Early` and `Late` of 1: overlaps within a session, tickets that come back, reloads, torn files, crashes and abandoned requests all happen. `MaxLog` stops a reload that would leave more than 2 rows. |
| `settings` | Is a save that went well what a new process reads, and in force? | 2 savers, so that saves overlap; 2 selections, one of them empty; a proxy; a YAML with and without a selection. |
| `status_page` | Can a late page be shown, the user be stuck, a selection differ from what was checked, an alias stay behind? | 2 accounts, by id or alias; 2 requests under way, so that one overtakes another; 3 logins and logouts, so that an answer outlives a logout and a new login. |
| `settings_lost` | Ends in a counterexample: section 5. | |

Time is discrete and stops at `MaxTime`; it is a bound of the instance, not of the
program.  `MaxStored` bounds tickets, `MaxChunk` the size of a chunk. `MaxAge`
caps the age of a ticket, above any ttl; `MaxFlight` and `MaxGeneration` bound the
requests, logins and logouts of the page.  `MaxWork` is an assumption rather than
a bound: `Schedule` supposes that a sweep ends within it, which nothing in the
code enforces, since neither the transport (`transport.go:68`) nor the request of
a probe (`probe.go:365`) has a timeout; `NoGap` says what holds when upstream is
that quick.  `harvest` and `status_page` turn the deadlock check off: once every
response has arrived and time has stopped, or the last login is used up, nothing
need happen.

**Fairness** (`Lifecycle!Fairness`).  Weak fairness for each goroutine that can
move.  A demand probe ends, since `runDemandProbe` puts a deadline on its
context.  A sweep and a targeted probe have none, so fairness covers their end
only once the worker is cancelled; `WaitersReturn` and the liveness of
`SingleFlight` therefore have the hypothesis `SweepsReturn`.  Go's `select`
picks at random among ready cases, hence strong fairness for receiving a job and
for `ctx.Done()`.  No fairness for requests, host calls, or a waiter's timer.

**Fairness** (`Schedule!Fairness`).  Weak fairness for the clock and the worker's
own steps, and for the end of a probe where its context ends it: a demand probe
has a deadline (`lifecycle.go:68`), any probe ends once the worker is cancelled.
A probe of a sweep and a targeted probe may hang for ever, so `SweepsRecur` and
`TriggersServed` have the hypothesis `ProbesReturn`, as `WaitersReturn` has
`SweepsReturn`.  Strong fairness for the timer and the trigger, as cases of the
same `select`.  None for the host, the page, the requests or the configuration.
`SweepsRecur` has the further hypothesis that targeted probes cease, since each of
them resets the timer (`probe.go:99`); `TriggersServed` lets a stop intervene.

## 4. What is proved

All theorems hold for every value of the constants that satisfies the module's
assumption.  A hypothesis of a single theorem is named in its `ASSUME`; those about
responses are evaluated by TLC in `MCHarvest`.

- **`LifecycleProofs`** (assuming `LifecycleAssumption`: both channels have
  capacity at least one, which `newRuntime` gives).  The inductive invariant is
  `IInv == TypeOK /\ HandInv /\ JobInv`: `OneFlightPerKey` is not inductive by
  itself, since `finishDemand` preserves it only if a worker's place in its loop
  says whether it holds a job (`HandInv`) and if the channel a waiter holds is
  tied to the jobs and the closed channels (`JobInv`).  It gives
  `FlightsAreUnique`, `ChannelsCloseOnce`, `WaitersHaveAJob`, with no assumption
  about the host.  With `SerialHost` (no overlapping lifecycle calls; an
  explicit hypothesis of the theorems) `WorkerInv`, which ties `cancel`, the live
  worker and the caller's place together, gives `SingleWorker`,
  `StopIsComplete` and `DrainOnlyShrinks`.  `SafeSingleFlight` is the refinement:
  each step is a step of `SingleFlight` or a stutter.
- **`TicketCacheProofs`** (`TicketAssumption`).  `AgeInv` adds that no
  observation lies in the future.  `WrittenInv` says that, with no write owed, the
  entries in memory are those on file but for their issue times (`OnFile`), that a
  dead process has an empty memory (`DownIsEmpty`), and that the issue times on
  file are those of the mode they were written under (`FileTimes`); with
  `IssueTimesMatchMode` this gives `CrashLosesNothingWritten` for a restart in that
  mode.  `NoRollback` is an action property from the types and from
  `IssueTimesMatchMode`; its two exceptions are in the statement.
- **`ProbeRoundProofs`** (`ProbeAssumption`).  `InSweep` says a round is inside a
  sweep; `CooldownEarned` is inductive with the types.  `QuotaInv` relates
  `ownQuota` to `quotaUntil`, which is never earlier: a usage record that sets an
  earlier end cuts both, so that what `OwnQuotaStopsProbes` promises is what is
  left of the backoff a probe earned. `MissedRoundsCoolDown` has the hypothesis
  that every pool has a proxy (`PoolsHaveProxies`), for without one the code does
  not count the miss; `CountInv` then says that counter and ghost run together
  until the first cooldown.  For `ProxiesTakeTurns`, `TurnInv` writes the number
  of an attempt as c full turns of the pool, e turns and m attempts, and gives the
  tries of every proxy from them; `DivMod` and `SlotIsTheTurn` connect it to the
  division and the remainder in `proxyIndex`.
- **`UsageWindowProofs`** (`UsageAssumption`).  `AgeInv` carries the test of
  `handleUsage` across the unlock: a call that will count is no older than the
  ticket it found.  `QueuedIsOnItsWay` is inductive with the types.

  *Harvest* (`HarvestAssumption`).  `CallsOrQuiet` reduces every step to a call of
  `harvestCompleted` or to one that leaves no new candidate; `Outcome` and
  `TicketFrom` say what a call does.  `SourceInv` says that the ticket of a
  candidate came with an attempt in its slot, in an event that has at least begun:
  without it a completion could promote anything the table holds.  With
  `PromoteInv` it gives `PromotionsAreCompleted`, under the hypothesis
  `OneVerdict` (a body has one terminal event and no ticket after it; a body that
  completed and then failed would be promoted). `RefusalsAreForFresh` needs the
  types and a finite table.

  `CompletionsArePromoted` has the further hypothesis `RetriesInTurn`: two
  attempts of a request on an account do not come after the same one, and are both
  streamed or both whole.  `TurnInv` then has at most one of them under way.  Its
  candidate is `Gathered`: it has the last ticket that has arrived, or that of the
  event which is arriving (`Ahead`), and knows whether it stands inside an event,
  so that the next chunk is read in full (`ReadWhole`, `LastIsLatest`).  `DoneInv`
  is what the completion leaves, which nothing that comes later undoes.
  `Greatest`, that `Max` is a maximum, comes from the well-foundedness of `<` on
  the naturals.
- **`CookieJarProofs`** (`CookieAssumption`).  `AgeInv` relates the three
  pictures of a jar, in memory, on its way to the file and in the file: the two
  others are `Behind` the jar, entry by entry, and no value came in later than
  now.  Without it a reload could bring back a younger entry, and `NewestWins`
  would not follow.  `WriteInv` says that a dead process has an empty jar and
  that, with no write owed, the latest of the pictures `Holds` the jar: every value
  with its age, and its expiry unless it is `resent`.  `UpdatesSurvive` needs both:
  what a restart restores of the file is then the jar's own entry.
- **`SettingsProofs`** (`SettingsAssumption`: the marks in a file are no
  settings).  `SaveInv` says that a save which has not gone wrong is alone, saves
  the last choice and has emptied its file once past the opening, so that its end
  leaves the choice there; `LoadInv` that an `applyConfig` no save overlaps holds
  or will read that choice; `MemoryInv` is what its installation then leaves.
- **`ScheduleProofs`** (`ScheduleAssumption`, `ConfigAssumption`).
  `NormalizingIsInvisible`: the getters give the same before and after
  `normalizeConfig`, for any integers.  `NoGap` is not inductive; `Outlives` says for
  each place of the worker how much of a ticket's life must be left: enough for the
  timer and the sweep after it while it waits, for the rest of the sweep if the key
  is still to be looked at, and for that, the interval and another sweep if it is
  not.  `DeadlineInv` states it for the keys that are not excused, under a
  configuration that keeps up.  `WorkerInv` ties timer, work and ghosts to the place
  in the loop; `CountdownInv` bounds the shown instant while work goes on, so that
  `ShownIsTheTimer` holds after it.  `RenewsAtDocumentedAge` follows from the types
  and from what `probeLead` computes.
- **`StatusPageProofs`** (`StatusPageAssumption`).  `RequestInv`: a request of the
  present generation is of the present session, and no page mixes ids with aliases;
  with it `LatePagesDropped` follows step by step.  The three invariants are
  inductive with it, `FrameInv` and the finiteness of `flight`; that aliases differ
  is the only fact used about `accountAlias`.

  *Bookkeeping* (`BookAssumption`).  `CountInv` adds to `EveryRequestCounted` that a
  request still to be recorded is not yet counted, that the file counts what memory
  does while the process lives, and what it counts when it is dead: this carries the
  sum across a crash and a reload.  `SampleInv` says that the start of a combo, in
  memory, in the file or on its way between the two locks of `observeState`, is
  in no sample and belongs to no two of them; `TicketsSampledOnce` follows.
  `UsageIsAttachedRightly` has no hypothesis.  `OverlapInv`: requests of a session
  that are under way together are `mixed`.  `AskedInv` says of any other request sent
  with a usable ticket that `Behind` every entry of its session that has no usage
  stands one of its own, with a time that fits, in the log and in the file, so that
  the search from the end finds it first; or it is `Superseded`: the present ticket
  is newer than it, or none can be used, and its usage is put nowhere.  `OwnInv`,
  that entries have no usage but their own or that of a mixed request, and
  `CreditInv`, that a usage once attached is that of a request that is done, are
  then preserved, over the rows of the log and of the file.

**Only model-checked**: everything about liveness and fairness (and so `SweepsRecur`,
`TriggersServed`, `WaitersReturn`, `CallersReturn`, and the second half of
`ImplementsSingleFlight`), which is out of the prover's reach.  Every invariant and
every action property of the passing runs is a theorem.

## 5. Where the code and its documentation disagree

One run ends in a counterexample, `settings_lost`: `applyConfig` reads the two files
before its lock (`runtime.go:197`); a save that succeeds in between is replaced in
memory by what was read, though the page has reported success.

Noted while reading, part of the models' behaviour, and without a run of their own:

- `probeKey` may drop a queued key and leave `ReprobeQueued` set (`probe.go:164`),
  after which failures queue no reprobe in that window.
- An expiry that comes with an unchanged cookie value is not written
  (`runtime.go:460`); after a restart the cookie outlives it, although README.md:115
  says the shorter expiry wins, or is gone before it.
- `applyConfig` finds the cache empty (`runtime.go:258`) and restores the file later
  (`runtime.go:264`) without comparing (`state.go:335`); a newer ticket that a
  response stores in between, under the cache's lock alone (`runtime.go:420`), is
  rolled back.  Requests under way then have another ticket than the one on file.
- A restart in the other `use_issued_at` mode judges a ticket by the issue time on
  file before it forgets or reads it anew (`state.go:323`), and may drop one that
  memory held live.
- A later quota report overwrites a backoff without comparing (`lifecycle.go:140`):
  a lowered `quota_backoff_seconds`, or a report that read an older configuration,
  shortens the one in force.
- `extractTurnStateFromChunk` reads events whose delimiter has not come
  (`intercept.go:152`), and `completion.go:99` keeps what it finds: the ticket of an
  event cut short is promoted if the response, or a retry under the same request id,
  completes.
- A usage record goes to the newest entry that fits (`runtime.go:832`), so requests
  of one session that overlap, or one whose ticket was gone and came back by a
  reload or a longer ttl, may get each other's.
- Nothing bounds a sweep or a targeted probe (`transport.go:68`, `probe.go:365`): one
  that hangs holds all probing until the next `applyConfig` or `shutdown`.
- The comment at `config.go:253` says `state_refresh_seconds` takes precedence; the
  code takes `probe_lead_seconds` first, as README.md:109 has it.
- `fixed` probes "on a constant interval" (README.md:108), but every targeted probe
  resets the timer (`probe.go:99`), and `nextProbeAt` is not moved with it.
- The defaults leave no gap between tickets only if a sweep takes at most 30 seconds
  (`Schedule!KeepsUp`): the lead of 180 seconds is an interval of 120 and two sweeps.
- The banner of the page says that expired tickets are still injected
  (`management.go:735`), which is not so under `use_issued_at`.
- The key "lives in this page's closure until logout/reload" (`status_security.go:171`);
  a refusal of an older request clears it (line 184), and the failure of the
  automatic login drops it (line 208), also if another login has come between.
- A setting whose file cannot be written is in force all the same
  (`runtime.go:320`), though the page reports an error.
- A page built while the host's list failed shows no accounts, and saving from it
  disables them all (`management.go:510`, `runtime.go:313`).
- The ticket of an attempt that was given up may be promoted by the completion of a
  retry under the same request id (`completion.go:95`).
- README.md:33 calls the state cache process-local; `restorePersistedRuntimeLocked`
  reads it back (`runtime.go:257`).
- Rounds on the direct route alone never count as missed (`probe.go:283`), so
  `on_demand_cooldown_seconds` has no effect there.
- A round sends up to `attempts_per_route + max_probe_attempts` requests
  (`probe.go:293`), where README.md:124-125 describe one budget.
- A quota failure reported by a usage record does not stop the direct attempts of
  a round under way (`probe.go:247`).
- `recordBareRequest` may close the combo of a live ticket (`runtime.go:659`),
  where its comment says the ticket aged out.
- `restore` may bring an older cookie value back once the newer has expired
  (`cookies.go:271`), and a cookie that upstream clears stays
  (`cookies.go:71`).

## 6. Not modelled, and the plan

Parsing (proxies, the Fernet envelope, SSE and JSON bodies, `Set-Cookie`),
rendering, request decoding, HTTP, the ABI and packaging are left out: pure
functions or pure I/O, whose outcomes the models choose freely.  Tokens and
latencies are summed and never compared.  Of the configuration, texts, lists and
YAML decoding are left out, and switches that only have a default.

Several abstractions narrow what the runs say.  Cache, cookies and bookkeeping
are modelled for one key, account or name where the code treats them apart;
`Bookkeeping` lets tickets expire for `lookup`, as under `use_issued_at`, and a
request without a session id counts as one of every session there;
`UsageReachesItsRequest` promises nothing of the requests in `mixed` but that their
usage is attached to one request; `Schedule` ages tickets from the time they were
stored, as without `use_issued_at`, and supposes that sweeps end within `MaxWork`;
in `StatusPage` the host's list may change between any two calls but not within
one.  A write of `runtime.json` is whole or torn; one that cannot open the file, and
leaves the old one, is only in `Settings`.

Some interleavings are proved and not run.  `lifecycle_core` has one host goroutine,
so overlapping `applyConfig` and `shutdown` calls (`runtime.go:395`) are covered by
the theorems, which do not assume `SerialHost` for `OneFlightPerKey`,
`NeverClosedTwice` and `WaitersAnswerable`.  `CallersReturn` has no variable for
`r.mu`: that `applyConfig` releases it before `wg.Wait` (`runtime.go:205`) is how its
steps are cut, and not something the run could find broken.

What could come next, in this order:

1. A composition of `Lifecycle`, `Schedule` and `ProbeRound`, with the interval of
   a probe replaced by its rounds and `Lifecycle` as the abstract specification.
2. The echo counts and averages of the counters, and the cookies of an account
   across its names.
