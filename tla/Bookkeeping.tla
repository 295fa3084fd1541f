---------------------------- MODULE Bookkeeping ----------------------------
(***************************************************************************)
(* What the plugin writes down about the production requests of one key    *)
(* (runtime.go): the injection log with the usage of each request, the     *)
(* counters of injections and of bare requests, and the combo, which       *)
(* measures how long a ticket lasted.  Requests, usage records, stores of  *)
(* tickets, reconfigurations and crashes interleave: r.mu guards the log,  *)
(* the counters and the combo, and the ticket has the lock of the cache.   *)
(* Tickets expire for lookup, as they do under use_issued_at.              *)
(***************************************************************************)
EXTENDS Naturals, Sequences, FiniteSets

CONSTANTS Requests,   \* production requests, each looked up once
          SessionOf,  \* the session id of a request, or Nil
          Observers,  \* goroutines inside observeState
          Lives,      \* values of ttl_seconds
          Limit,      \* probe_log_limit, of the injection log too
          Early,      \* how long before its injection a request may be made (2 minutes)
          Late,       \* and how long after it, as clocks differ (10 minutes)
          MaxTime,    \* bound: the clock stops here
          MaxLog,     \* bound: reloads do not take the log beyond this
          Nil

ASSUME BookAssumption ==
    /\ IsFiniteSet(Requests) /\ IsFiniteSet(Observers)
    /\ Lives \subseteq Nat \ {0} /\ Limit \in Nat \ {0} /\ Early \in Nat /\ Late \in Nat
    /\ MaxTime \in Nat \ {0} /\ MaxLog \in Nat
    /\ Nil \notin Requests

VARIABLES
    now,       \* nowFunc()
    up,        \* the process runs
    ttl,       \* ttl_seconds now, 0 before the first configuration
    restoring, \* applyConfig has found nothing in memory and goes to the file
    ticket,    \* when the cached ticket was stored, 0 for none
    log,       \* r.injections
    counts,    \* ticketStats: Injections and Bare
    combo,     \* combos: StartedAt, LastInvalidatedAt
    disk,      \* all of that in runtime.json, or Nil
    stage,     \* how far a request has got
    asked,     \* its RequestedAt while it is under way
    storing,   \* the ticket an observer has stored and opened no combo for, or 0
    recorded,  \* ghost: requests that were counted
    mixed,     \* ghost: requests whose usage may be taken for another's
    sampled,   \* ghost: StartedAt of every combo that was closed
    lost       \* ghost: a crash met a torn file

books == <<log, counts, combo>>
config == <<up, ttl, restoring>>
ghosts == <<recorded, mixed, sampled, lost>>
bookVars == <<now, config, ticket, books, disk, stage, asked, storing, ghosts>>

Stages == {"new", "hit", "miss", "sent", "bare", "used", "done"}
LogEntry == [id : Requests, at : Nat, usage : Requests \cup {Nil}]
Counts == [injections : Nat, bare : Nat]
Combo == [started : Nat, invalidated : Nat]
File == [ticket : Nat, log : Seq(LogEntry), counts : Counts, combo : Combo]

NoCounts == [injections |-> 0, bare |-> 0]
NoCombo == [started |-> 0, invalidated |-> 0]
NotAsked == [q \in Requests |-> 0]

BookTypeOK ==
    /\ now \in 1..MaxTime
    /\ up \in BOOLEAN /\ ttl \in Nat /\ restoring \in BOOLEAN
    /\ ticket \in 0..now
    /\ log \in Seq(LogEntry)
    /\ counts \in Counts
    /\ combo \in Combo
    /\ disk \in File \cup {Nil}
    /\ stage \in [Requests -> Stages]
    /\ asked \in [Requests -> 0..now]
    /\ storing \in [Observers -> 0..now]
    /\ recorded \subseteq Requests /\ mixed \subseteq Requests
    /\ sampled \subseteq 0..now
    /\ lost \in BOOLEAN

BookInit ==
    /\ now = 1 /\ up = FALSE /\ ttl = 0 /\ restoring = FALSE
    /\ ticket = 0 /\ log = <<>> /\ counts = NoCounts /\ combo = NoCombo
    /\ disk = Nil
    /\ stage = [q \in Requests |-> "new"] /\ asked = NotAsked
    /\ storing = [o \in Observers |-> 0]
    /\ recorded = {} /\ mixed = {} /\ sampled = {} /\ lost = FALSE

-----------------------------------------------------------------------------
AliveFor(t, life) == t # 0 /\ now < t + life
Alive(t) == AliveFor(t, ttl)

(* What takes r.mu waits while applyConfig holds it. *)
Unlocked == up /\ ~restoring

SameSession(r, q) ==
    SessionOf[r] = Nil \/ SessionOf[q] = Nil \/ SessionOf[r] = SessionOf[q]

(* A request is under way from its lookup until its usage is dealt with.   *)
UnderWay(q) == stage[q] \notin {"new", "done"}
InFlight == {q \in Requests : UnderWay(q)}
Finish(q) ==
    /\ stage' = [stage EXCEPT ![q] = "done"]
    /\ asked' = [asked EXCEPT ![q] = 0]

LastOf(s, n) == IF Len(s) > n THEN SubSeq(s, Len(s) - n + 1, Len(s)) ELSE s

(* persistLocked, with what the handler has just changed. *)
Writes(l, c, b) ==
    disk' = [ticket |-> ticket, log |-> l, counts |-> c, combo |-> b]

(* The interceptor looks the key up.  Requests of a session may overlap,   *)
(* and nothing then tells whose usage a record brings.                     *)
Lookup(q) ==
    LET others == {r \in InFlight : SameSession(r, q)}
    IN  /\ up /\ stage[q] = "new"
        /\ stage' = [stage EXCEPT ![q] = IF Alive(ticket) THEN "hit" ELSE "miss"]
        /\ asked' = [asked EXCEPT ![q] = now]
        /\ mixed' = IF others = {} THEN mixed ELSE mixed \cup others \cup {q}
        /\ UNCHANGED <<now, config, ticket, books, disk, storing, recorded, sampled,
                       lost>>

(* recordInjection: of a ticket, or (source cookie-only) of cookies alone. *)
RecordInjection(q) ==
    LET entry == [id |-> q, at |-> now, usage |-> Nil]
        l == LastOf(Append(log, entry), Limit)
        c == [counts EXCEPT !.injections = @ + 1]
    IN  /\ Unlocked /\ stage[q] \in {"hit", "miss"}
        /\ log' = l /\ counts' = c
        /\ Writes(l, c, combo)
        /\ stage' = [stage EXCEPT ![q] = "sent"]
        /\ recorded' = recorded \cup {q}
        /\ UNCHANGED <<now, config, ticket, combo, asked, storing, mixed, sampled,
                       lost>>

(* recordBareRequest: no ticket and no cookies.  The combo is closed: its  *)
(* ticket is taken to have aged out.                                       *)
Open == combo.started # 0 /\ combo.invalidated <= combo.started
Closed == IF Open THEN [started |-> 0, invalidated |-> now] ELSE combo

RecordBareUnwritten(q) ==
    /\ Unlocked /\ stage[q] = "miss"
    /\ counts' = [counts EXCEPT !.bare = @ + 1]
    /\ combo' = Closed
    /\ sampled' = IF Open THEN sampled \cup {combo.started} ELSE sampled
    /\ stage' = [stage EXCEPT ![q] = "bare"]
    /\ recorded' = recorded \cup {q}
    /\ UNCHANGED <<now, config, ticket, log, disk, asked, storing, mixed, lost>>
RecordBare(q) ==
    LET c == [counts EXCEPT !.bare = @ + 1]
    IN  /\ Unlocked /\ stage[q] = "miss"
        /\ counts' = c /\ combo' = Closed
        /\ Writes(log, c, Closed)
        /\ sampled' = IF Open THEN sampled \cup {combo.started} ELSE sampled
        /\ stage' = [stage EXCEPT ![q] = "bare"]
        /\ recorded' = recorded \cup {q}
        /\ UNCHANGED <<now, config, ticket, log, asked, storing, mixed, lost>>

(* The usage record of a request, as far as the log goes.  handleUsage     *)
(* drops it when the ticket is gone or newer than the request ...          *)
Usage(q) ==
    /\ up /\ stage[q] \in {"sent", "bare"}
    /\ \/ /\ Alive(ticket) /\ ticket <= asked[q]
          /\ stage' = [stage EXCEPT ![q] = "used"]
          /\ UNCHANGED asked
       \/ /\ ~(Alive(ticket) /\ ticket <= asked[q])
          /\ Finish(q)
    /\ UNCHANGED <<now, config, ticket, books, disk, storing, ghosts>>

(* ... and attachUsageToInjection goes through the log from its end to the *)
(* newest entry without usage that may be the request's: no other session, *)
(* and injected about when the request was made.                           *)
Fits(q) == {i \in DOMAIN log : /\ log[i].usage = Nil
                               /\ SameSession(log[i].id, q)
                               /\ log[i].at <= asked[q] + Early
                               /\ asked[q] <= log[i].at + Late}
MatchesOldest(q) == {i \in Fits(q) : \A j \in Fits(q) : i <= j}
Matches(q) == {i \in Fits(q) : \A j \in Fits(q) : j <= i}

Attach(q) ==
    /\ Unlocked /\ stage[q] = "used"
    /\ log' = [i \in DOMAIN log |-> IF i \in Matches(q)
                                    THEN [log[i] EXCEPT !.usage = q] ELSE log[i]]
    /\ Finish(q)
    /\ UNCHANGED <<now, config, ticket, counts, combo, disk, storing, ghosts>>

(* The client gives up, and no usage record comes. *)
Abandon(q) ==
    /\ up /\ stage[q] \in {"sent", "bare"}
    /\ Finish(q)
    /\ UNCHANGED <<now, config, ticket, books, disk, storing, ghosts>>

-----------------------------------------------------------------------------
(* observeState: the ticket goes into the cache, under its lock and at an  *)
(* instant of its own; the combo starts under r.mu.                        *)
StoreExpiry(o) ==
    /\ up /\ storing[o] = 0 /\ now < MaxTime
    /\ now' = now + 1
    /\ ticket' = now' + ttl
    /\ storing' = [storing EXCEPT ![o] = now']
    /\ UNCHANGED <<config, books, disk, stage, asked, ghosts>>
Store(o) ==
    /\ up /\ storing[o] = 0 /\ now < MaxTime
    /\ now' = now + 1
    /\ ticket' = now'
    /\ storing' = [storing EXCEPT ![o] = now']
    /\ UNCHANGED <<config, books, disk, stage, asked, ghosts>>

StartCombo(o) ==
    /\ Unlocked /\ storing[o] # 0
    /\ combo' = [combo EXCEPT !.started = storing[o]]
    /\ storing' = [storing EXCEPT ![o] = 0]
    /\ UNCHANGED <<now, config, ticket, log, counts, disk, stage, asked, ghosts>>

(* applyManualState: a ticket saved by hand starts no combo.  That it is   *)
(* written to the file, under r.mu, is a Persist of its own.               *)
PutManual ==
    /\ up /\ now < MaxTime
    /\ now' = now + 1
    /\ ticket' = now'
    /\ UNCHANGED <<config, books, disk, stage, asked, storing, ghosts>>

(* Any handler that ends with persistLocked. *)
Persist ==
    /\ Unlocked
    /\ Writes(log, counts, combo)
    /\ UNCHANGED <<now, config, ticket, books, stage, asked, storing, ghosts>>
PersistTorn ==
    /\ Unlocked
    /\ disk' = Nil
    /\ UNCHANGED <<now, config, ticket, books, stage, asked, storing, ghosts>>

-----------------------------------------------------------------------------
(* applyConfig, of a start or with another ttl.  The cache gets its        *)
(* ttl and drops what has expired; when neither a ticket nor a probe log   *)
(* (empty) is left, the file is read.  A ticket that had expired may be    *)
(* valid for longer now.                                                   *)
Reconfigure(life, empty) ==
    LET kept == IF AliveFor(ticket, life) THEN ticket ELSE 0
        reads == empty /\ kept = 0
    IN  /\ ~restoring /\ (~up => empty)
        /\ reads /\ disk # Nil => Len(log) + Len(LastOf(disk.log, Limit)) <= MaxLog
        /\ ttl' = life /\ ticket' = kept /\ restoring' = reads
        /\ mixed' = IF kept # 0 /\ ~Alive(ticket) THEN mixed \cup InFlight ELSE mixed
        /\ UNCHANGED <<now, up, books, disk, stage, asked, storing, recorded, sampled,
                       lost>>

(* restorePersistedRuntimeLocked puts the ticket of the file into the      *)
(* cache, over one that was stored since it was found empty, appends the   *)
(* log of the file to the one in memory and takes the counters and the     *)
(* combo of the key, if the file has them.                                 *)
Restored(t) == IF Alive(t) THEN t ELSE ticket
ReloadAdds(c) == [injections |-> counts.injections + c.injections,
                  bare |-> counts.bare + c.bare]
ReloadTakes(c) == IF c = NoCounts THEN counts ELSE c

RestoreFile ==
    /\ restoring /\ disk # Nil
    /\ up' = TRUE /\ restoring' = FALSE
    /\ ticket' = Restored(disk.ticket)
    /\ log' = log \o LastOf(disk.log, Limit)
    /\ counts' = ReloadTakes(disk.counts)
    /\ combo' = IF disk.combo # NoCombo THEN disk.combo ELSE combo
    /\ mixed' = IF Alive(disk.ticket) THEN mixed \cup InFlight ELSE mixed
    /\ UNCHANGED <<now, ttl, disk, stage, asked, storing, recorded, sampled, lost>>

RestoreNothing ==
    /\ restoring /\ disk = Nil
    /\ up' = TRUE /\ restoring' = FALSE
    /\ UNCHANGED <<now, ttl, ticket, books, disk, stage, asked, storing, ghosts>>

(* The process dies, and its host and the requests in flight with it. *)
Crash ==
    /\ up
    /\ up' = FALSE /\ ttl' = 0 /\ restoring' = FALSE
    /\ ticket' = 0 /\ log' = <<>> /\ counts' = NoCounts /\ combo' = NoCombo
    /\ storing' = [o \in Observers |-> 0]
    /\ stage' = [q \in Requests |-> IF stage[q] = "new" THEN "new" ELSE "done"]
    /\ asked' = NotAsked
    /\ lost' = (lost \/ (disk = Nil /\ recorded # {}))
    /\ UNCHANGED <<now, disk, recorded, mixed, sampled>>

(* No request waits longer than Early between its lookup and its record.   *)
Tick ==
    /\ now < MaxTime
    /\ \A q \in Requests : stage[q] \in {"hit", "miss"} => now < asked[q] + Early
    /\ now' = now + 1
    /\ UNCHANGED <<config, ticket, books, disk, stage, asked, storing, ghosts>>

BookNext ==
    \/ \E q \in Requests : \/ Lookup(q) \/ RecordInjection(q) \/ RecordBare(q)
                           \/ Usage(q) \/ Attach(q) \/ Abandon(q)
    \/ \E o \in Observers : Store(o) \/ StartCombo(o)
    \/ PutManual \/ Persist \/ PersistTorn
    \/ \E life \in Lives, empty \in BOOLEAN : Reconfigure(life, empty)
    \/ RestoreFile \/ RestoreNothing
    \/ Crash
    \/ Tick

BookSpec == BookInit /\ [][BookNext]_bookVars

-----------------------------------------------------------------------------
(* Usage goes to the injection of its own request, and a request's to that *)
(* of one request only, whatever other sessions of the account do          *)
(* meanwhile, and though requests are abandoned, dropped from the log, or  *)
(* logged again by a reload.  It may go astray when requests of a session  *)
(* overlap, or when a ticket that was gone comes back while one is under   *)
(* way.                                                                    *)
UsageReachesItsRequest ==
    \A i, j \in DOMAIN log :
      /\ log[i].usage \in {Nil, log[i].id} \cup mixed
      /\ log[i].usage = log[j].usage /\ log[i].usage # Nil => log[i].id = log[j].id

(* The counters on the status page count every request once, through       *)
(* crashes and reloads, as long as no crash meets a torn file.             *)
EveryRequestCounted ==
    up /\ ~lost => counts.injections + counts.bare = Cardinality(recorded)

(* A combo gives at most one lifetime sample: neither a restart nor a      *)
(* reload opens one again that a bare request has closed.                  *)
OneSamplePerTicket ==
    [][\A q \in Requests : RecordBare(q) /\ Open => combo.started \notin sampled]_bookVars

=============================================================================
