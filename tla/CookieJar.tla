----------------------------- MODULE CookieJar -----------------------------
(***************************************************************************)
(* The jar of routing cookies of one account (cookies.go) with its copy in *)
(* runtime.json.  Responses of production requests and of probes bring     *)
(* cookies; the host reconfigures the plugin; the process crashes and      *)
(* starts again.  The jar has a lock of its own, the file is written under *)
(* r.mu: a response may change the jar while an older picture of it is on  *)
(* its way to the file.                                                    *)
(***************************************************************************)
EXTENDS Naturals

CONSTANTS Names,     \* trackedCookieNames: __cflb, __oailb
          Values,    \* cookie values
          TTLs,      \* the values of cookie_ttl_seconds the host configures
          MaxTime,   \* bound: the clock stops here
          None

Cookie == [value : Values, expires : Nat]   \* expires = 0: none announced
Entry == [value : Values, captured : Nat, expires : Nat]

ASSUME CookieAssumption ==
    /\ TTLs \subseteq Nat \ {0} /\ TTLs # {}
    /\ MaxTime \in Nat \ {0}
    /\ None \notin Cookie \cup Entry \cup [Names -> Entry \cup {None}]

VARIABLES
    now,        \* nowFunc()
    up,         \* the process runs
    ttl,        \* jar.ttl
    jar,        \* jar.entries of the account
    writing,    \* the picture of the jar persistLocked is writing, or None
    disk,       \* the cookies in runtime.json
    owed,       \* some update of the jar is in no completed write yet
    resent,     \* ghost: the names of which only the expiry changed since
                \* the jar was last copied for the file
    received    \* ghost: when a value last came in

vars == <<now, up, ttl, jar, writing, disk, owed, resent, received>>

Jars == [Names -> Entry \cup {None}]
Empty == [n \in Names |-> None]
Never == [n \in Names |-> [v \in Values |-> 0]]

TypeOK ==
    /\ now \in 1..MaxTime
    /\ up \in BOOLEAN
    /\ ttl \in TTLs
    /\ jar \in Jars
    /\ writing \in Jars \cup {None}
    /\ disk \in Jars
    /\ owed \in BOOLEAN
    /\ resent \subseteq Names
    /\ received \in [Names -> [Values -> Nat]]

Init ==
    /\ now = 1 /\ up = FALSE
    /\ ttl \in TTLs
    /\ jar = Empty /\ writing = None /\ disk = Empty
    /\ owed = FALSE /\ resent = {}
    /\ received = Never

-----------------------------------------------------------------------------
(* The deadline is the earlier of the ttl after the capture and the expiry *)
(* announced, if one was.                                                  *)
Expired(e, limit) ==
    \/ now >= e.captured + limit
    \/ e.expires # 0 /\ now >= e.expires

(* pruneLocked *)
Pruned(j, limit) ==
    [n \in Names |-> IF j[n] # None /\ ~Expired(j[n], limit) THEN j[n] ELSE None]

(* live: what a request injects for a name right now. *)
Live(n) == jar[n] # None /\ ~Expired(jar[n], ttl)

(* What observe takes from a response: not a cookie that has expired. *)
Accepts(c) == c # None /\ (c.expires = 0 \/ now < c.expires)
IsUpdate(n, c) == Accepts(c) /\ (jar[n] = None \/ jar[n].value # c.value)

Fresh(c) == [value |-> c.value, captured |-> now, expires |-> c.expires]

(* A value that comes again keeps its age and takes the new expiry, if one *)
(* is announced.                                                           *)
TakenRenews(n, c) == IF Accepts(c) THEN Fresh(c) ELSE jar[n]
Taken(n, c) ==
    CASE ~Accepts(c)     -> jar[n]
      [] IsUpdate(n, c)  -> Fresh(c)
      [] OTHER           -> [jar[n] EXCEPT !.expires =
                               IF c.expires # 0 THEN c.expires ELSE @]

(* The ghosts: which value came in, and of which only the expiry did. *)
Noted(got) ==
    /\ resent' = resent \cup {n \in Names : ~IsUpdate(n, got[n]) /\ Taken(n, got[n]) # jar[n]}
    /\ received' = [n \in Names |-> [v \in Values |->
                      IF Accepts(got[n]) /\ got[n].value = v THEN now
                      ELSE received[n][v]]]

(* observeCookies up to its lock of r.mu.  got says which cookie the       *)
(* response sets under each name, None for none.  Only a changed value     *)
(* owes the file a write: a new expiry alone does not.                     *)
ObserveOwesNothing(got) ==
    /\ up
    /\ jar' = Pruned([n \in Names |-> Taken(n, got[n])], ttl)
    /\ Noted(got)
    /\ UNCHANGED <<now, up, ttl, writing, disk, owed>>
Observe(got) ==
    /\ up
    /\ jar' = Pruned([n \in Names |-> Taken(n, got[n])], ttl)
    /\ owed' = (owed \/ \E n \in Names : IsUpdate(n, got[n]))
    /\ Noted(got)
    /\ UNCHANGED <<now, up, ttl, writing, disk>>

-----------------------------------------------------------------------------
(* persistLocked, at the end of any handler: it copies the jar, expired    *)
(* entries and all, and writes the file.  os.WriteFile truncates first and *)
(* its error is dropped; a torn file is refused whole.                     *)
Snapshot ==
    /\ up /\ writing = None
    /\ writing' = jar
    /\ owed' = FALSE /\ resent' = {}
    /\ UNCHANGED <<now, up, ttl, jar, disk, received>>

WriteFile ==
    /\ writing # None
    /\ disk' = writing
    /\ writing' = None
    /\ UNCHANGED <<now, up, ttl, jar, owed, resent, received>>

WriteTorn ==
    /\ writing # None
    /\ disk' = Empty
    /\ writing' = None
    /\ owed' = TRUE
    /\ UNCHANGED <<now, up, ttl, jar, resent, received>>

(* restore, after configure has pruned the jar to kept: what has expired   *)
(* stays behind, and so does what the jar has a later capture for.         *)
Readable(e, limit) == e # None /\ e.captured <= now /\ ~Expired(e, limit)
RestoredBlindly(n, kept, limit) ==
    IF Readable(disk[n], limit) THEN disk[n] ELSE kept[n]
RestoredAnew(n, kept, limit) ==
    IF /\ Readable(disk[n], limit)
       /\ kept[n] # None => kept[n].captured <= disk[n].captured
    THEN [disk[n] EXCEPT !.captured = now] ELSE kept[n]
Restored(n, kept, limit) ==
    IF /\ Readable(disk[n], limit)
       /\ kept[n] # None => kept[n].captured <= disk[n].captured
    THEN disk[n] ELSE kept[n]

(* applyConfig, under r.mu.  A new process reads the file; a running one   *)
(* does (reload) while it has neither tickets nor probe logs, whatever is  *)
(* in the jar.                                                             *)
ApplyConfig(limit, reload) ==
    LET kept == Pruned(jar, limit)
    IN  /\ writing = None
        /\ up \/ reload
        /\ up' = TRUE
        /\ ttl' = limit
        /\ jar' = IF reload THEN [n \in Names |-> Restored(n, kept, limit)]
                  ELSE kept
        /\ UNCHANGED <<now, writing, disk, owed, resent, received>>

(* The process dies; the file is what it was, or torn if it was being      *)
(* written.                                                                *)
Crash ==
    /\ up
    /\ up' = FALSE
    /\ jar' = Empty
    /\ writing' = None
    /\ disk' \in IF writing # None THEN {disk, writing, Empty} ELSE {disk}
    /\ owed' = FALSE /\ resent' = {}
    /\ UNCHANGED <<now, ttl, received>>

Tick ==
    /\ now < MaxTime
    /\ now' = now + 1
    /\ UNCHANGED <<up, ttl, jar, writing, disk, owed, resent, received>>

Responses == [Names -> {None} \cup [value : Values, expires : 0..MaxTime]] \ {Empty}

Next ==
    \/ \E got \in Responses : Observe(got)
    \/ Snapshot \/ WriteFile \/ WriteTorn
    \/ \E limit \in TTLs, reload \in BOOLEAN : ApplyConfig(limit, reload)
    \/ Crash
    \/ Tick

Spec == Init /\ [][Next]_vars

-----------------------------------------------------------------------------
(* No restart and no reload makes a cookie look younger than the response  *)
(* it last came with, in memory, on its way to the file or in the file     *)
(* (restore keeps CapturedAt).                                             *)
NoYounger(j) ==
    \A n \in Names : j[n] # None => j[n].captured <= received[n][j[n].value]
AgeIsReal ==
    /\ NoYounger(jar)
    /\ NoYounger(disk)
    /\ writing # None => NoYounger(writing)

(* "Re-sending an identical value does not extend the age" (cookies.go),   *)
(* nor does a reload: as long as the process lives, a value in the jar     *)
(* never gets younger.  (The expiry it is announced with may move.)        *)
ResendingNeverRenews ==
    [][\A n \in Names :
         /\ up /\ up' /\ jar[n] # None /\ jar'[n] # None
         /\ jar'[n].value = jar[n].value
         => jar'[n].captured <= jar[n].captured]_vars

(* "the newest live values are used" (cookieInjectionFor): while the       *)
(* process lives, an older value never takes the place of a live newer     *)
(* one, though applyConfig may read a file that is behind the jar.  (Once  *)
(* the newer one has expired, it may: the older may outlive it.)           *)
NewestWins ==
    [][\A n \in Names :
         up /\ up' /\ Live(n) /\ Live(n)'
         => jar'[n].captured >= jar[n].captured]_vars

(* Once no write is owed or under way, each value in the jar is in the     *)
(* file with its age, and a process that crashes now and starts again with *)
(* the same ttl gets back every live cookie as it is.  Not so one that     *)
(* came again with another expiry and the same value: that owes no write,  *)
(* and the file may still have the earlier expiry.                         *)
UpdatesSurvive ==
    up /\ ~owed /\ writing = None =>
      \A n \in Names : jar[n] # None =>
        /\ disk[n] # None
        /\ disk[n].value = jar[n].value
        /\ disk[n].captured = jar[n].captured
        /\ Live(n) /\ n \notin resent => Restored(n, Empty, ttl) = jar[n]

=============================================================================
