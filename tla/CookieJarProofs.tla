-------------------------- MODULE CookieJarProofs --------------------------
(***************************************************************************)
(* Proofs about CookieJar, for every set of names, values and ttls: a      *)
(* cookie never gets younger, the newest live value is used, and what owes *)
(* no write is on disk.  The invariant relates three pictures of the jar:  *)
(* the one in memory, the one on its way to the file and the file.         *)
(***************************************************************************)
EXTENDS CookieJar, TLAPS

(* No value came in later than now. *)
SeenByNow == \A n \in Names : \A v \in Values : received[n][v] <= now

(* A picture that is behind the jar: where both have an entry, the jar's   *)
(* was captured no earlier.                                                *)
Behind(f) ==
    \A n \in Names : jar[n] # None /\ f[n] # None
                     => f[n].captured <= jar[n].captured

AgeInv ==
    /\ AgeIsReal
    /\ SeenByNow
    /\ Behind(disk)
    /\ writing # None => Behind(writing)

(* A picture that holds what the jar holds. *)
Holds(f) ==
    \A n \in Names : jar[n] # None =>
      /\ f[n] # None
      /\ f[n].value = jar[n].value
      /\ f[n].captured = jar[n].captured
      /\ n \notin resent => f[n] = jar[n]

WriteInv ==
    /\ ~up => jar = Empty
    /\ up /\ ~owed /\ writing = None => Holds(disk)
    /\ up /\ ~owed /\ writing # None => Holds(writing)

-----------------------------------------------------------------------------
(* Pruning only takes entries away, and those it keeps are within limits.  *)
LEMMA PrunedFacts ==
    ASSUME NEW j \in Jars, NEW limit
    PROVE  /\ Pruned(j, limit) \in Jars
           /\ \A n \in Names : Pruned(j, limit)[n] # None =>
                Pruned(j, limit)[n] = j[n] /\ ~Expired(j[n], limit)
           /\ \A n \in Names : Pruned(j, limit)[n] = None =>
                j[n] = None \/ Expired(j[n], limit)
  BY DEF Pruned, Jars

LEMMA ResponseTyped ==
    ASSUME NEW got \in Responses, NEW n \in Names
    PROVE  got[n] \in Cookie \cup {None}
  BY CookieAssumption DEF Responses, Cookie

LEMMA FreshFacts ==
    ASSUME TypeOK, NEW c \in Cookie
    PROVE  /\ Fresh(c) \in Entry
           /\ Fresh(c).value = c.value
           /\ Fresh(c).captured = now
  BY CookieAssumption DEF Fresh, Entry, Cookie, TypeOK

(* What a response leaves under a name: a new entry, or the old one with   *)
(* its value and its age.                                                  *)
LEMMA TakenFacts ==
    ASSUME TypeOK, NEW n \in Names, NEW c \in Cookie \cup {None}
    PROVE  /\ Taken(n, c) \in Entry \cup {None}
           /\ IsUpdate(n, c) => c \in Cookie /\ Taken(n, c) = Fresh(c)
           /\ ~IsUpdate(n, c) => (Taken(n, c) = None <=> jar[n] = None)
           /\ ~IsUpdate(n, c) /\ jar[n] # None =>
                /\ Taken(n, c).value = jar[n].value
                /\ Taken(n, c).captured = jar[n].captured
<1>1. jar[n] \in Entry \cup {None}
  BY DEF TypeOK, Jars
<1>2. CASE ~Accepts(c)
  BY <1>1, <1>2 DEF Taken, IsUpdate
<1>3. CASE IsUpdate(n, c)
  <2>1. c \in Cookie
    BY <1>3 DEF IsUpdate, Accepts
  <2>2. Taken(n, c) = Fresh(c)
    BY <1>3 DEF Taken, IsUpdate
  <2> QED  BY <1>3, <2>1, <2>2, FreshFacts
<1>4. CASE Accepts(c) /\ ~IsUpdate(n, c)
  <2>1. jar[n] \in Entry /\ c \in Cookie
    BY <1>1, <1>4 DEF IsUpdate, Accepts
  <2> DEFINE x == IF c.expires # 0 THEN c.expires ELSE jar[n].expires
  <2>2. Taken(n, c) = [jar[n] EXCEPT !.expires = x]
    BY <1>4 DEF Taken
  <2>3. x \in Nat
    BY <2>1 DEF Entry, Cookie
  <2>4. /\ [jar[n] EXCEPT !.expires = x] \in Entry
        /\ [jar[n] EXCEPT !.expires = x].value = jar[n].value
        /\ [jar[n] EXCEPT !.expires = x].captured = jar[n].captured
    BY <2>1, <2>3 DEF Entry
  <2> QED  BY <1>4, <2>1, <2>2, <2>4, CookieAssumption
<1> QED  BY <1>2, <1>3, <1>4

LEMMA RestoredFacts ==
    ASSUME TypeOK, NEW kept \in Jars, NEW limit, NEW n \in Names
    PROVE  /\ Restored(n, kept, limit) \in Entry \cup {None}
           /\ \/ /\ Restored(n, kept, limit) = kept[n]
                 /\ \/ ~Readable(disk[n], limit)
                    \/ kept[n] # None /\ ~(kept[n].captured <= disk[n].captured)
              \/ /\ Restored(n, kept, limit) = disk[n]
                 /\ Readable(disk[n], limit)
                 /\ kept[n] # None => kept[n].captured <= disk[n].captured
  BY DEF Restored, TypeOK, Jars

(* The jar after a response, name by name.                                 *)
LEMMA ObservedJar ==
    ASSUME TypeOK, NEW got \in Responses, Observe(got)
    PROVE  /\ jar' \in Jars
           /\ \A n \in Names : jar'[n] # None =>
                /\ jar'[n] = Taken(n, got[n])
                /\ jar'[n] \in Entry
<1> DEFINE j == [n \in Names |-> Taken(n, got[n])]
<1>1. j \in Jars
  BY TakenFacts, ResponseTyped DEF Jars
<1>2. jar' = Pruned(j, ttl)
  BY DEF Observe
<1>3. QED
  BY <1>1, <1>2, PrunedFacts DEF Jars

(* The jar after applyConfig, name by name.                                *)
LEMMA AppliedJar ==
    ASSUME TypeOK, NEW limit \in TTLs, NEW reload \in BOOLEAN,
           ApplyConfig(limit, reload)
    PROVE  /\ jar' \in Jars
           /\ Pruned(jar, limit) \in Jars
           /\ \A n \in Names :
                jar'[n] = IF reload THEN Restored(n, Pruned(jar, limit), limit)
                          ELSE Pruned(jar, limit)[n]
<1>1. Pruned(jar, limit) \in Jars
  BY PrunedFacts DEF TypeOK
<1>2. jar' = IF reload
             THEN [n \in Names |-> Restored(n, Pruned(jar, limit), limit)]
             ELSE Pruned(jar, limit)
  BY DEF ApplyConfig
<1>3. \A n \in Names : Restored(n, Pruned(jar, limit), limit) \in Entry \cup {None}
  BY <1>1, RestoredFacts
<1>4. QED
  BY <1>1, <1>2, <1>3 DEF Jars

-----------------------------------------------------------------------------
LEMMA TypeInit == Init => TypeOK
<1> SUFFICES ASSUME Init PROVE TypeOK
  OBVIOUS
<1>1. Empty \in Jars
  BY DEF Empty, Jars
<1>2. Never \in [Names -> [Values -> Nat]]
  BY DEF Never
<1>3. now \in 1..MaxTime
  BY CookieAssumption DEF Init
<1>4. QED
  BY <1>1, <1>2, <1>3 DEF Init, TypeOK

LEMMA TypeStep == TypeOK /\ [Next]_vars => TypeOK'
<1> SUFFICES ASSUME TypeOK, [Next]_vars PROVE TypeOK'
  OBVIOUS
<1>1. ASSUME NEW got \in Responses, Observe(got) PROVE TypeOK'
  <2>1. jar' \in Jars
    BY <1>1, ObservedJar
  <2>2. received' \in [Names -> [Values -> Nat]]
    BY <1>1 DEF Observe, Noted, TypeOK
  <2>3. owed' \in BOOLEAN /\ resent' \subseteq Names
    BY <1>1 DEF Observe, Noted, TypeOK
  <2>4. QED
    BY <1>1, <2>1, <2>2, <2>3 DEF Observe, TypeOK
<1>2. CASE Snapshot
  BY <1>2 DEF Snapshot, TypeOK
<1>3. CASE WriteFile
  BY <1>3 DEF WriteFile, TypeOK
<1>4. CASE WriteTorn
  BY <1>4 DEF WriteTorn, TypeOK, Jars, Empty
<1>5. ASSUME NEW limit \in TTLs, NEW reload \in BOOLEAN,
             ApplyConfig(limit, reload)
      PROVE  TypeOK'
  <2>1. jar' \in Jars
    BY <1>5, AppliedJar
  <2>2. QED
    BY <1>5, <2>1 DEF ApplyConfig, TypeOK
<1>6. CASE Crash
  <2>1. Empty \in Jars
    BY DEF Empty, Jars
  <2>2. QED
    BY <1>6, <2>1 DEF Crash, TypeOK
<1>7. CASE Tick
  BY <1>7, CookieAssumption DEF Tick, TypeOK
<1>8. CASE UNCHANGED vars
  BY <1>8 DEF vars, TypeOK
<1>9. QED
  BY <1>1, <1>2, <1>3, <1>4, <1>5, <1>6, <1>7, <1>8 DEF Next

(* Jar, pictures and file keep their shapes, whatever responses, crashes   *)
(* and reconfigurations come (the jar of cookies.go and its copy).         *)
THEOREM CookieTypeCorrect == Spec => []TypeOK
  BY TypeInit, TypeStep, PTL DEF Spec

-----------------------------------------------------------------------------
(* A value that came in with this response came in now; the ghost of the   *)
(* others stays.                                                           *)
LEMMA NotedFacts ==
    ASSUME TypeOK, SeenByNow, NEW got \in Responses, Noted(got), now' = now
    PROVE  /\ SeenByNow'
           /\ \A n \in Names : \A v \in Values : received[n][v] <= received'[n][v]
           /\ \A n \in Names : IsUpdate(n, got[n])
                => received'[n][got[n].value] = now
<1>1. \A n \in Names : \A v \in Values :
        received'[n][v] = IF Accepts(got[n]) /\ got[n].value = v
                          THEN now ELSE received[n][v]
  BY DEF Noted
<1>2. now \in Nat /\ \A n \in Names : \A v \in Values : received[n][v] \in Nat
  BY DEF TypeOK
<1>3. \A n \in Names : IsUpdate(n, got[n]) => Accepts(got[n]) /\ got[n].value \in Values
  BY ResponseTyped DEF IsUpdate, Accepts, Cookie
<1>4. \A n \in Names : \A v \in Values :
        received'[n][v] <= now /\ received[n][v] <= received'[n][v]
  BY <1>1, <1>2 DEF SeenByNow
<1>5. QED
  BY <1>1, <1>3, <1>4 DEF SeenByNow

(* An entry of the jar after a response is new, or it is the entry from    *)
(* before with its value and its age.                                      *)
LEMMA ObservedEntry ==
    ASSUME TypeOK, NEW got \in Responses, Observe(got), NEW n \in Names,
           jar'[n] # None
    PROVE  \/ /\ IsUpdate(n, got[n])
              /\ got[n] \in Cookie
              /\ jar'[n].value = got[n].value
              /\ jar'[n].captured = now
           \/ /\ ~IsUpdate(n, got[n])
              /\ jar[n] # None
              /\ jar'[n].value = jar[n].value
              /\ jar'[n].captured = jar[n].captured
<1>1. got[n] \in Cookie \cup {None}
  BY ResponseTyped
<1>2. jar'[n] = Taken(n, got[n])
  BY ObservedJar
<1>3. CASE IsUpdate(n, got[n])
  BY <1>1, <1>2, <1>3, TakenFacts, FreshFacts
<1>4. CASE ~IsUpdate(n, got[n])
  BY <1>1, <1>2, <1>4, TakenFacts
<1>5. QED
  BY <1>3, <1>4

(* The facts of AgeInv about a picture survive as long as values come in   *)
(* no earlier.                                                             *)
LEMMA NoYoungerStays ==
    ASSUME NEW f \in Jars, NoYounger(f), TypeOK, TypeOK',
           \A n \in Names : \A v \in Values : received[n][v] <= received'[n][v]
    PROVE  \A n \in Names : f[n] # None
             => f[n].captured <= received'[n][f[n].value]
<1> TAKE n \in Names
<1> HAVE f[n] # None
<1>1. f[n].captured \in Nat /\ f[n].value \in Values
  BY DEF Jars, Entry
<1>2. received[n][f[n].value] \in Nat /\ received'[n][f[n].value] \in Nat
  BY <1>1 DEF TypeOK
<1>3. f[n].captured <= received[n][f[n].value]
  BY DEF NoYounger
<1>4. QED
  BY <1>1, <1>2, <1>3

LEMMA CapturedByNow ==
    ASSUME TypeOK, SeenByNow, NEW f \in Jars, NoYounger(f), NEW n \in Names,
           f[n] # None
    PROVE  f[n].captured \in Nat /\ f[n].captured <= now
<1>1. f[n].captured \in Nat /\ f[n].value \in Values
  BY DEF Jars, Entry
<1>2. received[n][f[n].value] \in Nat /\ now \in Nat
  BY <1>1 DEF TypeOK
<1>3. f[n].captured <= received[n][f[n].value] /\ received[n][f[n].value] <= now
  BY <1>1 DEF NoYounger, SeenByNow
<1>4. QED
  BY <1>1, <1>2, <1>3

LEMMA AgeInit == Init => AgeInv
  BY DEF Init, AgeInv, AgeIsReal, NoYounger, SeenByNow, Behind, Empty, Never

LEMMA AgeObserve ==
    ASSUME TypeOK, TypeOK', AgeInv, NEW got \in Responses, Observe(got)
    PROVE  AgeInv'
<1>1. /\ now' = now /\ disk' = disk /\ writing' = writing
      /\ Noted(got) /\ SeenByNow
  BY DEF Observe, AgeInv
<1>2. /\ SeenByNow'
      /\ \A n \in Names : \A v \in Values : received[n][v] <= received'[n][v]
      /\ \A n \in Names : IsUpdate(n, got[n]) => received'[n][got[n].value] = now
  BY <1>1, NotedFacts
<1>3. now \in Nat /\ jar \in Jars /\ disk \in Jars /\ jar' \in Jars
  BY DEF TypeOK
<1>4. NoYounger(disk)'
  BY <1>1, <1>2, <1>3, NoYoungerStays DEF AgeInv, AgeIsReal, NoYounger
<1>5. (writing # None => NoYounger(writing))'
  BY <1>1, <1>2, NoYoungerStays DEF AgeInv, AgeIsReal, NoYounger, TypeOK
<1>6. NoYounger(jar)'
  <2> SUFFICES ASSUME NEW n \in Names, jar'[n] # None
               PROVE  jar'[n].captured <= received'[n][jar'[n].value]
    BY DEF NoYounger
  <2>1. CASE IsUpdate(n, got[n])
    BY <2>1, <1>2, <1>3, ObservedEntry
  <2>2. CASE ~IsUpdate(n, got[n])
    BY <2>2, <1>2, <1>3, ObservedEntry, NoYoungerStays DEF AgeInv, AgeIsReal
  <2>3. QED
    BY <2>1, <2>2
<1>7. ASSUME NEW f \in Jars, NoYounger(f), Behind(f), NEW n \in Names,
             jar'[n] # None, f[n] # None
      PROVE  f[n].captured <= jar'[n].captured
  <2>1. f[n].captured \in Nat /\ f[n].captured <= now
    BY <1>1, <1>7, CapturedByNow
  <2>2. CASE IsUpdate(n, got[n])
    BY <1>7, <2>1, <2>2, ObservedEntry
  <2>3. CASE ~IsUpdate(n, got[n])
    BY <1>7, <2>3, ObservedEntry DEF Behind
  <2>4. QED
    BY <2>2, <2>3
<1>8. Behind(disk)'
  BY <1>1, <1>3, <1>7 DEF AgeInv, AgeIsReal, Behind
<1>9. (writing # None => Behind(writing))'
  BY <1>1, <1>7 DEF AgeInv, AgeIsReal, Behind, TypeOK
<1>10. QED
  BY <1>2, <1>4, <1>5, <1>6, <1>8, <1>9 DEF AgeInv, AgeIsReal

(* applyConfig: an entry of the jar afterwards was in the jar or in the    *)
(* file, and is no older than what the file has.                           *)
LEMMA AppliedEntry ==
    ASSUME TypeOK, NEW limit \in TTLs, NEW reload \in BOOLEAN,
           ApplyConfig(limit, reload), NEW n \in Names, jar'[n] # None
    PROVE  \/ jar[n] # None /\ jar'[n] = jar[n]
           \/ /\ disk[n] # None /\ jar'[n] = disk[n]
              /\ Readable(disk[n], limit)
              /\ \/ jar[n] = None
                 \/ Expired(jar[n], limit)
                 \/ jar[n].captured <= disk[n].captured
<1> DEFINE kept == Pruned(jar, limit)
<1>1. kept \in Jars /\ jar \in Jars
  BY AppliedJar DEF TypeOK
<1>2. /\ kept[n] # None => kept[n] = jar[n]
      /\ kept[n] = None => jar[n] = None \/ Expired(jar[n], limit)
  BY <1>1, PrunedFacts
<1>3. jar'[n] = IF reload THEN Restored(n, kept, limit) ELSE kept[n]
  BY AppliedJar
<1>4. \/ jar'[n] = kept[n]
      \/ /\ jar'[n] = disk[n] /\ Readable(disk[n], limit)
         /\ kept[n] # None => kept[n].captured <= disk[n].captured
  <2>1. CASE reload
    BY <1>1, <1>3, <2>1, RestoredFacts
  <2>2. CASE ~reload
    BY <1>3, <2>2
  <2>3. QED
    BY <2>1, <2>2
<1>5. QED
  BY <1>2, <1>4 DEF Readable

LEMMA AgeApply ==
    ASSUME TypeOK, TypeOK', AgeInv, NEW limit \in TTLs, NEW reload \in BOOLEAN,
           ApplyConfig(limit, reload)
    PROVE  AgeInv'
<1>1. /\ writing = None /\ writing' = None /\ now' = now /\ disk' = disk
      /\ received' = received
  BY DEF ApplyConfig
<1>2. NoYounger(jar)'
  BY <1>1, AppliedEntry DEF AgeInv, AgeIsReal, NoYounger
<1>3. Behind(disk)'
  <2> SUFFICES ASSUME NEW n \in Names, jar'[n] # None, disk[n] # None
               PROVE  disk[n].captured <= jar'[n].captured
    BY <1>1 DEF Behind
  <2>1. disk[n].captured \in Nat
    BY DEF TypeOK, Jars, Entry
  <2>2. QED
    BY <2>1, AppliedEntry DEF AgeInv, Behind
<1>4. QED
  BY <1>1, <1>2, <1>3 DEF AgeInv, AgeIsReal, NoYounger, SeenByNow

LEMMA AgeCrash == ASSUME TypeOK, AgeInv, Crash PROVE AgeInv'
<1>1. /\ jar' = Empty /\ writing' = None /\ now' = now /\ received' = received
      /\ disk' = disk \/ disk' = Empty \/ (writing # None /\ disk' = writing)
  BY DEF Crash
<1>2. NoYounger(disk)'
  BY <1>1 DEF AgeInv, AgeIsReal, NoYounger, Empty
<1>3. NoYounger(jar)' /\ Behind(disk)'
  BY <1>1 DEF NoYounger, Behind, Empty
<1>4. QED
  BY <1>1, <1>2, <1>3 DEF AgeInv, AgeIsReal, SeenByNow

LEMMA AgeStep ==
    ASSUME TypeOK, TypeOK', AgeInv, [Next]_vars
    PROVE  AgeInv'
<1>1. CASE Snapshot
  <2>1. Behind(writing)'
    <3> SUFFICES ASSUME NEW n \in Names, jar[n] # None
                 PROVE  jar[n].captured <= jar[n].captured
      BY <1>1 DEF Snapshot, Behind
    <3>1. jar[n].captured \in Nat
      BY DEF TypeOK, Jars, Entry
    <3>2. QED
      BY <3>1
  <2>2. QED
    BY <1>1, <2>1 DEF Snapshot, AgeInv, AgeIsReal, NoYounger, SeenByNow, Behind
<1>2. CASE WriteFile
  BY <1>2 DEF WriteFile, AgeInv, AgeIsReal, NoYounger, SeenByNow, Behind
<1>3. CASE WriteTorn
  BY <1>3 DEF WriteTorn, AgeInv, AgeIsReal, NoYounger, SeenByNow, Behind, Empty
<1>4. CASE Tick
  <2>1. SeenByNow'
    BY <1>4 DEF Tick, AgeInv, SeenByNow, TypeOK
  <2>2. QED
    BY <1>4, <2>1 DEF Tick, AgeInv, AgeIsReal, NoYounger, Behind
<1>5. CASE UNCHANGED vars
  BY <1>5 DEF vars, AgeInv, AgeIsReal, NoYounger, SeenByNow, Behind
<1>6. QED
  BY <1>1, <1>2, <1>3, <1>4, <1>5, AgeObserve, AgeApply, AgeCrash DEF Next

LEMMA AgeInvariant == Spec => [](TypeOK /\ AgeInv)
<1>1. TypeOK /\ AgeInv /\ [Next]_vars => (TypeOK /\ AgeInv)'
  BY TypeStep, AgeStep
<1>2. QED
  BY <1>1, TypeInit, AgeInit, PTL DEF Spec

(* No restart and no reload makes a cookie look younger than the response  *)
(* it last came with: restore keeps CapturedAt (cookies.go).               *)
THEOREM CookieAgeIsReal == Spec => []AgeIsReal
  BY AgeInvariant, PTL DEF AgeInv

-----------------------------------------------------------------------------
(* A value that stays in the jar keeps its age: observe does not renew     *)
(* what comes again, and restore brings back no later capture of it.       *)
THEOREM CookiesNeverRenew == Spec => ResendingNeverRenews
<1> DEFINE Kept == \A n \in Names :
              /\ up /\ up' /\ jar[n] # None /\ jar'[n] # None
              /\ jar'[n].value = jar[n].value
              => jar'[n].captured <= jar[n].captured
<1>1. ASSUME TypeOK, AgeInv, Next PROVE Kept
  <2> SUFFICES ASSUME NEW n \in Names, up, up', jar[n] # None, jar'[n] # None,
                      jar'[n].value = jar[n].value
               PROVE  jar'[n].captured <= jar[n].captured
    OBVIOUS
  <2>1. jar[n].captured \in Nat
    BY <1>1 DEF TypeOK, Jars, Entry
  <2>2. ASSUME NEW got \in Responses, Observe(got)
        PROVE  jar'[n].captured = jar[n].captured
    BY <1>1, <2>2, ObservedEntry DEF IsUpdate
  <2>3. ASSUME NEW limit \in TTLs, NEW reload \in BOOLEAN,
               ApplyConfig(limit, reload)
        PROVE  jar'[n].captured <= jar[n].captured
    BY <1>1, <2>1, <2>3, AppliedEntry DEF AgeInv, Behind
  <2>4. CASE jar' = jar
    BY <2>1, <2>4
  <2>5. QED
    BY <1>1, <2>1, <2>2, <2>3, <2>4
       DEF Next, Snapshot, WriteFile, WriteTorn, Crash, Tick
<1>2. TypeOK /\ AgeInv /\ [Next]_vars => [Kept]_vars
  BY <1>1
<1>3. QED
  BY <1>2, AgeInvariant, PTL DEF Spec, ResendingNeverRenews

(* While the process lives, a live entry is never replaced by an older     *)
(* one: a response brings a new capture, and restore loses to a later one  *)
(* that the ttl in force leaves in the jar (cookies.go).                   *)
THEOREM NewestCookieWins == Spec => NewestWins
<1> DEFINE Won == \A n \in Names :
              up /\ up' /\ Live(n) /\ Live(n)'
              => jar'[n].captured >= jar[n].captured
<1>1. ASSUME TypeOK, TypeOK', AgeInv, Next PROVE Won
  <2> SUFFICES ASSUME NEW n \in Names, up, up', Live(n), Live(n)'
               PROVE  jar'[n].captured >= jar[n].captured
    OBVIOUS
  <2>1. jar[n] # None /\ jar'[n] # None /\ ~Expired(jar[n], ttl)
    BY DEF Live
  <2>2. jar[n].captured \in Nat /\ jar[n].captured <= now /\ now \in Nat
    <3>1. jar \in Jars /\ NoYounger(jar) /\ SeenByNow /\ now \in Nat
      BY <1>1 DEF TypeOK, AgeInv, AgeIsReal
    <3>2. QED
      BY <1>1, <2>1, <3>1, CapturedByNow
  <2>3. ASSUME NEW got \in Responses, Observe(got)
        PROVE  jar'[n].captured >= jar[n].captured
    BY <1>1, <2>1, <2>2, <2>3, ObservedEntry
  <2>4. ASSUME NEW limit \in TTLs, NEW reload \in BOOLEAN,
               ApplyConfig(limit, reload)
        PROVE  jar'[n].captured >= jar[n].captured
    <3>1. CASE jar'[n] = jar[n]
      BY <2>2, <3>1
    <3>2. CASE /\ disk[n] # None /\ jar'[n] = disk[n]
               /\ Readable(disk[n], limit)
               /\ \/ jar[n] = None
                  \/ Expired(jar[n], limit)
                  \/ jar[n].captured <= disk[n].captured
      <4>1. disk[n].captured \in Nat /\ limit \in Nat
        BY <1>1, <3>2, CookieAssumption DEF TypeOK, Jars, Entry
      <4>2. now < disk[n].captured + limit
        BY <1>1, <2>2, <3>2, <4>1 DEF Readable, Expired
      <4>3. CASE Expired(jar[n], limit)
        <5>1. now >= jar[n].captured + limit
          BY <2>1, <4>3 DEF Expired
        <5>2. QED
          BY <2>2, <3>2, <4>1, <4>2, <5>1
      <4>4. CASE jar[n].captured <= disk[n].captured
        BY <2>2, <3>2, <4>1, <4>4
      <4>5. QED
        BY <2>1, <3>2, <4>3, <4>4
    <3>3. QED
      BY <1>1, <2>1, <2>4, <3>1, <3>2, AppliedEntry
  <2>5. CASE jar' = jar
    BY <2>2, <2>5
  <2>6. QED
    BY <1>1, <2>3, <2>4, <2>5
       DEF Next, Snapshot, WriteFile, WriteTorn, Crash, Tick
<1>2. TypeOK /\ TypeOK' /\ AgeInv /\ [Next]_vars => [Won]_vars
  BY <1>1
<1>3. QED
  BY <1>2, AgeInvariant, PTL DEF Spec, NewestWins

-----------------------------------------------------------------------------
LEMMA WriteInit == Init => WriteInv
  BY DEF Init, WriteInv

LEMMA WriteObserve ==
    ASSUME TypeOK, WriteInv, NEW got \in Responses, Observe(got)
    PROVE  WriteInv'
<1>1. up /\ up' /\ writing' = writing /\ disk' = disk
  BY DEF Observe
<1>2. ASSUME ~owed', NEW n \in Names, jar'[n] # None
      PROVE  /\ ~owed /\ jar[n] # None
             /\ jar'[n].value = jar[n].value
             /\ jar'[n].captured = jar[n].captured
             /\ n \notin resent' => n \notin resent /\ jar'[n] = jar[n]
  <2>1. ~owed /\ ~IsUpdate(n, got[n])
    BY <1>2 DEF Observe
  <2>2. n \notin resent' => n \notin resent /\ Taken(n, got[n]) = jar[n]
    BY <2>1 DEF Observe, Noted
  <2>3. jar'[n] = Taken(n, got[n])
    BY <1>2, ObservedJar
  <2>4. QED
    BY <1>2, <2>1, <2>2, <2>3, ObservedEntry
<1>3. QED
  BY <1>1, <1>2 DEF WriteInv, Holds

LEMMA WriteApply ==
    ASSUME TypeOK, WriteInv, NEW limit \in TTLs, NEW reload \in BOOLEAN,
           ApplyConfig(limit, reload)
    PROVE  WriteInv'
<1>1. up' /\ writing = None /\ writing' = None /\ disk' = disk /\ owed' = owed
      /\ resent' = resent
  BY DEF ApplyConfig
<1>2. \A n \in Names : ~up => jar[n] = None
  BY DEF WriteInv, Empty
<1>3. ASSUME ~owed, NEW n \in Names, jar'[n] # None
      PROVE  /\ disk[n] # None
             /\ disk[n].value = jar'[n].value
             /\ disk[n].captured = jar'[n].captured
             /\ n \notin resent => disk[n] = jar'[n]
  <2>1. CASE jar[n] # None /\ jar'[n] = jar[n]
    BY <1>1, <1>2, <1>3, <2>1 DEF WriteInv, Holds
  <2>2. CASE disk[n] # None /\ jar'[n] = disk[n]
    BY <2>2
  <2>3. QED
    BY <1>3, <2>1, <2>2, AppliedEntry
<1>4. QED
  BY <1>1, <1>3 DEF WriteInv, Holds

LEMMA WriteStep == ASSUME TypeOK, WriteInv, [Next]_vars PROVE WriteInv'
<1>1. CASE Snapshot
  BY <1>1, CookieAssumption DEF Snapshot, WriteInv, Holds, TypeOK, Jars
<1>2. CASE WriteFile
  BY <1>2 DEF WriteFile, WriteInv, Holds
<1>3. CASE WriteTorn
  BY <1>3 DEF WriteTorn, WriteInv
<1>4. CASE Crash
  BY <1>4 DEF Crash, WriteInv
<1>5. CASE Tick
  BY <1>5 DEF Tick, WriteInv, Holds
<1>6. CASE UNCHANGED vars
  BY <1>6 DEF vars, WriteInv, Holds
<1>7. QED
  BY <1>1, <1>2, <1>3, <1>4, <1>5, <1>6, WriteObserve, WriteApply DEF Next

(* Once no write is owed or under way, each value in the jar is in the     *)
(* file with its age (observeCookies persists every changed value), and a  *)
(* restart gives back every live cookie whose expiry alone has not changed.*)
THEOREM CookieUpdatesSurvive == Spec => []UpdatesSurvive
<1>1. TypeOK /\ WriteInv /\ [Next]_vars => (TypeOK /\ WriteInv)'
  BY TypeStep, WriteStep
<1>2. TypeOK /\ AgeInv /\ WriteInv => UpdatesSurvive
  <2> SUFFICES ASSUME TypeOK, AgeInv, WriteInv, up, ~owed, writing = None,
                      NEW n \in Names, jar[n] # None
               PROVE  /\ disk[n] # None
                      /\ disk[n].value = jar[n].value
                      /\ disk[n].captured = jar[n].captured
                      /\ Live(n) /\ n \notin resent => Restored(n, Empty, ttl) = jar[n]
    BY DEF UpdatesSurvive
  <2>1. /\ disk[n] # None
        /\ disk[n].value = jar[n].value
        /\ disk[n].captured = jar[n].captured
        /\ n \notin resent => disk[n] = jar[n]
    BY DEF WriteInv, Holds
  <2>2. jar[n].captured <= now
    <3>1. jar \in Jars /\ NoYounger(jar) /\ SeenByNow
      BY DEF TypeOK, AgeInv, AgeIsReal
    <3>2. QED
      BY <3>1, CapturedByNow
  <2>3. ASSUME Live(n), n \notin resent PROVE Restored(n, Empty, ttl) = jar[n]
    <3>1. Readable(disk[n], ttl) /\ disk[n] = jar[n]
      BY <2>1, <2>2, <2>3 DEF Live, Readable
    <3>2. Empty[n] = None
      BY DEF Empty
    <3>3. QED
      BY <3>1, <3>2 DEF Restored
  <2>4. QED
    BY <2>1, <2>3
<1>3. QED
  BY <1>1, <1>2, TypeInit, WriteInit, AgeInvariant, PTL DEF Spec

=============================================================================
