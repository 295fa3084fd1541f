------------------------- MODULE TicketCacheProofs -------------------------
(***************************************************************************)
(* The age of tickets for every set of keys and tickets, every assignment  *)
(* of issue times, every ttl and any number of crashes and mode switches.  *)
(***************************************************************************)
EXTENDS TicketCache, TLAPS

ObservedInPast == \A k \in Keys, s \in Tickets : observed[k][s] <= now

AgeInv == TypeOK /\ ObservedInPast /\ NeverRenewed

-----------------------------------------------------------------------------
(* What reissuing, rearming and restoring make of an entry: itself with    *)
(* another issue time, or nothing.                                         *)
LEMMA ReissuedFacts ==
    ASSUME NEW e \in Entry, NEW mode \in BOOLEAN
    PROVE  /\ Reissued(e, mode) \in Entry
           /\ Reissued(e, mode).state = e.state
           /\ Reissued(e, mode).stored = e.stored
           /\ Reissued(e, mode).manual = e.manual
           /\ Reissued(e, mode).issued = IF mode THEN IssueOf[e.state] ELSE 0
           /\ Reissued(e, mode) # None
  <1>1. e = [state |-> e.state, stored |-> e.stored, issued |-> e.issued,
             manual |-> e.manual]
    BY DEF Entry
  <1>2. Reissued(e, mode) =
          [state |-> e.state, stored |-> e.stored,
           issued |-> IF mode THEN IssueOf[e.state] ELSE 0, manual |-> e.manual]
    BY <1>1 DEF Reissued
  <1>3. QED
    BY <1>2, TicketAssumption DEF Entry

LEMMA RearmFacts ==
    ASSUME NEW e \in Entry \cup {None}, NEW mode \in BOOLEAN
    PROVE  /\ Rearm(e, mode) \in Entry \cup {None}
           /\ Rearm(e, mode) # None =>
                /\ e # None /\ Plausible(e, mode)
                /\ Rearm(e, mode) = Reissued(e, mode)
  BY ReissuedFacts DEF Rearm

LEMMA RestoreFacts ==
    ASSUME NEW e \in Entry \cup {None}, NEW mode \in BOOLEAN, NEW limit
    PROVE  /\ Restore(e, mode, limit) \in Entry \cup {None}
           /\ Restore(e, mode, limit) # None =>
                /\ e # None /\ Plausible(e, mode)
                /\ Restore(e, mode, limit) = Reissued(e, mode)
  BY ReissuedFacts DEF Restore

LEMMA EntriesAreEntries ==
    ASSUME TypeOK, NEW k \in Keys
    PROVE  /\ entries[k] \in Entry \cup {None}
           /\ disk.entries[k] \in Entry \cup {None}
  BY DEF TypeOK, Slots

LEMMA NewEntryFacts ==
    ASSUME TypeOK, NEW s \in Tickets, NEW manual \in BOOLEAN
    PROVE  /\ NewEntry(s, manual) \in Entry
           /\ NewEntry(s, manual).state = s
           /\ NewEntry(s, manual).stored = now
           /\ NewEntry(s, manual).issued = IF issuedMode THEN IssueOf[s] ELSE 0
           /\ NewEntry(s, manual).manual = manual
  BY TicketAssumption DEF NewEntry, Entry, TypeOK

LEMMA NewIsSomething == \A e \in Entry : e # None
  BY TicketAssumption DEF Entry

-----------------------------------------------------------------------------
(* A step that puts at most a new entry into the cache. *)
LEMMA PutStep ==
    ASSUME AgeInv, NEW k \in Keys, NEW s \in Tickets, NEW manual \in BOOLEAN,
           Observed(k, s),
           entries' \in {entries, [entries EXCEPT ![k] = NewEntry(s, manual)]},
           dirty' = TRUE, UNCHANGED <<now, config, probed, file>>
    PROVE  AgeInv'
  <1> USE DEF AgeInv, config, file
  <1>1. /\ observed' \in [Keys -> [Tickets -> Nat]]
        /\ \A j \in Keys, t \in Tickets :
             /\ observed[j][t] <= observed'[j][t]
             /\ observed'[j][t] <= now
        /\ observed'[k][s] = now
    BY DEF Observed, TypeOK, ObservedInPast
  <1>2. entries' \in Slots
    BY NewEntryFacts DEF TypeOK, Slots
  <1>3. TypeOK'
    <2>1. dirty' \in BOOLEAN
      OBVIOUS
    <2>2. QED
      BY <1>1, <1>2, <2>1 DEF TypeOK
  <1>4. ObservedInPast'
    BY <1>1 DEF ObservedInPast
  <1>5. \A j \in Keys : entries'[j] # None =>
          entries'[j].stored <= observed'[j][entries'[j].state]
    <2>1. TAKE j \in Keys
    <2>2. HAVE entries'[j] # None
    <2>3. CASE entries'[j] = entries[j]
      <3>1. /\ entries[j] \in Entry
            /\ entries[j].stored <= observed[j][entries[j].state]
        BY <2>2, <2>3 DEF TypeOK, Slots, NeverRenewed
      <3>2. QED
        BY <1>1, <2>3, <3>1 DEF Entry, TypeOK
    <2>4. CASE j = k /\ entries'[j] = NewEntry(s, manual)
      BY <1>1, <2>4, NewEntryFacts DEF TypeOK
    <2>5. QED
      BY <2>3, <2>4 DEF TypeOK, Slots
  <1>6. \A j \in Keys : disk.entries[j] # None =>
          disk.entries[j].stored <= observed'[j][disk.entries[j].state]
    <2>1. TAKE j \in Keys
    <2>2. HAVE disk.entries[j] # None
    <2>3. /\ disk.entries[j] \in Entry
          /\ disk.entries[j].stored <= observed[j][disk.entries[j].state]
      BY <2>2 DEF TypeOK, Slots, NeverRenewed
    <2>4. QED
      BY <1>1, <2>3 DEF Entry, TypeOK
  <1>7. QED
    BY <1>3, <1>4, <1>5, <1>6 DEF NeverRenewed

LEMMA AgeInit == Init => AgeInv
  <1> SUFFICES ASSUME Init PROVE AgeInv
    OBVIOUS
  <1> USE TicketAssumption DEF Init, Nothing
  <1>1. entries \in Slots /\ disk \in [entries : Slots, logs : BOOLEAN]
    BY DEF Slots
  <1>2. /\ up \in BOOLEAN /\ issuedMode \in BOOLEAN /\ probed \in BOOLEAN
        /\ dirty \in BOOLEAN /\ fileMode \in BOOLEAN
    OBVIOUS
  <1>3. now \in 1..MaxTime /\ observed \in [Keys -> [Tickets -> Nat]]
    OBVIOUS
  <1>4. TypeOK
    BY <1>1, <1>2, <1>3 DEF TypeOK
  <1>5. ObservedInPast /\ NeverRenewed
    BY DEF ObservedInPast, NeverRenewed
  <1>6. QED
    BY <1>4, <1>5 DEF AgeInv

(* Each step but Store and PutManual leaves an entry, in memory and on     *)
(* file, as it was, with another issue time, or drops it.                  *)
LEMMA KeepStep ==
    ASSUME AgeInv, TypeOK', UNCHANGED observed, now <= now',
           \A k \in Keys : entries'[k] # None =>
             \E e \in {entries[k], disk.entries[k]} :
               e # None /\ entries'[k].stored = e.stored /\ entries'[k].state = e.state,
           \A k \in Keys :
             disk.entries'[k] \in {None, entries[k], disk.entries[k]}
    PROVE  AgeInv'
  <1> USE DEF AgeInv
  <1>1. ObservedInPast'
    BY DEF ObservedInPast, TypeOK
  <1>2. ASSUME NEW k \in Keys, entries'[k] # None
        PROVE  entries'[k].stored <= observed[k][entries'[k].state]
    BY <1>2 DEF NeverRenewed
  <1>3. ASSUME NEW k \in Keys, disk.entries'[k] # None
        PROVE  disk.entries'[k].stored <= observed[k][disk.entries'[k].state]
    BY <1>3 DEF NeverRenewed
  <1>4. QED
    BY <1>1, <1>2, <1>3 DEF NeverRenewed

LEMMA AgeStep == AgeInv /\ [Next]_vars => AgeInv'
  <1> SUFFICES ASSUME AgeInv, [Next]_vars PROVE AgeInv'
    OBVIOUS
  <1> USE DEF AgeInv, config, file
  <1>e. \A k \in Keys : /\ entries[k] \in Entry \cup {None}
                        /\ disk.entries[k] \in Entry \cup {None}
    BY EntriesAreEntries
  <1>1. ASSUME NEW k \in Keys, NEW s \in Tickets, NEW refresh \in BOOLEAN,
               Store(k, s, refresh)
        PROVE  AgeInv'
    BY <1>1, PutStep DEF Store
  <1>2. ASSUME NEW k \in Keys, NEW s \in Tickets, PutManual(k, s)
        PROVE  AgeInv'
    BY <1>2, PutStep DEF PutManual
  <1>3. ASSUME NEW log \in BOOLEAN, Persist(log)
        PROVE  AgeInv'
    <2>1. TypeOK'
      <3>1. probed' \in BOOLEAN
        BY <1>3 DEF Persist, TypeOK
      <3>2. /\ disk' \in [entries : Slots, logs : BOOLEAN] /\ dirty' \in BOOLEAN
            /\ fileMode' \in BOOLEAN
        BY <1>3, <3>1 DEF Persist, TypeOK
      <3>3. QED
        BY <1>3, <3>1, <3>2 DEF Persist, TypeOK
    <2>2. disk'.entries = entries
      BY <1>3 DEF Persist
    <2>3. QED
      BY <1>3, <2>1, <2>2 DEF Persist, ObservedInPast, NeverRenewed
  <1>4. ASSUME NEW log \in BOOLEAN, PersistTorn(log)
        PROVE  AgeInv'
    <2>1. TypeOK'
      <3>1. probed' \in BOOLEAN
        BY <1>4 DEF PersistTorn, TypeOK
      <3>2. disk' \in [entries : Slots, logs : BOOLEAN] /\ dirty' \in BOOLEAN
        BY <1>4 DEF PersistTorn, Nothing, Slots
      <3>3. QED
        BY <1>4, <3>1, <3>2 DEF PersistTorn, TypeOK
    <2>2. \A k \in Keys : disk'.entries[k] = None
      BY <1>4 DEF PersistTorn, Nothing
    <2>3. QED
      BY <1>4, <2>1, <2>2 DEF PersistTorn, ObservedInPast, NeverRenewed
  <1>5. ASSUME NEW limit \in TTLs, Reconfigure(limit)
        PROVE  AgeInv'
    <2>1. \A k \in Keys : entries'[k] \in {None, entries[k]}
      BY <1>5 DEF Reconfigure
    <2>2. TypeOK'
      <3>1. entries' \in Slots
        BY <1>5, <1>e DEF Reconfigure, Slots
      <3>2. QED
        BY <1>5, <3>1 DEF Reconfigure, TypeOK
    <2>3. UNCHANGED <<now, disk, observed>> /\ now \in Nat
      BY <1>5 DEF Reconfigure, TypeOK
    <2>4. QED
      BY <2>1, <2>2, <2>3, KeepStep
  <1>6. ASSUME NEW mode \in BOOLEAN, ConfigureIssuedAt(mode)
        PROVE  AgeInv'
    <2>1. \A k \in Keys : entries'[k] = Rearm(entries[k], mode)
      BY <1>6 DEF ConfigureIssuedAt
    <2>2. TypeOK'
      <3>1. entries' \in Slots
        BY <1>6, <1>e, <2>1, RearmFacts DEF ConfigureIssuedAt, Slots
      <3>2. QED
        BY <1>6, <3>1 DEF ConfigureIssuedAt, TypeOK
    <2>3. UNCHANGED <<now, disk, observed>> /\ now \in Nat
      BY <1>6 DEF ConfigureIssuedAt, TypeOK
    <2>4. \A k \in Keys : entries'[k] # None =>
            /\ entries[k] # None
            /\ entries'[k].stored = entries[k].stored
            /\ entries'[k].state = entries[k].state
      BY <1>e, <2>1, RearmFacts, ReissuedFacts
    <2>5. QED
      BY <2>2, <2>3, <2>4, KeepStep
  <1>7. CASE CheckEmpty
    <2>1. TypeOK'
      BY <1>7 DEF CheckEmpty, TypeOK
    <2>2. UNCHANGED <<now, entries, disk, observed>> /\ now \in Nat
      BY <1>7 DEF CheckEmpty, TypeOK
    <2>3. QED
      BY <2>1, <2>2, KeepStep
  <1>8. ASSUME NEW j \in Keys, RestoreEntry(j)
        PROVE  AgeInv'
    <2> DEFINE e == Restore(disk.entries[j], issuedMode, ttl)
    <2>1. /\ e \in Entry \cup {None}
          /\ e # None => /\ disk.entries[j] # None
                         /\ e.stored = disk.entries[j].stored
                         /\ e.state = disk.entries[j].state
      <3>1. issuedMode \in BOOLEAN
        BY DEF TypeOK
      <3>2. QED
        <4>1. /\ e \in Entry \cup {None}
              /\ e # None => /\ disk.entries[j] # None
                             /\ e = Reissued(disk.entries[j], issuedMode)
          BY <1>e, <3>1, RestoreFacts
        <4>2. disk.entries[j] # None =>
                LET r == Reissued(disk.entries[j], issuedMode)
                IN  r.stored = disk.entries[j].stored /\ r.state = disk.entries[j].state
          BY <1>e, <3>1, ReissuedFacts
        <4> HIDE DEF e
        <4>3. QED
          BY <4>1, <4>2
    <2>2. entries' = IF e = None THEN entries ELSE [entries EXCEPT ![j] = e]
      BY <1>8 DEF RestoreEntry
    <2> HIDE DEF e
    <2>3. TypeOK'
      <3>1. entries' \in Slots
        BY <2>1, <2>2 DEF TypeOK, Slots
      <3>2. QED
        BY <1>8, <3>1 DEF RestoreEntry, TypeOK
    <2>4. UNCHANGED <<now, disk, observed>> /\ now \in Nat
      BY <1>8 DEF RestoreEntry, TypeOK
    <2>5. \A k \in Keys : entries'[k] # None =>
            \E o \in {entries[k], disk.entries[k]} :
              o # None /\ entries'[k].stored = o.stored /\ entries'[k].state = o.state
      BY <2>1, <2>2 DEF TypeOK, Slots
    <2>6. QED
      BY <2>3, <2>4, <2>5, KeepStep
  <1>9. CASE Crash
    <2>1. TypeOK'
      <3>1. /\ entries' \in Slots
            /\ up' \in BOOLEAN /\ probed' \in BOOLEAN /\ dirty' \in BOOLEAN
        BY <1>9 DEF Crash, Nothing, Slots
      <3>2. QED
        BY <1>9, <3>1 DEF Crash, TypeOK
    <2>2. QED
      BY <1>9, <2>1 DEF Crash, Nothing, ObservedInPast, NeverRenewed
  <1>10. CASE Tick
    <2>1. TypeOK'
      BY <1>10, TicketAssumption DEF Tick, TypeOK
    <2>2. QED
      BY <1>10, <2>1 DEF Tick, TypeOK, ObservedInPast, NeverRenewed
  <1>11. CASE UNCHANGED vars
    BY <1>11 DEF vars, TypeOK, ObservedInPast, NeverRenewed
  <1>12. QED
    BY <1>1, <1>2, <1>3, <1>4, <1>5, <1>6, <1>7, <1>8, <1>9, <1>10, <1>11 DEF Next

LEMMA AgeHolds == Spec => []AgeInv
  BY AgeInit, AgeStep, PTL DEF Spec

(* The cache and its file keep their shapes. *)
THEOREM TicketTypeCorrect == Spec => []TypeOK
  <1>1. AgeInv => TypeOK
    BY DEF AgeInv
  <1>2. QED
    BY <1>1, AgeHolds, PTL

(* No restart, reload or mode switch makes a ticket look younger than its  *)
(* last observation.                                                       *)
THEOREM RestartNeverRenews == Spec => []NeverRenewed
  <1>1. AgeInv => NeverRenewed
    BY DEF AgeInv
  <1>2. QED
    BY <1>1, AgeHolds, PTL
-----------------------------------------------------------------------------
(* Issue times follow the mode. *)
LEMMA IssueStep ==
    TypeOK /\ IssueTimesMatchMode /\ [Next]_vars => IssueTimesMatchMode'
  <1> SUFFICES ASSUME TypeOK, IssueTimesMatchMode, [Next]_vars
               PROVE  IssueTimesMatchMode'
    OBVIOUS
  <1> USE TicketAssumption DEF config, file
  <1> DEFINE Fits(e, mode) ==
        IF mode
        THEN /\ e.issued = IssueOf[e.state]
             /\ e.issued # 0
             /\ e.issued <= now + Skew
        ELSE e.issued = 0
  <1>a. \A k \in Keys : entries[k] # None => Fits(entries[k], issuedMode)
    BY DEF IssueTimesMatchMode
  <1>b. ASSUME \A k \in Keys : entries'[k] # None => Fits(entries'[k], issuedMode'),
               UNCHANGED now
        PROVE  IssueTimesMatchMode'
    BY <1>b DEF IssueTimesMatchMode
  <1>c. ASSUME NEW e \in Entry, NEW mode \in BOOLEAN, Plausible(e, mode)
        PROVE  Fits(Reissued(e, mode), mode)
    BY <1>c, ReissuedFacts DEF Plausible
  <1>1. ASSUME NEW k \in Keys, NEW s \in Tickets, NEW manual \in BOOLEAN,
               Admits(s),
               entries' \in {entries, [entries EXCEPT ![k] = NewEntry(s, manual)]},
               UNCHANGED <<now, issuedMode>>
        PROVE  IssueTimesMatchMode'
    <2>1. ASSUME NEW j \in Keys, entries'[j] # None
          PROVE  Fits(entries'[j], issuedMode)
      <3>1. CASE entries'[j] = entries[j]
        BY <1>a, <2>1, <3>1
      <3>2. CASE entries'[j] = NewEntry(s, manual)
        BY <1>1, <3>2, NewEntryFacts DEF Admits
      <3>3. QED
        BY <1>1, <3>1, <3>2 DEF TypeOK, Slots
    <2> HIDE DEF Fits
    <2>2. QED
      BY <1>1, <1>b, <2>1
  <1>2. ASSUME NEW k \in Keys, NEW s \in Tickets, NEW refresh \in BOOLEAN,
               Store(k, s, refresh)
        PROVE  IssueTimesMatchMode'
    <2>1. CASE Admits(s)
      BY <1>1, <1>2, <2>1 DEF Store
    <2>2. CASE ~Admits(s)
      BY <1>2, <2>2 DEF Store, IssueTimesMatchMode
    <2>3. QED
      BY <2>1, <2>2
  <1>3. ASSUME NEW k \in Keys, NEW s \in Tickets, PutManual(k, s)
        PROVE  IssueTimesMatchMode'
    BY <1>1, <1>3 DEF PutManual
  <1>4. ASSUME NEW limit \in TTLs, Reconfigure(limit)
        PROVE  IssueTimesMatchMode'
    <2>1. /\ \A k \in Keys : entries'[k] \in {None, entries[k]}
          /\ UNCHANGED <<now, issuedMode>>
      BY <1>4 DEF Reconfigure
    <2>2. \A k \in Keys : entries'[k] # None => Fits(entries'[k], issuedMode)
      BY <1>a, <2>1
    <2> HIDE DEF Fits
    <2>3. QED
      BY <1>b, <2>1, <2>2
  <1>5. ASSUME NEW mode \in BOOLEAN, ConfigureIssuedAt(mode)
        PROVE  IssueTimesMatchMode'
    <2> HIDE DEF Fits
    <2>1. /\ \A k \in Keys : entries'[k] = Rearm(entries[k], mode)
          /\ issuedMode' = mode /\ now' = now
      BY <1>5 DEF ConfigureIssuedAt
    <2>2. ASSUME NEW k \in Keys, entries'[k] # None
          PROVE  Fits(entries'[k], mode)
      BY <1>c, <2>1, <2>2, RearmFacts, EntriesAreEntries
    <2>3. QED
      BY <1>b, <2>1, <2>2
  <1>6. ASSUME NEW j \in Keys, RestoreEntry(j)
        PROVE  IssueTimesMatchMode'
    <2> HIDE DEF Fits
    <2> DEFINE e == Restore(disk.entries[j], issuedMode, ttl)
    <2>1. e # None => Fits(e, issuedMode)
      <3>1. issuedMode \in BOOLEAN
        BY DEF TypeOK
      <3>2. QED
        BY <1>c, <3>1, RestoreFacts, EntriesAreEntries
    <2>2. entries' = (IF e = None THEN entries ELSE [entries EXCEPT ![j] = e])
          /\ UNCHANGED <<now, issuedMode>>
      BY <1>6 DEF RestoreEntry
    <2> HIDE DEF e
    <2>3. \A k \in Keys : entries'[k] # None => Fits(entries'[k], issuedMode)
      BY <1>a, <2>1, <2>2 DEF TypeOK, Slots
    <2>4. QED
      BY <1>b, <2>2, <2>3
  <1>7. CASE UNCHANGED <<now, entries, issuedMode>>
    BY <1>7 DEF IssueTimesMatchMode
  <1>8. CASE Crash
    BY <1>8 DEF Crash, Nothing, IssueTimesMatchMode
  <1>9. CASE Tick
    <2>1. \A k \in Keys : entries[k] # None => entries[k].issued \in Nat
      BY DEF TypeOK, Slots, Entry
    <2>2. QED
      BY <1>9, <2>1 DEF Tick, TypeOK, IssueTimesMatchMode
  <1>10. QED
    BY <1>2, <1>3, <1>4, <1>5, <1>6, <1>7, <1>8, <1>9
       DEF Next, Persist, PersistTorn, CheckEmpty, vars

(* What lookup compares is the issue time under use_issued_at and the      *)
(* storing time without it, whatever mode wrote the file.                  *)
THEOREM IssueTimesFollowMode == Spec => []IssueTimesMatchMode
  <1>1. Init => IssueTimesMatchMode
    BY DEF Init, Nothing, IssueTimesMatchMode
  <1>2. QED
    BY <1>1, IssueStep, TicketTypeCorrect, PTL DEF Spec

-----------------------------------------------------------------------------
(* What survives a crash: the file has every ticket in memory with its     *)
(* state and its age, and the issue times of the mode it was written under.*)
DownIsEmpty == ~up => stage = "idle" /\ \A k \in Keys : entries[k] = None

OnFile ==
    up /\ ~dirty =>
      \A k \in Keys : entries[k] # None =>
        /\ disk.entries[k] # None
        /\ disk.entries[k].state = entries[k].state
        /\ disk.entries[k].stored = entries[k].stored
        /\ disk.entries[k].manual = entries[k].manual

FileTimes ==
    \A k \in Keys : disk.entries[k] # None =>
      disk.entries[k].issued =
        IF fileMode THEN IssueOf[disk.entries[k].state] ELSE 0

WrittenInv == OnFile /\ DownIsEmpty /\ FileTimes

LEMMA DownStep == DownIsEmpty /\ [Next]_vars => DownIsEmpty'
  <1> SUFFICES ASSUME DownIsEmpty, [Next]_vars PROVE DownIsEmpty'
    OBVIOUS
  <1> USE DEF DownIsEmpty, config
  <1>1. ASSUME up, up' PROVE DownIsEmpty'
    BY <1>1
  <1>2. CASE (\E limit \in TTLs : Reconfigure(limit)) \/ Crash
    BY <1>2 DEF Reconfigure, Crash, Nothing
  <1>3. CASE CheckEmpty
    BY <1>1, <1>3 DEF CheckEmpty
  <1>4. ASSUME NEW k \in Keys, RestoreEntry(k) PROVE DownIsEmpty'
    BY <1>1, <1>4 DEF RestoreEntry
  <1>5. CASE Tick \/ UNCHANGED vars
    BY <1>5 DEF Tick, vars
  <1>6. ASSUME up, UNCHANGED config PROVE DownIsEmpty'
    BY <1>1, <1>6
  <1>7. ASSUME NEW mode \in BOOLEAN, ConfigureIssuedAt(mode) PROVE DownIsEmpty'
    BY <1>1, <1>7 DEF ConfigureIssuedAt
  <1>8. QED
    BY <1>2, <1>3, <1>4, <1>5, <1>6, <1>7
       DEF Next, Store, PutManual, Persist, PersistTorn

LEMMA FileTimesStep ==
    IssueTimesMatchMode /\ FileTimes /\ [Next]_vars => FileTimes'
  <1> SUFFICES ASSUME IssueTimesMatchMode, FileTimes, [Next]_vars
               PROVE  FileTimes'
    OBVIOUS
  <1>1. ASSUME NEW log \in BOOLEAN, Persist(log) PROVE FileTimes'
    BY <1>1 DEF Persist, FileTimes, IssueTimesMatchMode
  <1>2. ASSUME NEW log \in BOOLEAN, PersistTorn(log) PROVE FileTimes'
    BY <1>2 DEF PersistTorn, Nothing, FileTimes
  <1>3. CASE UNCHANGED file
    BY <1>3 DEF file, FileTimes
  <1>4. QED
    BY <1>1, <1>2, <1>3
       DEF Next, Store, PutManual, Reconfigure, ConfigureIssuedAt, CheckEmpty,
           RestoreEntry, Crash, Tick, vars, file

LEMMA OnFileStep == TypeOK /\ WrittenInv /\ [Next]_vars => OnFile'
  <1> SUFFICES ASSUME TypeOK, OnFile, DownIsEmpty, [Next]_vars PROVE OnFile'
    BY DEF WrittenInv
  <1> USE DEF config, file
  <1>0. ASSUME UNCHANGED <<disk, dirty>>,
               \A k \in Keys : entries'[k] # None =>
                 \E e \in {entries[k], disk.entries[k]} :
                   /\ e # None
                   /\ entries'[k].stored = e.stored
                   /\ entries'[k].state = e.state
                   /\ entries'[k].manual = e.manual
        PROVE  OnFile'
    <2>1. ASSUME NEW k \in Keys, entries'[k] # None, ~dirty
          PROVE  /\ disk.entries[k] # None
                 /\ disk.entries[k].state = entries'[k].state
                 /\ disk.entries[k].stored = entries'[k].stored
                 /\ disk.entries[k].manual = entries'[k].manual
      <3>1. CASE entries[k] = None
        BY <1>0, <2>1, <3>1
      <3>2. CASE entries[k] # None
        <4>1. up
          BY <3>2 DEF DownIsEmpty
        <4>2. QED
          BY <1>0, <2>1, <3>2, <4>1 DEF OnFile
      <3>3. QED
        BY <3>1, <3>2
    <2>2. QED
      BY <1>0, <2>1 DEF OnFile
  <1>1. CASE dirty' = TRUE \/ up' = FALSE
    BY <1>1 DEF OnFile
  <1>2. ASSUME NEW log \in BOOLEAN, Persist(log) PROVE OnFile'
    <2>1. disk'.entries = entries /\ entries' = entries
      BY <1>2 DEF Persist
    <2>2. QED
      BY <2>1 DEF OnFile
  <1>3. ASSUME NEW limit \in TTLs, Reconfigure(limit) PROVE OnFile'
    BY <1>0, <1>3 DEF Reconfigure
  <1>4. ASSUME NEW mode \in BOOLEAN, ConfigureIssuedAt(mode) PROVE OnFile'
    <2>1. /\ \A k \in Keys : entries'[k] = Rearm(entries[k], mode)
          /\ UNCHANGED <<disk, dirty>>
      BY <1>4 DEF ConfigureIssuedAt
    <2>2. \A k \in Keys : entries'[k] # None =>
            /\ entries[k] # None
            /\ entries'[k].stored = entries[k].stored
            /\ entries'[k].state = entries[k].state
            /\ entries'[k].manual = entries[k].manual
      BY <2>1, RearmFacts, ReissuedFacts, EntriesAreEntries
    <2>3. QED
      BY <1>0, <2>1, <2>2
  <1>5. ASSUME NEW j \in Keys, RestoreEntry(j) PROVE OnFile'
    <2> DEFINE e == Restore(disk.entries[j], issuedMode, ttl)
    <2>1. e # None => /\ disk.entries[j] # None
                      /\ e.stored = disk.entries[j].stored
                      /\ e.state = disk.entries[j].state
                      /\ e.manual = disk.entries[j].manual
      <3>1. issuedMode \in BOOLEAN
        BY DEF TypeOK
      <3>2. QED
        BY <3>1, RestoreFacts, ReissuedFacts, EntriesAreEntries
    <2>2. /\ entries' = IF e = None THEN entries ELSE [entries EXCEPT ![j] = e]
          /\ UNCHANGED <<disk, dirty>>
      BY <1>5 DEF RestoreEntry
    <2> HIDE DEF e
    <2>3. \A k \in Keys : entries'[k] # None =>
            \E o \in {entries[k], disk.entries[k]} :
              /\ o # None /\ entries'[k].stored = o.stored
              /\ entries'[k].state = o.state /\ entries'[k].manual = o.manual
      BY <2>1, <2>2 DEF TypeOK, Slots
    <2>4. QED
      BY <1>0, <2>2, <2>3
  <1>6. CASE CheckEmpty \/ Tick \/ UNCHANGED vars
    <2>1. UNCHANGED <<up, entries, disk, dirty>>
      BY <1>6 DEF CheckEmpty, Tick, vars
    <2>2. QED
      BY <2>1 DEF OnFile
  <1>7. QED
    BY <1>1, <1>2, <1>3, <1>4, <1>5, <1>6
       DEF Next, Store, PutManual, PersistTorn, Crash

(* With the mode the file was written under, an entry on file is the entry *)
(* in memory, and restore returns it.                                      *)
LEMMA OnFileIsRestored ==
    ASSUME AgeInv, IssueTimesMatchMode, WrittenInv
    PROVE  CrashLosesNothingWritten
  <1> SUFFICES ASSUME up, ~dirty, fileMode = issuedMode, NEW k \in Keys,
                      entries[k] # None, ~ExpiredAt(entries[k], ttl)
               PROVE  Restore(disk.entries[k], issuedMode, ttl) = entries[k]
    BY DEF CrashLosesNothingWritten
  <1> DEFINE e == disk.entries[k]
  <1>1. /\ entries[k] \in Entry /\ e \in Entry /\ e # None
        /\ issuedMode \in BOOLEAN
        /\ e.state = entries[k].state /\ e.stored = entries[k].stored
        /\ e.manual = entries[k].manual
    BY EntriesAreEntries DEF AgeInv, TypeOK, WrittenInv, OnFile
  <1>2. /\ e.issued = entries[k].issued
        /\ Plausible(e, issuedMode)
        /\ entries[k].issued = IF issuedMode THEN IssueOf[e.state] ELSE 0
    BY <1>1 DEF IssueTimesMatchMode, WrittenInv, FileTimes, Plausible
  <1>3. e = entries[k]
    BY <1>1, <1>2 DEF Entry
  <1>4. e.stored <= now
    <2>1. e.state \in Tickets /\ e.stored \in Nat
      BY <1>1 DEF Entry
    <2>2. e.stored <= observed[k][e.state] /\ observed[k][e.state] <= now
      BY <1>1, <2>1 DEF AgeInv, NeverRenewed, ObservedInPast
    <2>3. observed[k][e.state] \in Nat /\ now \in Nat
      BY <2>1 DEF AgeInv, TypeOK
    <2>4. QED
      BY <2>1, <2>2, <2>3
  <1>5. Reissued(e, issuedMode) = entries[k]
    <2> DEFINE r == Reissued(e, issuedMode)
    <2>1. /\ r \in Entry /\ r.state = e.state /\ r.stored = e.stored
          /\ r.issued = (IF issuedMode THEN IssueOf[e.state] ELSE 0)
          /\ r.manual = e.manual
      BY <1>1, ReissuedFacts
    <2> HIDE DEF r
    <2>2. r = [state |-> r.state, stored |-> r.stored, issued |-> r.issued,
               manual |-> r.manual]
      BY <2>1 DEF Entry
    <2>3. entries[k] = [state |-> entries[k].state, stored |-> entries[k].stored,
                        issued |-> entries[k].issued, manual |-> entries[k].manual]
      BY <1>1 DEF Entry
    <2>4. /\ r.state = entries[k].state /\ r.stored = entries[k].stored
          /\ r.issued = entries[k].issued
      BY <1>1, <1>2, <2>1
    <2>5. r.manual = entries[k].manual
      BY <1>1, <2>1, Zenon
    <2>6. r = entries[k]
      BY <2>2, <2>3, <2>4, <2>5, Zenon
    <2>7. QED
      BY <2>6 DEF r
  <1>6. QED
    BY <1>1, <1>2, <1>3, <1>4, <1>5 DEF Restore

(* A restart under the configuration of the last write gives back every    *)
(* unexpired ticket for which no write is owed, with its age.              *)
THEOREM WrittenTicketsSurvive == Spec => []CrashLosesNothingWritten
  <1>1. Init => WrittenInv
    BY DEF Init, Nothing, WrittenInv, OnFile, DownIsEmpty, FileTimes
  <1>2. TypeOK /\ IssueTimesMatchMode /\ WrittenInv /\ [Next]_vars => WrittenInv'
    BY OnFileStep, DownStep, FileTimesStep DEF WrittenInv
  <1>3. Spec => []WrittenInv
    BY <1>1, <1>2, TicketTypeCorrect, IssueTimesFollowMode, PTL DEF Spec
  <1>4. AgeInv /\ IssueTimesMatchMode /\ WrittenInv => CrashLosesNothingWritten
    BY OnFileIsRestored
  <1>5. QED
    BY <1>3, <1>4, AgeHolds, IssueTimesFollowMode, PTL

-----------------------------------------------------------------------------
(* Late responses do not roll a live ticket back under use_issued_at; what *)
(* may is a ticket saved by hand, or a restore that a response overtook.   *)
THEOREM LiveTicketsAdvance == Spec => NoRollback
  <1>1. ASSUME TypeOK, IssueTimesMatchMode, [Next]_vars,
               NEW k \in Keys,
               issuedMode, issuedMode', Lookup(k) # None, Lookup(k)' # None,
               ~Lookup(k)'.manual, ~RestoreEntry(k)
        PROVE  Lookup(k)'.issued >= Lookup(k).issued
    <2> USE TicketAssumption DEF config, file
    <2>1. /\ Lookup(k) = entries[k] /\ Lookup(k)' = entries'[k]
          /\ entries[k] # None /\ entries'[k] # None
          /\ ~ExpiredAt(entries[k], ttl)
      BY <1>1 DEF Lookup
    <2>2. /\ entries[k] \in Entry
          /\ entries[k].issued \in Nat
          /\ entries[k].issued # 0
          /\ entries[k].issued = IssueOf[entries[k].state]
      BY <1>1, <2>1 DEF TypeOK, Slots, Entry, IssueTimesMatchMode
    <2>3. SUFFICES entries'[k].issued >= entries[k].issued
      BY <2>1
    <2>4. CASE entries'[k] = entries[k]
      BY <2>2, <2>4
    <2>5. ASSUME NEW j \in Keys, NEW s \in Tickets, NEW refresh \in BOOLEAN,
                 Store(j, s, refresh), entries'[k] # entries[k]
          PROVE  entries'[k].issued >= entries[k].issued
      <3>1. /\ j = k /\ ~Older(k, s)
            /\ entries'[k] = NewEntry(s, FALSE)
        BY <1>1, <2>5 DEF Store, TypeOK, Slots
      <3>2. Current(k) = entries[k]
        BY <2>1 DEF Current
      <3>3. entries[k].issued <= IssueOf[s]
        BY <1>1, <2>1, <2>2, <3>1, <3>2 DEF Older
      <3>4. QED
        BY <1>1, <2>2, <3>1, <3>3, NewEntryFacts
    <2>6. ASSUME NEW j \in Keys, NEW s \in Tickets, PutManual(j, s)
          PROVE  entries'[k] = entries[k]
      <3>1. NewEntry(s, TRUE).manual = TRUE
        BY DEF NewEntry
      <3>2. entries' = [entries EXCEPT ![j] = NewEntry(s, TRUE)]
        BY <2>6 DEF PutManual
      <3>3. ~entries'[k].manual
        BY <1>1, <2>1
      <3>4. j # k
        BY <1>1, <3>1, <3>2, <3>3 DEF TypeOK, Slots
      <3>5. QED
        BY <1>1, <3>2, <3>4 DEF TypeOK, Slots
    <2>7. ASSUME NEW limit \in TTLs, Reconfigure(limit)
          PROVE  entries'[k] = entries[k]
      BY <2>1, <2>7 DEF Reconfigure
    <2>8. ASSUME NEW mode \in BOOLEAN, ConfigureIssuedAt(mode)
          PROVE  entries'[k].issued >= entries[k].issued
      <3>1. mode = TRUE /\ entries'[k] = Rearm(entries[k], mode)
        BY <1>1, <2>8 DEF ConfigureIssuedAt
      <3>2. entries'[k].issued = IssueOf[entries[k].state]
        <4>1. entries'[k] = Reissued(entries[k], mode)
          BY <2>1, <2>2, <3>1, RearmFacts
        <4>2. Reissued(entries[k], mode).issued =
                IF mode THEN IssueOf[entries[k].state] ELSE 0
          BY <2>2, ReissuedFacts
        <4>3. QED
          BY <3>1, <4>1, <4>2
      <3>3. QED
        BY <2>2, <3>2
    <2>9. ASSUME NEW j \in Keys, RestoreEntry(j)
          PROVE  entries'[k] = entries[k]
      BY <1>1, <2>9 DEF RestoreEntry, TypeOK, Slots
    <2>10. CASE UNCHANGED entries
      BY <2>4, <2>10
    <2>11. CASE Crash
      BY <2>1, <2>11 DEF Crash, Nothing
    <2>12. QED
      BY <1>1, <2>4, <2>5, <2>6, <2>7, <2>8, <2>9, <2>10, <2>11
         DEF Next, Persist, PersistTorn, CheckEmpty, Tick, vars
  <1>2. TypeOK /\ IssueTimesMatchMode /\ [Next]_vars =>
          \A k \in Keys :
            /\ up /\ up' /\ issuedMode /\ issuedMode'
            /\ Lookup(k) # None /\ Lookup(k)' # None
            /\ ~Lookup(k)'.manual /\ ~RestoreEntry(k)
            => Lookup(k)'.issued >= Lookup(k).issued
    BY <1>1
  <1>3. QED
    BY <1>2, TicketTypeCorrect, IssueTimesFollowMode, PTL DEF Spec, NoRollback

=============================================================================
