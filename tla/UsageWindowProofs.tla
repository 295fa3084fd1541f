------------------------- MODULE UsageWindowProofs -------------------------
(***************************************************************************)
(* What production traffic leaves behind.  The window of usage, for every  *)
(* set of keys, any number of overlapping calls of handleUsage, every      *)
(* threshold and every channel; then the tickets harvested from responses  *)
(* (Harvest), for any responses, bodies, cuts and sizes of the table.      *)
(***************************************************************************)
EXTENDS UsageWindow, Harvest, FiniteSetTheorems, WellFoundedInduction, TLAPS

-----------------------------------------------------------------------------
(* Appending to a channel with room, and taking from one. *)
LEMMA ChannelAppend ==
    ASSUME NEW s \in Seq(Keys), Len(s) < TargetCap, NEW k \in Keys
    PROVE  /\ Append(s, k) \in Seq(Keys) /\ Len(Append(s, k)) <= TargetCap
           /\ \E i \in DOMAIN Append(s, k) : Append(s, k)[i] = k
           /\ \A j \in Keys : (\E i \in DOMAIN s : s[i] = j) =>
                                \E i \in DOMAIN Append(s, k) : Append(s, k)[i] = j
  <1>1. /\ Append(s, k) \in Seq(Keys)
        /\ Len(Append(s, k)) = Len(s) + 1
        /\ DOMAIN Append(s, k) = 1..(Len(s) + 1)
        /\ DOMAIN s = 1..Len(s)
        /\ Len(s) \in Nat
    OBVIOUS
  <1>2. /\ Append(s, k)[Len(s) + 1] = k
        /\ \A i \in 1..Len(s) : Append(s, k)[i] = s[i]
    OBVIOUS
  <1>3. Len(s) + 1 <= TargetCap
    BY <1>1, UsageAssumption
  <1>4. \A i \in 1..Len(s) : i \in 1..(Len(s) + 1)
    BY <1>1
  <1>5. Len(s) + 1 \in 1..(Len(s) + 1)
    BY <1>1
  <1>6. QED
    BY <1>1, <1>2, <1>3, <1>4, <1>5

LEMMA ChannelTake ==
    ASSUME NEW s \in Seq(Keys), s # <<>>, Len(s) <= TargetCap
    PROVE  /\ Head(s) \in Keys
           /\ Tail(s) \in Seq(Keys) /\ Len(Tail(s)) <= TargetCap
           /\ \A j \in Keys : (\E i \in DOMAIN s : s[i] = j) =>
                \/ j = Head(s)
                \/ \E i \in DOMAIN Tail(s) : Tail(s)[i] = j
  <1>1. /\ Len(s) \in Nat \ {0}
        /\ DOMAIN s = 1..Len(s)
        /\ Tail(s) \in Seq(Keys)
        /\ Len(Tail(s)) = Len(s) - 1
        /\ DOMAIN Tail(s) = 1..(Len(s) - 1)
        /\ Head(s) = s[1] /\ Head(s) \in Keys
    OBVIOUS
  <1>2. \A i \in 1..(Len(s) - 1) : Tail(s)[i] = s[i + 1]
    OBVIOUS
  <1>3. ASSUME NEW j \in Keys, NEW i \in DOMAIN s, s[i] = j, j # Head(s)
        PROVE  \E m \in DOMAIN Tail(s) : Tail(s)[m] = j
    <2>1. i - 1 \in 1..(Len(s) - 1) /\ (i - 1) + 1 = i
      BY <1>1, <1>3
    <2>2. Tail(s)[i - 1] = j
      BY <1>2, <1>3, <2>1
    <2>3. QED
      BY <1>1, <2>1, <2>2
  <1>4. Len(Tail(s)) <= TargetCap
    BY <1>1, UsageAssumption
  <1>5. QED
    BY <1>1, <1>3, <1>4

-----------------------------------------------------------------------------
(* A call under way, and what counting makes of a window. *)
LEMMA CallFields ==
    ASSUME TypeOK, NEW h \in Handlers, handler[h] # None
    PROVE  /\ handler[h] \in Call /\ handler[h].key \in Keys
           /\ handler[h].at \in 0..MaxStored
           /\ handler[h].entry \in 0..MaxStored
  BY DEF TypeOK, Call

LEMMA NewWindowTyped ==
    ASSUME NEW at \in 0..MaxStored
    PROVE  NewWindow(at) \in Window
  BY UsageAssumption DEF NewWindow, Window

LEMMA WindowFields ==
    ASSUME NEW w \in Window
    PROVE  /\ w.started \in 0..MaxStored /\ w.failures \in 0..Threshold
           /\ w.oldest \in 0..MaxStored
           /\ w = [started |-> w.started, failures |-> w.failures,
                   queued |-> w.queued, oldest |-> w.oldest]
  BY DEF Window

LEMMA CountedFacts ==
    ASSUME NEW w \in Window, NEW c \in Call
    PROVE  /\ Counted(w, c) \in Window
           /\ Counted(w, c).started = w.started
           /\ Counted(w, c).queued = w.queued
           /\ Counted(w, c).oldest \in {w.oldest, c.at, MaxStored}
  <1>1. PICK failures : failures = IF ~c.failed THEN 0
                          ELSE IF w.failures < Threshold THEN w.failures + 1
                          ELSE w.failures
    OBVIOUS
  <1>2. PICK oldest : oldest = IF ~c.failed THEN MaxStored ELSE Earlier(w.oldest, c.at)
    OBVIOUS
  <1>3. failures \in 0..Threshold
    BY <1>1, UsageAssumption DEF Window
  <1>4. /\ oldest \in 0..MaxStored
        /\ oldest \in {w.oldest, c.at, MaxStored}
    BY <1>2, UsageAssumption DEF Window, Call, Earlier
  <1>5. Counted(w, c) = [w EXCEPT !.failures = failures, !.oldest = oldest]
    BY <1>1, <1>2 DEF Counted
  <1>6. /\ Counted(w, c).started = w.started
        /\ Counted(w, c).queued = w.queued
        /\ Counted(w, c).oldest = oldest
    BY <1>5, WindowFields
  <1>7. Counted(w, c) \in Window
    BY <1>3, <1>4, <1>5 DEF Window
  <1>8. QED
    BY <1>4, <1>6, <1>7

(* The window a call leaves behind when it counts. *)
LEMMA CountFacts ==
    ASSUME TypeOK, NEW h \in Handlers, Count(h)
    PROVE  LET c == handler[h]
               w == Counted(WindowOf(c), c)
           IN  /\ c \in Call /\ c.key \in Keys
               /\ WindowOf(c) \in Window /\ w \in Window
               /\ windows' \in [Keys -> Window]
               /\ windows'[c.key].started = c.entry
               /\ windows'[c.key].oldest = w.oldest
               /\ windows'[c.key].queued <=> WindowOf(c).queued \/ Reached(w, c)
               /\ \A k \in Keys \ {c.key} : windows'[k] = windows[k]
  <1> DEFINE c == handler[h]
             w == Counted(WindowOf(c), c)
             queued == w.queued \/ Reached(w, c)
  <1>1. c \in Call /\ c.key \in Keys /\ c.entry \in 0..MaxStored
    BY CallFields DEF Count
  <1>2. windows[c.key] \in Window
    BY <1>1 DEF TypeOK
  <1>3. WindowOf(c) \in Window /\ WindowOf(c).started = c.entry
    BY <1>1, <1>2, NewWindowTyped DEF WindowOf, NewWindow
  <1>4. /\ w \in Window /\ w.started = c.entry
        /\ w.queued = WindowOf(c).queued
    BY <1>1, <1>3, CountedFacts
  <1>5. windows' = [windows EXCEPT ![c.key] = [w EXCEPT !.queued = queued]]
    BY DEF Count
  <1>6. queued \in BOOLEAN
    OBVIOUS
  <1> HIDE DEF c, w, queued
  <1>7. /\ [w EXCEPT !.queued = queued] \in Window
        /\ [w EXCEPT !.queued = queued].started = w.started
        /\ [w EXCEPT !.queued = queued].oldest = w.oldest
        /\ [w EXCEPT !.queued = queued].queued = queued
    BY <1>4, <1>6 DEF Window
  <1>8. /\ windows' \in [Keys -> Window]
        /\ windows'[c.key] = [w EXCEPT !.queued = queued]
        /\ \A k \in Keys \ {c.key} : windows'[k] = windows[k]
    BY <1>1, <1>5, <1>7 DEF TypeOK
  <1>9. windows'[c.key].queued <=> WindowOf(c).queued \/ Reached(w, c)
    BY <1>4, <1>7, <1>8 DEF queued
  <1>10. QED
    BY <1>1, <1>3, <1>4, <1>7, <1>8, <1>9 DEF c, w

-----------------------------------------------------------------------------
LEMMA TypeInit == Init => TypeOK
  <1> SUFFICES ASSUME Init PROVE TypeOK
    OBVIOUS
  <1> USE UsageAssumption DEF Init
  <1>1. windows \in [Keys -> Window]
    BY NewWindowTyped
  <1>2. targets \in Seq(Keys) /\ Len(targets) <= TargetCap
    OBVIOUS
  <1>3. clock \in 0..MaxStored /\ entries \in [Keys -> 0..MaxStored]
    OBVIOUS
  <1>4. quota \in BOOLEAN /\ cut \in BOOLEAN
    OBVIOUS
  <1>5. QED
    BY <1>1, <1>2, <1>3, <1>4 DEF TypeOK

(* Clearing the flag of a window, and moving a call, keep their types. *)
LEMMA FlagDown ==
    ASSUME TypeOK, NEW k \in Keys
    PROVE  [windows EXCEPT ![k].queued = FALSE] \in [Keys -> Window]
  <1>1. [windows[k] EXCEPT !.queued = FALSE] \in Window
    BY DEF TypeOK, Window
  <1>2. QED
    BY <1>1 DEF TypeOK

LEMMA CallMoves ==
    ASSUME TypeOK, NEW h \in Handlers, handler[h] # None
    PROVE  /\ \A entry \in 0..MaxStored :
                [handler[h] EXCEPT !.pc = "count", !.entry = entry] \in Call
           /\ [handler[h] EXCEPT !.pc = "queue"] \in Call
           /\ [handler[h] EXCEPT !.pc = "undo"] \in Call
  <1>1. handler[h] \in Call
    BY CallFields
  <1>2. QED
    BY <1>1 DEF Call

LEMMA FlagIsDown ==
    ASSUME TypeOK, NEW k \in Keys
    PROVE  ~[windows EXCEPT ![k].queued = FALSE][k].queued
  BY DEF TypeOK, Window

LEMMA TypeStep == TypeOK /\ [Next]_vars => TypeOK'
  <1> SUFFICES ASSUME TypeOK, [Next]_vars PROVE TypeOK'
    OBVIOUS
  <1> USE UsageAssumption DEF cacheVars, workerVars
  <1>1. ASSUME NEW k \in Keys, Store(k)
        PROVE  TypeOK'
    <2>1. clock + 1 \in 1..MaxStored
      BY <1>1 DEF Store, TypeOK
    <2>2. /\ clock' \in 0..MaxStored
          /\ entries' \in [Keys -> 0..MaxStored]
          /\ opening' \subseteq Keys \X (1..MaxStored)
      BY <1>1, <2>1 DEF Store, TypeOK
    <2>3. QED
      BY <1>1, <2>2 DEF Store, TypeOK
  <1>2. ASSUME NEW k \in Keys, NEW at \in 1..MaxStored, OpenWindow(k, at)
        PROVE  TypeOK'
    <2>1. windows' \in [Keys -> Window]
      BY <1>2, NewWindowTyped DEF OpenWindow, TypeOK
    <2>2. QED
      BY <1>2, <2>1 DEF OpenWindow, TypeOK
  <1>3. ASSUME NEW k \in Keys, Expire(k)
        PROVE  TypeOK'
    BY <1>3 DEF Expire, TypeOK
  <1>4. ASSUME NEW h \in Handlers, NEW k \in Keys, NEW at \in 0..MaxStored,
               NEW failed \in BOOLEAN, Report(h, k, at, failed)
        PROVE  TypeOK'
    <2>1. PICK kind \in {"other", "transient", "quota"} :
            /\ quota' = (quota \/ kind = "quota")
            /\ targets' = IF kind = "transient" /\ CanQueue
                          THEN Append(targets, k) ELSE targets
            /\ handler' = [handler EXCEPT ![h] =
                 [pc |-> "look", key |-> k, at |-> at, failed |-> failed,
                  handled |-> kind # "other", entry |-> 0]]
      BY <1>4 DEF Report
    <2>2. targets' \in Seq(Keys) /\ Len(targets') <= TargetCap
      BY <2>1, ChannelAppend DEF CanQueue, TypeOK
    <2>3. (kind # "other") \in BOOLEAN /\ quota' \in BOOLEAN /\ 0 \in 0..MaxStored
      BY <2>1
    <2>4. [pc |-> "look", key |-> k, at |-> at, failed |-> failed,
           handled |-> kind # "other", entry |-> 0] \in Call
      BY <2>3 DEF Call
    <2>5. handler' \in [Handlers -> Call \cup {None}]
      BY <2>1, <2>4 DEF TypeOK
    <2>6. QED
      BY <1>4, <2>2, <2>3, <2>5 DEF Report, TypeOK
  <1>5. ASSUME NEW h \in Handlers, Look(h)
        PROVE  TypeOK'
    <2>1. handler[h] # None /\ entries[handler[h].key] \in 0..MaxStored
      BY <1>5, CallFields DEF Look, TypeOK
    <2>2. handler' \in [Handlers -> Call \cup {None}]
      BY <1>5, <2>1, CallMoves DEF Look, TypeOK
    <2>3. QED
      BY <1>5, <2>2 DEF Look, TypeOK
  <1>6. ASSUME NEW h \in Handlers, Count(h)
        PROVE  TypeOK'
    <2>1. windows' \in [Keys -> Window] /\ handler[h] # None
      BY <1>6, CountFacts DEF Count
    <2>2. handler' \in [Handlers -> Call \cup {None}]
      BY <1>6, <2>1, CallMoves DEF Count, TypeOK
    <2>3. dropped' \subseteq Keys
      BY <1>6 DEF Count, TypeOK
    <2>4. QED
      BY <1>6, <2>1, <2>2, <2>3 DEF Count, TypeOK
  <1>7. ASSUME NEW h \in Handlers, QueueReprobe(h)
        PROVE  TypeOK'
    <2>1. handler[h] # None /\ handler[h].key \in Keys
      BY <1>7, CallFields DEF QueueReprobe
    <2>2. targets' \in Seq(Keys) /\ Len(targets') <= TargetCap
      BY <1>7, <2>1, ChannelAppend DEF QueueReprobe, CanQueue, TypeOK
    <2>3. handler' \in [Handlers -> Call \cup {None}]
      BY <1>7, <2>1, CallMoves DEF QueueReprobe, TypeOK
    <2>4. QED
      BY <1>7, <2>2, <2>3 DEF QueueReprobe, TypeOK
  <1>8. ASSUME NEW h \in Handlers, Undo(h)
        PROVE  TypeOK'
    <2>1. windows' \in [Keys -> Window]
      BY <1>8, CallFields, FlagDown DEF Undo
    <2>2. QED
      BY <1>8, <2>1 DEF Undo, TypeOK
  <1>9. CASE TakeTarget
    <2>1. /\ Head(targets) \in Keys
          /\ Tail(targets) \in Seq(Keys) /\ Len(Tail(targets)) <= TargetCap
      BY <1>9, ChannelTake DEF TakeTarget, TypeOK
    <2>2. QED
      BY <1>9, <2>1 DEF TakeTarget, TypeOK
  <1>10. ASSUME NEW k \in Keys, Demand(k)
         PROVE  TypeOK'
    BY <1>10 DEF Demand, TypeOK
  <1>11. CASE ProbeEnds
    <2>1. windows' \in [Keys -> Window]
      BY <1>11, FlagDown DEF ProbeEnds, TypeOK
    <2>2. QED
      BY <1>11, <2>1 DEF ProbeEnds, TypeOK
  <1>12. CASE Stop \/ Restart
    BY <1>12 DEF Stop, Restart, TypeOK
  <1>13. CASE QuotaOver
    BY <1>13 DEF QuotaOver, TypeOK
  <1>14. CASE UNCHANGED vars
    BY <1>14 DEF vars, TypeOK
  <1>15. QED
    BY <1>1, <1>2, <1>3, <1>4, <1>5, <1>6, <1>7, <1>8, <1>9, <1>10, <1>11,
       <1>12, <1>13, <1>14 DEF Next

(* Windows, calls and the channel keep their shapes. *)
THEOREM UsageTypeCorrect == Spec => []TypeOK
  BY TypeInit, TypeStep, PTL DEF Spec

-----------------------------------------------------------------------------
(* A call counts a request no older than the ticket it found, and no       *)
(* window has counted an older one.                                        *)
AgeInv ==
    /\ \A h \in Handlers :
         handler[h] # None /\ handler[h].pc = "count" => handler[h].at >= handler[h].entry
    /\ \A k \in Keys : windows[k].oldest >= windows[k].started

LEMMA AgeStep == TypeOK /\ AgeInv /\ [Next]_vars => AgeInv'
  <1> SUFFICES ASSUME TypeOK, AgeInv, [Next]_vars PROVE AgeInv'
    OBVIOUS
  <1> USE UsageAssumption DEF cacheVars, workerVars
  <1>1. ASSUME NEW k \in Keys, NEW at \in 1..MaxStored, OpenWindow(k, at)
        PROVE  AgeInv'
    BY <1>1 DEF OpenWindow, NewWindow, AgeInv, TypeOK
  <1>2. ASSUME NEW h \in Handlers, NEW k \in Keys, NEW at \in 0..MaxStored,
               NEW failed \in BOOLEAN, Report(h, k, at, failed)
        PROVE  AgeInv'
    <2>1. handler'[h].pc = "look" /\ UNCHANGED windows
          /\ \A g \in Handlers \ {h} : handler'[g] = handler[g]
      BY <1>2 DEF Report, TypeOK
    <2>2. QED
      BY <2>1 DEF AgeInv
  <1>3. ASSUME NEW h \in Handlers, Look(h)
        PROVE  AgeInv'
    <2>1. /\ handler[h] \in Call
          /\ entries[handler[h].key] \in 0..MaxStored
      BY <1>3, CallFields DEF Look, TypeOK
    <2>2. \/ handler'[h] = None
          \/ handler'[h].at >= handler'[h].entry
      <3>1. CASE handler[h].at < entries[handler[h].key]
        BY <1>3, <3>1 DEF Look, TypeOK
      <3>2. CASE handler[h].at >= entries[handler[h].key]
        <4>1. \/ handler'[h] = None
              \/ handler'[h] = [handler[h] EXCEPT !.pc = "count",
                                   !.entry = entries[handler[h].key]]
          BY <1>3 DEF Look, TypeOK
        <4>2. QED
          BY <2>1, <3>2, <4>1 DEF Call
      <3>3. QED
        BY <2>1, <3>1, <3>2 DEF Call
    <2>3. UNCHANGED windows /\ \A g \in Handlers \ {h} : handler'[g] = handler[g]
      BY <1>3 DEF Look, TypeOK
    <2>4. QED
      BY <2>2, <2>3 DEF AgeInv
  <1>4. ASSUME NEW h \in Handlers, Count(h)
        PROVE  AgeInv'
    <2> DEFINE c == handler[h]
               w == Counted(WindowOf(c), c)
    <2>1. /\ c \in Call /\ c.key \in Keys
          /\ WindowOf(c) \in Window
          /\ windows'[c.key].started = c.entry
          /\ windows'[c.key].oldest = w.oldest
          /\ \A k \in Keys \ {c.key} : windows'[k] = windows[k]
      BY <1>4, CountFacts
    <2>2. c # None /\ c.at >= c.entry /\ c.at \in 0..MaxStored /\ c.entry \in 0..MaxStored
      BY <1>4, CallFields DEF Count, AgeInv
    <2>3. WindowOf(c).oldest >= c.entry
      BY <2>1, <2>2 DEF WindowOf, NewWindow, AgeInv
    <2>4. w.oldest \in {WindowOf(c).oldest, c.at, MaxStored}
      BY <2>1, CountedFacts
    <2>5. windows'[c.key].oldest >= windows'[c.key].started
      BY <2>1, <2>2, <2>3, <2>4
    <2>6. handler'[h] = None \/ handler'[h].pc = "queue"
      BY <1>4, <2>1 DEF Count, TypeOK, Call
    <2>7. \A g \in Handlers \ {h} : handler'[g] = handler[g]
      BY <1>4 DEF Count, TypeOK
    <2>8. QED
      BY <2>1, <2>5, <2>6, <2>7 DEF AgeInv
  <1>5. ASSUME NEW h \in Handlers, QueueReprobe(h)
        PROVE  AgeInv'
    <2>1. handler[h] \in Call
      BY <1>5, CallFields DEF QueueReprobe
    <2>2. handler'[h] = None \/ handler'[h].pc = "undo"
      BY <1>5, <2>1 DEF QueueReprobe, TypeOK, Call
    <2>3. UNCHANGED windows /\ \A g \in Handlers \ {h} : handler'[g] = handler[g]
      BY <1>5 DEF QueueReprobe, TypeOK
    <2>4. QED
      BY <2>2, <2>3 DEF AgeInv
  <1>6. ASSUME NEW j \in Keys, windows' = [windows EXCEPT ![j].queued = FALSE],
               \A g \in Handlers : handler'[g] = None \/ handler'[g] = handler[g]
        PROVE  AgeInv'
    <2>1. \A k \in Keys : /\ windows'[k].oldest = windows[k].oldest
                          /\ windows'[k].started = windows[k].started
      BY <1>6 DEF TypeOK, Window
    <2>2. QED
      BY <1>6, <2>1 DEF AgeInv
  <1>7. ASSUME NEW h \in Handlers, Undo(h)
        PROVE  AgeInv'
    BY <1>6, <1>7, CallFields DEF Undo, TypeOK
  <1>8. CASE ProbeEnds
    BY <1>6, <1>8 DEF ProbeEnds, TypeOK
  <1>9. CASE UNCHANGED <<windows, handler>>
    BY <1>9 DEF AgeInv
  <1>10. QED
    BY <1>1, <1>2, <1>3, <1>4, <1>5, <1>7, <1>8, <1>9
       DEF Next, vars, Store, Expire, TakeTarget, Demand, Stop, Restart, QuotaOver

(* No failure is counted against a ticket stored after the request. *)
THEOREM FailuresAreItsTickets == Spec => []CountsOnlyItsTicket
  <1>1. Init => AgeInv
    BY UsageAssumption DEF Init, AgeInv, NewWindow
  <1>2. AgeInv => CountsOnlyItsTicket
    BY DEF AgeInv, CountsOnlyItsTicket
  <1>3. QED
    BY <1>1, <1>2, AgeStep, UsageTypeCorrect, PTL DEF Spec

-----------------------------------------------------------------------------
(* A queued reprobe does not get lost: for each key, its flag, what is on  *)
(* its way for it, and what the worker dropped, from one state to the next.*)
Accounted(k) == windows[k].queued => OnItsWay(k) \/ k \in dropped

(* A step that raises no flag and loses nothing on its way. *)
LEMMA NothingLost ==
    ASSUME NEW k \in Keys, Accounted(k),
           windows'[k].queued => windows[k].queued,
           (\E i \in DOMAIN targets : targets[i] = k) =>
              \/ \E i \in DOMAIN targets' : targets'[i] = k
              \/ probing' = k \/ k \in dropped',
           probing = k => probing' = k,
           \A h \in Handlers :
              /\ handler[h] # None /\ handler[h].key = k
              /\ handler[h].pc \in {"queue", "undo"}
              => OnItsWay(k)',
           k \in dropped => k \in dropped'
    PROVE  Accounted(k)'
  BY DEF Accounted, OnItsWay

(* A call that is not about to queue a reprobe may move without a trace. *)
LEMMA OtherCalls ==
    ASSUME NEW k \in Keys, NEW h \in Handlers,
           \A g \in Handlers \ {h} : handler'[g] = handler[g],
           handler[h] # None => handler[h].pc \in {"look", "count"}
    PROVE  \A g \in Handlers :
              /\ handler[g] # None /\ handler[g].key = k
              /\ handler[g].pc \in {"queue", "undo"}
              => OnItsWay(k)'
  BY DEF OnItsWay

LEMMA TargetsStay ==
    ASSUME TypeOK, NEW k \in Keys, NEW j \in Keys,
           targets' = targets \/ (CanQueue /\ targets' = Append(targets, j))
    PROVE  (\E i \in DOMAIN targets : targets[i] = k) =>
             \E i \in DOMAIN targets' : targets'[i] = k
  <1>1. CASE targets' = targets
    BY <1>1
  <1>2. CASE CanQueue /\ targets' = Append(targets, j)
    <2>1. targets \in Seq(Keys) /\ Len(targets) < TargetCap
      BY <1>2 DEF CanQueue, TypeOK
    <2>2. (\E i \in DOMAIN targets : targets[i] = k) =>
            \E i \in DOMAIN Append(targets, j) : Append(targets, j)[i] = k
      BY <2>1, ChannelAppend
    <2>3. QED
      BY <1>2, <2>2
  <1>3. QED
    BY <1>1, <1>2

LEMMA QueuedStep == TypeOK /\ QueuedIsOnItsWay /\ [Next]_vars => QueuedIsOnItsWay'
  <1> SUFFICES ASSUME TypeOK, QueuedIsOnItsWay, [Next]_vars, NEW k \in Keys
               PROVE  Accounted(k)'
    BY DEF QueuedIsOnItsWay, Accounted
  <1> USE DEF cacheVars, workerVars
  <1>0. Accounted(k)
    BY DEF QueuedIsOnItsWay, Accounted
  <1>1. CASE UNCHANGED <<windows, targets, probing, handler, dropped>>
    BY <1>0, <1>1 DEF Accounted, OnItsWay
  <1>2. ASSUME NEW j \in Keys, NEW at \in 1..MaxStored, OpenWindow(j, at)
        PROVE  Accounted(k)'
    <2>1. CASE j = k
      BY <1>2, <2>1 DEF OpenWindow, NewWindow, Accounted, TypeOK
    <2>2. CASE j # k
      BY <1>0, <1>2, <2>2 DEF OpenWindow, Accounted, OnItsWay, TypeOK
    <2>3. QED
      BY <2>1, <2>2
  <1>3. ASSUME NEW h \in Handlers, NEW j \in Keys, NEW at \in 0..MaxStored,
               NEW failed \in BOOLEAN, Report(h, j, at, failed)
        PROVE  Accounted(k)'
    <2>1. /\ targets' = targets \/ (CanQueue /\ targets' = Append(targets, j))
          /\ handler[h] = None
          /\ \A g \in Handlers \ {h} : handler'[g] = handler[g]
      BY <1>3 DEF Report, TypeOK
    <2>2. (\E i \in DOMAIN targets : targets[i] = k) =>
             \E i \in DOMAIN targets' : targets'[i] = k
      BY <2>1, TargetsStay
    <2>3. QED
      BY <1>0, <1>3, <2>1, <2>2, NothingLost, OtherCalls DEF Report
  <1>4. ASSUME NEW h \in Handlers, Look(h)
        PROVE  Accounted(k)'
    <2>1. /\ handler[h].pc = "look"
          /\ \A g \in Handlers \ {h} : handler'[g] = handler[g]
      BY <1>4 DEF Look, TypeOK
    <2>2. QED
      BY <1>0, <1>4, <2>1, NothingLost, OtherCalls DEF Look
  <1>5. ASSUME NEW h \in Handlers, Count(h)
        PROVE  Accounted(k)'
    <2> DEFINE c == handler[h]
               w == Counted(WindowOf(c), c)
    <2>1. /\ c \in Call /\ c.key \in Keys
          /\ windows'[c.key].queued <=> WindowOf(c).queued \/ Reached(w, c)
          /\ \A j \in Keys \ {c.key} : windows'[j] = windows[j]
      BY <1>5, CountFacts
    <2>2. /\ c # None /\ c.pc = "count"
          /\ \A g \in Handlers \ {h} : handler'[g] = handler[g]
          /\ UNCHANGED <<targets, probing>>
          /\ k # c.key => (k \in dropped <=> k \in dropped')
          /\ WindowOf(c) = windows[c.key] => dropped' = dropped
      BY <1>5 DEF Count, TypeOK
    <2>3. CASE k # c.key
      BY <1>0, <2>1, <2>2, <2>3, NothingLost, OtherCalls
    <2>4. CASE k = c.key /\ Reached(w, c)
      <3>1. handler'[h] = [c EXCEPT !.pc = "queue"]
        BY <1>5, <2>4 DEF Count, TypeOK
      <3>2. handler'[h].pc = "queue" /\ handler'[h].key = k /\ handler'[h] \in Call
        BY <2>1, <2>4, <3>1 DEF Call
      <3>3. handler'[h] # None
        BY <1>5, <2>1, <2>2, <3>1, UsageAssumption DEF Call
      <3>4. QED
        BY <3>2, <3>3 DEF Accounted, OnItsWay
    <2>5. CASE k = c.key /\ ~Reached(w, c)
      <3>1. CASE WindowOf(c) = windows[c.key]
        BY <1>0, <2>1, <2>2, <2>5, <3>1, NothingLost, OtherCalls
      <3>2. CASE WindowOf(c) # windows[c.key]
        <4>1. ~WindowOf(c).queued
          BY <3>2 DEF WindowOf, NewWindow
        <4>2. QED
          BY <2>1, <2>5, <4>1 DEF Accounted
      <3>3. QED
        BY <3>1, <3>2
    <2>6. QED
      BY <2>3, <2>4, <2>5
  <1>6. ASSUME NEW h \in Handlers, QueueReprobe(h)
        PROVE  Accounted(k)'
    <2>1. /\ handler[h] \in Call /\ handler[h] # None /\ handler[h].key \in Keys
          /\ \A g \in Handlers \ {h} : handler'[g] = handler[g]
      BY <1>6, CallFields DEF QueueReprobe, TypeOK
    <2>2. (\E i \in DOMAIN targets : targets[i] = k) =>
             \E i \in DOMAIN targets' : targets'[i] = k
      <3>1. \/ targets' = targets
            \/ CanQueue /\ targets' = Append(targets, handler[h].key)
        BY <1>6 DEF QueueReprobe
      <3>2. QED
        BY <2>1, <3>1, TargetsStay
    <2>3. handler[h].key = k => OnItsWay(k)'
      <3>1. CASE CanQueue
        <4>1. targets' = Append(targets, handler[h].key)
          BY <1>6, <3>1 DEF QueueReprobe
        <4>2. handler[h].key = k => \E i \in DOMAIN targets' : targets'[i] = k
          BY <2>1, <3>1, <4>1, ChannelAppend DEF CanQueue, TypeOK
        <4>3. QED
          BY <4>2 DEF OnItsWay
      <3>2. CASE ~CanQueue
        <4>1. handler'[h] = [handler[h] EXCEPT !.pc = "undo"]
          BY <1>6, <3>2 DEF QueueReprobe, TypeOK
        <4>2. handler'[h].pc = "undo" /\ handler'[h].key = handler[h].key
          BY <2>1, <4>1 DEF Call
        <4>3. [handler[h] EXCEPT !.pc = "undo"] \in Call
          BY <2>1, CallMoves
        <4>4. handler'[h] # None
          BY <4>1, <4>3, UsageAssumption
        <4>5. QED
          BY <4>2, <4>4 DEF OnItsWay
      <3>3. QED
        BY <3>1, <3>2
    <2>4. \A g \in Handlers :
             /\ handler[g] # None /\ handler[g].key = k
             /\ handler[g].pc \in {"queue", "undo"}
             => OnItsWay(k)'
      BY <2>1, <2>3 DEF OnItsWay
    <2>5. QED
      BY <1>0, <1>6, <2>2, <2>4, NothingLost DEF QueueReprobe
  <1>7. ASSUME NEW h \in Handlers, Undo(h)
        PROVE  Accounted(k)'
    <2>1. /\ handler[h].key \in Keys
          /\ windows[handler[h].key] \in Window
          /\ \A g \in Handlers \ {h} : handler'[g] = handler[g]
      BY <1>7, CallFields DEF Undo, TypeOK
    <2>2. CASE handler[h].key = k
      BY <1>7, <2>1, <2>2, FlagIsDown DEF Undo, Accounted
    <2>3. CASE handler[h].key # k
      BY <1>0, <1>7, <2>1, <2>3 DEF Undo, Accounted, OnItsWay, TypeOK
    <2>4. QED
      BY <2>2, <2>3
  <1>8. CASE TakeTarget
    <2>1. /\ targets \in Seq(Keys) /\ targets # <<>> /\ Len(targets) <= TargetCap
          /\ targets' = Tail(targets)
          /\ probing = None /\ None # k
          /\ \/ dropped' = dropped \cup {Head(targets)}
             \/ probing' = Head(targets) /\ dropped' = dropped
      BY <1>8, UsageAssumption DEF TakeTarget, TypeOK
    <2>2. (\E i \in DOMAIN targets : targets[i] = k) =>
             k = Head(targets) \/ \E i \in DOMAIN targets' : targets'[i] = k
      BY <2>1, ChannelTake
    <2>3. UNCHANGED <<windows, handler>>
      BY <1>8 DEF TakeTarget
    <2>4. QED
      BY <1>0, <2>1, <2>2, <2>3 DEF Accounted, OnItsWay
  <1>9. ASSUME NEW j \in Keys, Demand(j)
        PROVE  Accounted(k)'
    BY <1>0, <1>9, UsageAssumption DEF Demand, Accounted, OnItsWay
  <1>10. CASE ProbeEnds
    <2>1. probing \in Keys
      BY <1>10 DEF ProbeEnds, TypeOK
    <2>2. CASE probing = k
      BY <1>10, <2>1, <2>2, FlagIsDown DEF ProbeEnds, Accounted
    <2>3. CASE probing # k
      BY <1>0, <1>10, <2>1, <2>3 DEF ProbeEnds, Accounted, OnItsWay, TypeOK
    <2>4. QED
      BY <2>2, <2>3
  <1>11. QED
    BY <1>1, <1>2, <1>3, <1>4, <1>5, <1>6, <1>7, <1>8, <1>9, <1>10
       DEF Next, vars, Store, Expire, Stop, Restart, QuotaOver

(* A window that says a reprobe is queued has one on its way, or the       *)
(* worker took it from the channel and dropped it.                         *)
THEOREM QueuedReprobesComeOrAreDropped == Spec => []QueuedIsOnItsWay
  <1>1. Init => QueuedIsOnItsWay
    BY DEF Init, QueuedIsOnItsWay, NewWindow
  <1>2. QED
    BY <1>1, QueuedStep, UsageTypeCorrect, PTL DEF Spec

-----------------------------------------------------------------------------
(***************************************************************************)
(* Harvesting.                                                             *)
(***************************************************************************)

(* The places in the bodies are numbers, and the table is finite. *)
HarvestTypes ==
    /\ HarvestTypeOK
    /\ pos \in [Responses -> Nat]
    /\ \A r \in Responses \ started : pos[r] = 0
    /\ IsFiniteSet(Held)

(* t is the last ticket among the headers and the first p fragments of r. *)
Latest(r, p, t) ==
    \/ \E i \in 1..Len(Script[r]) :
         /\ 2 * i <= p /\ Script[r][i].ticket = t
         /\ \A j \in 1..Len(Script[r]) :
              i < j /\ 2 * j <= p => Script[r][j].ticket = Absent
    \/ /\ HeaderOf[r] = t
       /\ \A j \in 1..Len(Script[r]) : 2 * j <= p => Script[r][j].ticket = Absent

(* The candidate of r is in the table after the call. *)
Kept(r, n, read) ==
    /\ ~Succeeds(Kinds(r, read)) /\ ~Fails(Kinds(r, read)) /\ ~Overrun(r, n)
    /\ RequestId[r] # Absent
    /\ SlotOf(r) \in Held \ Stale \/ HasRoomFor(SlotOf(r))

(* The ticket of a candidate came with an attempt in its slot. *)
CameWith(s, t) ==
    \E q \in started : RequestId[q] # Absent /\ SlotOf(q) = s /\ t \in Carried(q)
SourceInv ==
    \A s \in Slots, t \in Tickets :
      pending[s] # Absent /\ pending[s].state = t => CameWith(s, t)

(* The ticket and the response of a promotion. *)
PromoteInv ==
    \A r \in Responses, t \in Tickets : <<r, t>> \in observed =>
      /\ t \in Carried(r) \/ CameWith(SlotOf(r), t)
      /\ Completed(r)

-----------------------------------------------------------------------------
(* Max is what its name says on a set of positions. *)
LEMMA Greatest ==
    ASSUME NEW n \in Nat, NEW S \in SUBSET (1..n), S # {}
    PROVE  Max(S) \in S /\ \A x \in S : x <= Max(S)
  <1> DEFINE T == {n - x : x \in S}
  <1>1. T \subseteq Nat /\ T # {}
    OBVIOUS
  <1>2. PICK y \in T : \A z \in T : ~ (<<z, y>> \in OpToRel(<, Nat))
    <2> HIDE DEF T
    <2>1. QED
      BY <1>1, NatLessThanWellFounded, WFMin
  <1>3. PICK m \in S : y = n - m
    BY <1>2
  <1>4. \A x \in S : x <= m
    <2> SUFFICES ASSUME NEW x \in S PROVE x <= m
      OBVIOUS
    <2>1. ~ (<<n - x, y>> \in OpToRel(<, Nat))
      BY <1>2
    <2>2. n - x \in Nat /\ y \in Nat
      BY <1>1, <1>2
    <2>3. ~ (n - x < y)
      BY <2>1, <2>2 DEF OpToRel
    <2>4. QED
      BY <1>3, <2>3
  <1>5. \E z \in S : \A x \in S : z >= x
    BY <1>4
  <1>6. QED
    BY <1>5 DEF Max

(* The events of a body and the ticket of its headers. *)
LEMMA ScriptTypes ==
    ASSUME NEW r \in Responses
    PROVE  /\ Len(Script[r]) \in Nat
           /\ HeaderOf[r] \in Tickets \cup {Absent}
           /\ \A i \in 1..Len(Script[r]) :
                /\ Script[r][i].ticket \in Tickets \cup {Absent}
                /\ Script[r][i].kind \in {"plain", "huge", "completed", "failed"}
  <1>1. Script[r] \in Seq(Event)
    BY HarvestAssumption
  <1>2. \A i \in 1..Len(Script[r]) : Script[r][i] \in Event
    BY <1>1
  <1>3. QED
    BY <1>1, <1>2, HarvestAssumption DEF Event

(* A body that completes does not fail, completes once and ends there. *)
LEMMA VerdictOf ==
    ASSUME OneVerdict, NEW r \in Responses,
           NEW i \in 1..Len(Script[r]), Script[r][i].kind = "completed"
    PROVE  \A j \in 1..Len(Script[r]) :
             /\ Script[r][j].kind # "failed"
             /\ Script[r][j].kind = "completed" => j = i
             /\ i < j => Script[r][j].ticket = Absent
  <1> SUFFICES ASSUME NEW j \in 1..Len(Script[r])
               PROVE  /\ Script[r][j].kind # "failed"
                      /\ Script[r][j].kind = "completed" => j = i
                      /\ i < j => Script[r][j].ticket = Absent
    OBVIOUS
  <1>1. i < j \/ j < i \/ i = j
    OBVIOUS
  <1>2. QED
    BY <1>1 DEF OneVerdict

(* What is extracted from a chunk is the ticket of an event begun in it,   *)
(* or nothing.                                                             *)
LEMMA ExtractedFrom ==
    ASSUME NEW r \in Responses, NEW n, NEW t \in ExtractTurnState(r, n)
    PROVE  /\ t \in Tickets \cup {Absent}
           /\ t # Absent => \E i \in Begun(r, n) : Script[r][i].ticket = t
           /\ Begun(r, n) \subseteq 1..Len(Script[r])
  <1>1. Begun(r, n) \subseteq 1..Len(Script[r])
    BY DEF Begun
  <1>2. t # Absent => \E i \in Begun(r, n) : Script[r][i].ticket = t
    BY DEF ExtractTurnState
  <1>3. QED
    BY <1>1, <1>2, ScriptTypes

(* The candidate a chunk adds to is a candidate. *)
LEMMA FoundType ==
    ASSUME HarvestTypes, NEW r \in Responses
    PROVE  Found(r) \in Candidate
  <1>1. SlotOf(r) \in Slots
    BY DEF Slots
  <1>2. now \in 1..MaxTime
    BY DEF HarvestTypes, HarvestTypeOK
  <1>3. CASE SlotOf(r) \in Held \ Stale
    BY <1>1, <1>3 DEF Found, Held, HarvestTypes, HarvestTypeOK
  <1>4. CASE ~ SlotOf(r) \in Held \ Stale
    BY <1>2, <1>4 DEF Found, Candidate
  <1>5. QED
    BY <1>3, <1>4

(* Where the ticket a call works with comes from. *)
LEMMA TicketFrom ==
    ASSUME HarvestTypes, NEW r \in Responses, NEW header \in Tickets \cup {Absent},
           NEW read \in SUBSET (1..Len(Script[r]))
    PROVE  LET last == LastTicket(r, read, header)
           IN  /\ last \in Tickets \cup {Absent}
               /\ \/ \E i \in read : Script[r][i].ticket = last
                  \/ last = header
                  \/ last = Found(r).state
  <1> DEFINE with == {i \in read : Script[r][i].ticket # Absent}
  <1>0. Found(r).state \in Tickets \cup {Absent}
    BY FoundType DEF Candidate
  <1>1. CASE with = {}
    <2>1. LastTicket(r, read, header) = IF header # Absent THEN header ELSE Found(r).state
      BY <1>1 DEF LastTicket
    <2>2. QED
      BY <1>0, <2>1
  <1>2. CASE with # {}
    <2>1. Len(Script[r]) \in Nat
      BY ScriptTypes
    <2>2. Max(with) \in with
      <3> HIDE DEF with
      <3>1. with \subseteq 1..Len(Script[r])
        BY DEF with
      <3>2. QED
        BY <1>2, <2>1, <3>1, Greatest
    <2>3. LastTicket(r, read, header) = Script[r][Max(with)].ticket
      BY <1>2 DEF LastTicket
    <2>4. Max(with) \in read /\ Max(with) \in 1..Len(Script[r])
      BY <2>2
    <2> HIDE DEF with
    <2>5. QED
      BY <2>3, <2>4, ScriptTypes
  <1>3. QED
    BY <1>1, <1>2

(* So is the one it leaves. *)
LEMMA TouchedType ==
    ASSUME HarvestTypes, NEW r \in Responses, NEW n, NEW t \in Tickets \cup {Absent}
    PROVE  Touched(r, n, t) \in Candidate
  <1>1. now \in 1..MaxTime
    BY DEF HarvestTypes, HarvestTypeOK
  <1>2. Found(r).open \in {"no", "yes", "glued"}
    BY FoundType DEF Candidate
  <1>3. Open(r, n) \in {"no", "yes", "glued"}
    BY <1>2 DEF Open
  <1>4. QED
    BY <1>1, <1>3 DEF Touched, Candidate

(* What a call does to the slot of its response, to the others and to the *)
(* tickets and the ghost.                                                 *)
LEMMA Outcome ==
    ASSUME HarvestTypes, NEW r \in Responses, NEW n, NEW read, NEW header,
           HarvestCompleted(r, n, read, header)
    PROVE  LET last == LastTicket(r, read, header)
           IN  /\ pending' \in [Slots -> {pending'[x] : x \in Slots}]
               /\ pending'[SlotOf(r)] =
                    IF Kept(r, n, read) THEN Touched(r, n, last) ELSE Absent
               /\ \A x \in Slots \ {SlotOf(r)} :
                    pending'[x] = IF x \in Held \ Stale THEN pending[x] ELSE Absent
               /\ observed' =
                    IF Succeeds(Kinds(r, read)) /\ ~Fails(Kinds(r, read)) /\ last # Absent
                    THEN observed \cup {<<r, last>>} ELSE observed
               /\ disturbed' = disturbed
                    \cup {x \in Responses : SlotOf(x) \in Stale}
                    \cup IF /\ \/ Kept(r, n, read)
                               \/ Succeeds(Kinds(r, read)) \/ Fails(Kinds(r, read))
                            /\ ~Glued(r)
                         THEN {} ELSE {r}
  <1> DEFINE last == LastTicket(r, read, header)
  <1>1. SlotOf(r) \in Slots
    BY DEF Slots
  <1>2. pending' = [x \in Slots |->
              IF x = SlotOf(r)
              THEN IF Kept(r, n, read) THEN Touched(r, n, last) ELSE Absent
              ELSE IF x \in Held \ Stale THEN pending[x] ELSE Absent]
    BY DEF HarvestCompleted, Kept
  <1>3. /\ observed' =
             IF Succeeds(Kinds(r, read)) /\ ~Fails(Kinds(r, read)) /\ last # Absent
             THEN observed \cup {<<r, last>>} ELSE observed
        /\ disturbed' = disturbed
             \cup {x \in Responses : SlotOf(x) \in Stale}
             \cup IF /\ \/ Kept(r, n, read)
                        \/ Succeeds(Kinds(r, read)) \/ Fails(Kinds(r, read))
                     /\ ~Glued(r)
                  THEN {} ELSE {r}
    BY DEF HarvestCompleted, Kept
  <1> HIDE DEF last
  <1>4. QED
    BY <1>1, <1>2, <1>3 DEF last

(* A call keeps the table, the tickets and the ghost well-formed. *)
LEMMA CallTypes ==
    ASSUME HarvestTypes, NEW r \in Responses, NEW n, NEW header \in Tickets \cup {Absent},
           NEW read \in SUBSET (1..Len(Script[r])),
           HarvestCompleted(r, n, read, header)
    PROVE  /\ pending' \in [Slots -> Candidate \cup {Absent}]
           /\ observed' \subseteq Responses \X Tickets
           /\ disturbed' \subseteq Responses
           /\ IsFiniteSet(Held')
  <1> DEFINE last == LastTicket(r, read, header)
  <1>1. last \in Tickets \cup {Absent}
    BY TicketFrom
  <1>2. Touched(r, n, last) \in Candidate
    BY <1>1, TouchedType
  <1> HIDE DEF last
  <1>3. /\ pending' \in [Slots -> {pending'[x] : x \in Slots}]
        /\ pending'[SlotOf(r)] \in {Touched(r, n, last), Absent}
        /\ \A x \in Slots \ {SlotOf(r)} :
              pending'[x] = IF x \in Held \ Stale THEN pending[x] ELSE Absent
        /\ \/ observed' = observed
           \/ last # Absent /\ observed' = observed \cup {<<r, last>>}
        /\ disturbed' \subseteq disturbed \cup Responses
    BY Outcome DEF last
  <1>4. \A x \in Slots : pending[x] \in Candidate \cup {Absent}
    BY DEF HarvestTypes, HarvestTypeOK
  <1>5. pending' \in [Slots -> Candidate \cup {Absent}]
    <2>1. \A x \in Slots : pending'[x] \in Candidate \cup {Absent}
      BY <1>2, <1>3, <1>4
    <2>2. QED
      BY <1>3, <2>1
  <1>6. IsFiniteSet(Held')
    <2>1. Held' \subseteq Held \cup {SlotOf(r)}
      BY <1>3 DEF Held
    <2>2. IsFiniteSet(Held \cup {SlotOf(r)})
      BY FS_AddElement DEF HarvestTypes
    <2>3. QED
      BY <2>1, <2>2, FS_Subset
  <1>7. QED
    BY <1>1, <1>3, <1>5, <1>6 DEF HarvestTypes, HarvestTypeOK

(* Only events that end in the chunk are read. *)
LEMMA ReadingsArePositions ==
    ASSUME NEW r \in Responses, NEW n, NEW read \in Readings(r, n)
    PROVE  read \subseteq Ended(r, n) /\ Ended(r, n) \subseteq 1..Len(Script[r])
  BY DEF Readings, Read, Ended

LEMMA HarvestTypesInit == HarvestInit => HarvestTypes
<1> SUFFICES ASSUME HarvestInit PROVE HarvestTypes
  OBVIOUS
<1>1. Held = {}
  BY DEF HarvestInit, Held
<1>2. IsFiniteSet(Held)
  BY <1>1, FS_EmptySet
<1>3. \A r \in Responses : 0 \in 0..Size(r)
  BY ScriptTypes DEF Size
<1>4. QED
  BY <1>2, <1>3, HarvestAssumption DEF HarvestInit, HarvestTypes, HarvestTypeOK

LEMMA HarvestTypesStep ==
    ASSUME HarvestTypes, [HarvestNext]_harvestVars
    PROVE  HarvestTypes'
<1> USE DEF HarvestTypes, HarvestTypeOK
<1>0. \A r \in Responses : Len(Script[r]) \in Nat /\ Size(r) \in Nat /\ Size(r) = 2 * Len(Script[r])
  BY ScriptTypes DEF Size
<1>1. ASSUME NEW r \in Responses, Headers(r) PROVE HarvestTypes'
  <2>1. {} \in SUBSET (1..Len(Script[r])) /\ HeaderOf[r] \in Tickets \cup {Absent}
    BY HarvestAssumption
  <2>2. HarvestCompleted(r, 0, {}, HeaderOf[r]) /\ UNCHANGED <<now, pos>>
        /\ started' = started \cup {r}
    BY <1>1 DEF Headers
  <2>3. /\ pending' \in [Slots -> Candidate \cup {Absent}]
        /\ observed' \subseteq Responses \X Tickets
        /\ disturbed' \subseteq Responses
        /\ IsFiniteSet(Held')
    BY <2>1, <2>2, CallTypes
  <2>4. QED
    BY <2>2, <2>3
<1>2. ASSUME NEW r \in Responses, NEW n \in 1..MaxChunk, Chunk(r, n) PROVE HarvestTypes'
  <2>1. PICK read \in Readings(r, n), state \in ExtractTurnState(r, n) :
          HarvestCompleted(r, n, read, state)
    BY <1>2 DEF Chunk
  <2>2. read \in SUBSET (1..Len(Script[r])) /\ state \in Tickets \cup {Absent}
    BY ReadingsArePositions, ExtractedFrom
  <2>3. /\ pending' \in [Slots -> Candidate \cup {Absent}]
        /\ observed' \subseteq Responses \X Tickets
        /\ disturbed' \subseteq Responses
        /\ IsFiniteSet(Held')
    BY <2>1, <2>2, CallTypes
  <2>4. pos' = [pos EXCEPT ![r] = @ + n] /\ pos[r] + n <= Size(r) /\ UNCHANGED <<now, started>>
    BY <1>2 DEF Chunk
  <2>5. n \in Nat
    BY HarvestAssumption
  <2>6. /\ pos' \in [Responses -> Nat] /\ \A x \in Responses : pos'[x] \in 0..Size(x)
        /\ \A x \in Responses \ started' : pos'[x] = 0
    BY <1>0, <1>2, <2>4, <2>5 DEF Chunk
  <2>7. QED
    BY <2>3, <2>4, <2>6
<1>3. ASSUME NEW r \in Responses, NEW ok \in BOOLEAN, Respond(r, ok) PROVE HarvestTypes'
  <2>1. pos' = [pos EXCEPT ![r] = Size(r)] /\ started' = started \cup {r} /\ UNCHANGED now
    BY <1>3 DEF Respond
  <2>2. pos' \in [Responses -> Nat] /\ \A x \in Responses : pos'[x] \in 0..Size(x)
    BY <1>0, <2>1
  <2>3. /\ pending' \in [Slots -> Candidate \cup {Absent}]
        /\ observed' \subseteq Responses \X Tickets
        /\ disturbed' \subseteq Responses
        /\ IsFiniteSet(Held')
    <3>1. CASE ok
      <4>1. PICK state \in HeaderOrBody(r) :
              HarvestCompleted(r, Size(r), 1..Len(Script[r]), state)
        BY <1>3, <3>1 DEF Respond
      <4>2. state \in Tickets \cup {Absent}
        BY HarvestAssumption, ExtractedFrom DEF HeaderOrBody
      <4>3. QED
        BY <4>1, <4>2, CallTypes
    <3>2. CASE ~ok
      <4>1. UNCHANGED <<pending, observed>> /\ disturbed' = disturbed \cup {r}
        BY <1>3, <3>2 DEF Respond
      <4>2. QED
        BY <4>1 DEF Held
    <3>3. QED
      BY <3>1, <3>2
  <2>4. QED
    BY <2>1, <2>2, <2>3
<1>4. CASE ApplyConfig
  <2>1. Held' = {}
    BY <1>4 DEF ApplyConfig, Held
  <2>2. IsFiniteSet(Held')
    BY <2>1, FS_EmptySet
  <2>3. QED
    BY <1>4, <2>2 DEF ApplyConfig
<1>5. CASE Tick
  <2>1. Held' = Held /\ now' \in 1..MaxTime
    BY <1>5, HarvestAssumption DEF Tick, Held
  <2>2. QED
    BY <1>5, <2>1 DEF Tick
<1>6. CASE UNCHANGED harvestVars
  BY <1>6 DEF harvestVars, Held
<1>7. QED
  BY <1>1, <1>2, <1>3, <1>4, <1>5, <1>6 DEF HarvestNext

-----------------------------------------------------------------------------
(* Where tickets come from. *)

(* What has arrived of a body stays arrived. *)
Grown(r) == pos'[r] >= pos[r]

LEMMA CarriedGrows ==
    ASSUME HarvestTypes, NEW r \in Responses, pos'[r] \in Nat, Grown(r)
    PROVE  /\ Carried(r) \subseteq Carried(r)'
           /\ Completed(r) => Completed(r)'
           /\ Failed(r) => Failed(r)'
  <1>1. \A i \in 1..Len(Script[r]) : 2 * i <= pos[r] => 2 * i <= pos'[r]
    BY ScriptTypes DEF HarvestTypes, Grown
  <1>2. Arrived(r) \subseteq Arrived(r)'
    BY <1>1 DEF Arrived
  <1>3. \A i \in 1..Len(Script[r]) : 2 * i - 1 <= pos[r] => 2 * i - 1 <= pos'[r]
    BY ScriptTypes DEF HarvestTypes, Grown
  <1>4. Carried(r) \subseteq Carried(r)'
    BY <1>3 DEF Carried
  <1>5. QED
    BY <1>1, <1>2, <1>4 DEF Completed, Failed

LEMMA CameWithLasts ==
    ASSUME HarvestTypes, HarvestTypes', \A r \in Responses : Grown(r),
           started \subseteq started', NEW s, NEW t, CameWith(s, t)
    PROVE  CameWith(s, t)'
  <1>1. PICK q \in started : RequestId[q] # Absent /\ SlotOf(q) = s /\ t \in Carried(q)
    BY DEF CameWith
  <1>2. q \in Responses /\ pos'[q] \in Nat /\ q \in started'
    BY DEF HarvestTypes, HarvestTypeOK
  <1>3. t \in Carried(q)'
    BY <1>1, <1>2, CarriedGrows
  <1>4. QED
    BY <1>1, <1>2, <1>3 DEF CameWith

(* A call of harvestCompleted, and where it leaves its response. *)
Calls(r, n, read, header) ==
    /\ HarvestCompleted(r, n, read, header)
    /\ header \in {HeaderOf[r]} \cup ExtractTurnState(r, n)
    /\ read \subseteq Ended(r, n)
    /\ started' = started \cup {r}
    /\ n \in Nat /\ pos' = [pos EXCEPT ![r] = pos[r] + n]

(* A step that calls nothing, and leaves no new candidate. *)
Quiet ==
    /\ \A s \in Slots : pending'[s] \in {pending[s], Absent}
    /\ observed' = observed /\ started \subseteq started'
    /\ \A r \in Responses : Grown(r)

(* A whole response is a call over all its fragments. *)
LEMMA WholeCalls ==
    ASSUME HarvestTypes, NEW r \in Responses, pos[r] = 0,
           started' = started \cup {r}, pos' = [pos EXCEPT ![r] = Size(r)],
           NEW state \in HeaderOrBody(r),
           HarvestCompleted(r, Size(r), 1..Len(Script[r]), state)
    PROVE  /\ Ended(r, Size(r)) = 1..Len(Script[r])
           /\ Calls(r, Size(r), 1..Len(Script[r]), state)
  <1>1. Size(r) \in Nat /\ Size(r) = 2 * Len(Script[r]) /\ Len(Script[r]) \in Nat
    BY ScriptTypes DEF Size
  <1>2. Ended(r, Size(r)) = 1..Len(Script[r])
    BY <1>1 DEF Ended
  <1>3. pos[r] + Size(r) = Size(r)
    BY <1>1
  <1>4. pos' = [pos EXCEPT ![r] = pos[r] + Size(r)]
    BY <1>3
  <1>5. QED
    BY <1>1, <1>2, <1>4 DEF Calls, HeaderOrBody

LEMMA CallsOrQuiet ==
    ASSUME HarvestTypes, HarvestNext
    PROVE  \/ \E r \in Responses : \E n, read, header : Calls(r, n, read, header)
           \/ Quiet
<1>0. /\ pos \in [Responses -> Nat]
      /\ \A r \in Responses \ started : pos[r] = 0
      /\ \A r \in Responses : Size(r) \in Nat /\ Size(r) = 2 * Len(Script[r])
                              /\ Len(Script[r]) \in Nat
  BY ScriptTypes DEF HarvestTypes, Size
<1>1. ASSUME NEW r \in Responses, Headers(r)
      PROVE  Calls(r, 0, {}, HeaderOf[r])
  BY <1>0, <1>1 DEF Headers, Calls
<1>2. ASSUME NEW r \in Responses, NEW n \in 1..MaxChunk, Chunk(r, n)
      PROVE  \E read, state : Calls(r, n, read, state)
  <2>1. PICK read \in Readings(r, n), state \in ExtractTurnState(r, n) :
          HarvestCompleted(r, n, read, state)
    BY <1>2 DEF Chunk
  <2>2. read \subseteq Ended(r, n)
    BY ReadingsArePositions
  <2>3. n \in Nat /\ started' = started \cup {r} /\ pos' = [pos EXCEPT ![r] = pos[r] + n]
    BY <1>0, <1>2, HarvestAssumption DEF Chunk
  <2>4. Calls(r, n, read, state)
    BY <2>1, <2>2, <2>3 DEF Calls
  <2>5. QED
    BY <2>4
<1>3. ASSUME NEW r \in Responses, NEW ok \in BOOLEAN, Respond(r, ok)
      PROVE  \/ \E state : Calls(r, Size(r), 1..Len(Script[r]), state)
             \/ Quiet
  <2>1. /\ started' = started \cup {r} /\ pos' = [pos EXCEPT ![r] = Size(r)]
        /\ pos[r] = 0 /\ r \in Responses
    BY <1>0, <1>3 DEF Respond
  <2>2. CASE ok
    <3>1. PICK state \in HeaderOrBody(r) :
            HarvestCompleted(r, Size(r), 1..Len(Script[r]), state)
      BY <1>3, <2>2 DEF Respond
    <3>2. QED
      BY <2>1, <3>1, WholeCalls
  <2>3. CASE ~ok
    <3>1. UNCHANGED <<pending, observed>>
      BY <1>3, <2>3 DEF Respond
    <3>2. \A q \in Responses : Grown(q)
      BY <1>0, <2>1 DEF Grown
    <3>3. QED
      BY <2>1, <3>1, <3>2 DEF Quiet
  <2>4. QED
    BY <2>2, <2>3
<1>4. CASE ApplyConfig
  BY <1>0, <1>4 DEF ApplyConfig, Quiet, Grown
<1>5. CASE Tick
  BY <1>0, <1>5 DEF Tick, Quiet, Grown
<1>6. QED
  <2>1. CASE \E r \in Responses : Headers(r)
    BY <1>1, <2>1
  <2>2. CASE \E r \in Responses : \E n \in 1..MaxChunk : Chunk(r, n)
    BY <1>2, <2>2
  <2>3. CASE \E r \in Responses : \E ok \in BOOLEAN : Respond(r, ok)
    BY <1>3, <2>3
  <2>4. QED
    BY <1>4, <1>5, <2>1, <2>2, <2>3 DEF HarvestNext

(* A call moves its response on and no other back. *)
LEMMA CallsGrow ==
    ASSUME HarvestTypes, NEW r \in Responses, NEW n, NEW read, NEW header,
           Calls(r, n, read, header)
    PROVE  /\ started \subseteq started' /\ r \in started'
           /\ \A q \in Responses : Grown(q)
           /\ pos'[r] = pos[r] + n
  BY DEF Calls, Grown, HarvestTypes

(* The ticket a call works with came with an attempt in its slot. *)
LEMMA LastCameWith ==
    ASSUME HarvestTypes, HarvestTypes', SourceInv,
           NEW r \in Responses, NEW n, NEW read, NEW header, Calls(r, n, read, header),
           NEW last, last = LastTicket(r, read, header), last # Absent
    PROVE  last \in Carried(r)' \/ CameWith(SlotOf(r), last)'
  <1>1. /\ header \in Tickets \cup {Absent}
        /\ header \in {HeaderOf[r]} \cup ExtractTurnState(r, n)
        /\ read \subseteq Ended(r, n)
        /\ pos'[r] = pos[r] + n /\ pos[r] \in Nat /\ n \in Nat
    <2>1. /\ header \in {HeaderOf[r]} \cup ExtractTurnState(r, n)
          /\ read \subseteq Ended(r, n) /\ n \in Nat
      BY DEF Calls
    <2>2. header \in Tickets \cup {Absent}
      BY <2>1, ScriptTypes, ExtractedFrom
    <2>3. pos'[r] = pos[r] + n
      BY CallsGrow
    <2>4. QED
      BY <2>1, <2>2, <2>3 DEF HarvestTypes
  <1>2. read \in SUBSET (1..Len(Script[r]))
    BY <1>1 DEF Ended
  <1>3. /\ last \in Tickets
        /\ \/ \E i \in read : Script[r][i].ticket = last
           \/ last = header
           \/ last = Found(r).state
    BY <1>1, <1>2, TicketFrom
  <1>4. CASE \E i \in read : Script[r][i].ticket = last
    <2>1. PICK i \in read : Script[r][i].ticket = last
      BY <1>4
    <2>2. i \in 1..Len(Script[r]) /\ 2 * i \in (pos[r] + 1)..(pos[r] + n)
      BY <1>1, <2>1 DEF Ended
    <2>3. i \in 1..Len(Script[r]) /\ 2 * i - 1 <= pos'[r]
      BY <1>1, <2>2
    <2>4. last \in Carried(r)'
      BY <2>1, <2>3 DEF Carried
    <2>5. QED
      BY <2>4
  <1>5. CASE last = header
    <2>1. CASE last = HeaderOf[r]
      <3>1. last \in Carried(r)'
        BY <2>1 DEF Carried
      <3>2. QED
        BY <3>1
    <2>2. CASE last \in ExtractTurnState(r, n)
      <3>1. PICK i \in Begun(r, n) : Script[r][i].ticket = last
        BY <2>2, ExtractedFrom
      <3>2. i \in 1..Len(Script[r]) /\ 2 * i - 1 <= pos'[r]
        BY <1>1, <3>1 DEF Begun
      <3>3. last \in Carried(r)'
        BY <3>1, <3>2 DEF Carried
      <3>4. QED
        BY <3>3
    <2>3. QED
      BY <1>1, <1>5, <2>1, <2>2
  <1>6. CASE last = Found(r).state
    <2>1. SlotOf(r) \in Held \ Stale /\ Found(r) = pending[SlotOf(r)]
      BY <1>6 DEF Found
    <2>2. SlotOf(r) \in Slots /\ pending[SlotOf(r)] # Absent /\ last # Absent
      BY <2>1 DEF Held
    <2>3. CameWith(SlotOf(r), last)
      BY <1>3, <1>6, <2>1, <2>2 DEF SourceInv
    <2>4. CameWith(SlotOf(r), last)'
      <3>1. \A q \in Responses : Grown(q)
        BY CallsGrow
      <3>2. started \subseteq started'
        BY CallsGrow
      <3>3. QED
        BY <2>3, <3>1, <3>2, CameWithLasts DEF CameWith
    <2>5. QED
      BY <2>4
  <1>7. QED
    BY <1>3, <1>4, <1>5, <1>6

(* Case split on what a step does to the table. *)
LEMMA SourceStep ==
    ASSUME HarvestTypes, HarvestTypes', SourceInv, [HarvestNext]_harvestVars
    PROVE  SourceInv'
<1>1. ASSUME NEW r \in Responses, NEW n, NEW read, NEW header, Calls(r, n, read, header)
      PROVE  SourceInv'
  <2> DEFINE last == LastTicket(r, read, header)
  <2>1. /\ pending'[SlotOf(r)] = IF Kept(r, n, read) THEN Touched(r, n, last) ELSE Absent
        /\ \A x \in Slots \ {SlotOf(r)} :
             pending'[x] = IF x \in Held \ Stale THEN pending[x] ELSE Absent
    BY <1>1, Outcome DEF Calls
  <2>2. /\ \A q \in Responses : Grown(q)
        /\ started \subseteq started' /\ r \in started'
    BY <1>1, CallsGrow
  <2>3. SUFFICES ASSUME NEW s \in Slots, NEW t \in Tickets,
                        pending'[s] # Absent, pending'[s].state = t
                 PROVE  CameWith(s, t)'
    BY DEF SourceInv
  <2> HIDE DEF last
  <2>4. CASE s = SlotOf(r)
    <3>1. Kept(r, n, read) /\ t = last
      BY <2>1, <2>3, <2>4 DEF Touched
    <3>2. last # Absent /\ RequestId[r] # Absent
      BY <3>1, HarvestAssumption DEF Kept
    <3>3. t \in Carried(r)' \/ CameWith(SlotOf(r), t)'
      BY <1>1, <3>1, <3>2, LastCameWith DEF last
    <3>4. QED
      BY <2>2, <2>4, <3>2, <3>3 DEF CameWith
  <2>5. CASE s # SlotOf(r)
    <3>1. pending'[s] = pending[s]
      BY <2>1, <2>3, <2>5
    <3>2. CameWith(s, t)
      BY <2>3, <3>1 DEF SourceInv
    <3>3. QED
      BY <2>2, <3>2, CameWithLasts
  <2>6. QED
    BY <2>4, <2>5
<1>2. CASE Quiet
  <2>1. SUFFICES ASSUME NEW s \in Slots, NEW t \in Tickets,
                        pending'[s] # Absent, pending'[s].state = t
                 PROVE  CameWith(s, t)'
    BY DEF SourceInv
  <2>2. pending'[s] = pending[s]
    BY <1>2, <2>1 DEF Quiet
  <2>3. CameWith(s, t)
    BY <2>1, <2>2 DEF SourceInv
  <2>4. QED
    BY <1>2, <2>3, CameWithLasts DEF Quiet
<1>3. CASE UNCHANGED harvestVars
  BY <1>3 DEF harvestVars, SourceInv, CameWith, Carried, Arrived
<1>4. QED
  BY <1>1, <1>2, <1>3, CallsOrQuiet

(* A promotion once made stays right; a new one is right. *)
LEMMA PromoteStep ==
    ASSUME HarvestTypes, HarvestTypes', SourceInv, PromoteInv, [HarvestNext]_harvestVars
    PROVE  PromoteInv'
<1>1. ASSUME \A q \in Responses : Grown(q), started \subseteq started',
             NEW r \in Responses, NEW t \in Tickets, <<r, t>> \in observed
      PROVE  (t \in Carried(r)' \/ CameWith(SlotOf(r), t)') /\ Completed(r)'
  <2>1. (t \in Carried(r) \/ CameWith(SlotOf(r), t)) /\ Completed(r)
    BY <1>1 DEF PromoteInv
  <2>2. pos'[r] \in Nat
    BY DEF HarvestTypes
  <2>3. QED
    BY <1>1, <2>1, <2>2, CarriedGrows, CameWithLasts
<1>2. ASSUME NEW r \in Responses, NEW n, NEW read, NEW header, Calls(r, n, read, header)
      PROVE  PromoteInv'
  <2> DEFINE last == LastTicket(r, read, header)
  <2>1. observed' =
          IF Succeeds(Kinds(r, read)) /\ ~Fails(Kinds(r, read)) /\ last # Absent
          THEN observed \cup {<<r, last>>} ELSE observed
    BY <1>2, Outcome DEF Calls
  <2>2. /\ \A q \in Responses : Grown(q)
        /\ started \subseteq started' /\ pos'[r] = pos[r] + n
    BY <1>2, CallsGrow
  <2> HIDE DEF last
  <2>3. SUFFICES ASSUME NEW q \in Responses, NEW t \in Tickets, <<q, t>> \in observed'
                 PROVE  (t \in Carried(q)' \/ CameWith(SlotOf(q), t)') /\ Completed(q)'
    BY DEF PromoteInv
  <2>4. CASE <<q, t>> \in observed
    BY <1>1, <2>2, <2>4
  <2>5. CASE <<q, t>> \notin observed
    <3>1. q = r /\ t = last /\ last # Absent /\ Succeeds(Kinds(r, read))
      BY <2>1, <2>3, <2>5
    <3>2. t \in Carried(q)' \/ CameWith(SlotOf(q), t)'
      BY <1>2, <3>1, LastCameWith DEF last
    <3>3. PICK i \in read : Script[r][i].kind = "completed"
      BY <3>1 DEF Succeeds, Kinds
    <3>4. i \in 1..Len(Script[r]) /\ 2 * i \in (pos[r] + 1)..(pos[r] + n)
      BY <1>2, <3>3 DEF Calls, Ended
    <3>5. Completed(r)'
      BY <2>2, <3>3, <3>4 DEF Completed
    <3>6. QED
      BY <3>1, <3>2, <3>5
  <2>6. QED
    BY <2>4, <2>5
<1>3. CASE Quiet
  <2>1. SUFFICES ASSUME NEW q \in Responses, NEW t \in Tickets, <<q, t>> \in observed'
                 PROVE  (t \in Carried(q)' \/ CameWith(SlotOf(q), t)') /\ Completed(q)'
    BY DEF PromoteInv
  <2>2. QED
    BY <1>1, <1>3, <2>1 DEF Quiet
<1>4. CASE UNCHANGED harvestVars
  <2>1. observed' = observed /\ started' = started /\ pos' = pos
    BY <1>4 DEF harvestVars
  <2>2. \A q \in Responses : Grown(q)
    BY <2>1 DEF Grown, HarvestTypes
  <2>3. QED
    BY <1>1, <2>1, <2>2 DEF PromoteInv
<1>5. QED
  BY <1>2, <1>3, <1>4, CallsOrQuiet

LEMMA HarvestInvariant == HarvestSpec => [](HarvestTypes /\ SourceInv /\ PromoteInv)
<1>1. HarvestInit => HarvestTypes /\ SourceInv /\ PromoteInv
  <2>1. HarvestInit => SourceInv /\ PromoteInv
    BY DEF HarvestInit, SourceInv, PromoteInv
  <2>2. QED
    BY <2>1, HarvestTypesInit
<1>2. HarvestTypes /\ SourceInv /\ PromoteInv /\ [HarvestNext]_harvestVars
        => (HarvestTypes /\ SourceInv /\ PromoteInv)'
  BY HarvestTypesStep, SourceStep, PromoteStep
<1>3. QED
  BY <1>1, <1>2, PTL DEF HarvestSpec

(* Candidates are what harvestCandidate declares, one to a slot            *)
(* (completion.go), and the places in the bodies stay within them.         *)
THEOREM HarvestTypeCorrect == HarvestSpec => []HarvestTypeOK
  BY HarvestInvariant, PTL DEF HarvestTypes

(* A ticket taken from production came with its own request on its own     *)
(* account, and with a response that completed and did not fail, however   *)
(* the chunks are cut and interleaved (completion.go).                     *)
THEOREM PromotionsAreCompleted ==
    ASSUME OneVerdict PROVE HarvestSpec => []OnlyCompletedPromote
<1>1. HarvestTypes /\ PromoteInv => OnlyCompletedPromote
  <2> SUFFICES ASSUME HarvestTypes, PromoteInv, NEW r \in Responses, NEW t \in Tickets,
                      <<r, t>> \in observed
               PROVE  /\ \/ t \in Carried(r)
                         \/ /\ RequestId[r] # Absent
                            /\ \E q \in started :
                                 /\ RequestId[q] = RequestId[r] /\ KeyOf[q] = KeyOf[r]
                                 /\ t \in Carried(q)
                      /\ Completed(r) /\ ~Failed(r)
    BY DEF OnlyCompletedPromote
  <2>1. (t \in Carried(r) \/ CameWith(SlotOf(r), t)) /\ Completed(r)
    BY DEF PromoteInv
  <2>2. ASSUME CameWith(SlotOf(r), t)
        PROVE  /\ RequestId[r] # Absent
               /\ \E q \in started :
                    /\ RequestId[q] = RequestId[r] /\ KeyOf[q] = KeyOf[r]
                    /\ t \in Carried(q)
    BY <2>2 DEF CameWith, SlotOf
  <2>3. ~Failed(r)
    <3>1. PICK i \in 1..Len(Script[r]) : Script[r][i].kind = "completed"
      BY <2>1 DEF Completed
    <3>2. \A j \in 1..Len(Script[r]) : Script[r][j].kind # "failed"
      BY <3>1, VerdictOf
    <3>3. QED
      BY <3>2 DEF Failed, Arrived
  <2>4. QED
    BY <2>1, <2>2, <2>3
<1>2. QED
  BY <1>1, HarvestInvariant, PTL

(* The headers of a response with a request id are turned away only if as  *)
(* many candidates as the table holds were all touched within two minutes  *)
(* (completion.go).                                                        *)
THEOREM RefusalsAreForFresh == HarvestSpec => RefusedOnlyWhenFull
<1>1. ASSUME HarvestTypes, NEW r \in Responses, Headers(r), RequestId[r] # Absent,
             pending'[SlotOf(r)] = Absent
      PROVE  Cardinality({s \in Held : now - pending[s].updated <= StaleAfter}) >= Capacity
  <2> DEFINE fresh == {s \in Held : now - pending[s].updated <= StaleAfter}
  <2>1. HarvestCompleted(r, 0, {}, HeaderOf[r])
    BY <1>1 DEF Headers
  <2>2. /\ ~Succeeds(Kinds(r, {})) /\ ~Fails(Kinds(r, {})) /\ ~Overrun(r, 0)
    BY DEF Succeeds, Fails, Kinds, Overrun
  <2>3. HeaderOf[r] \in Tickets \cup {Absent}
    BY ScriptTypes
  <2>4. LastTicket(r, {}, HeaderOf[r]) \in Tickets \cup {Absent}
    BY <1>1, <2>3, TicketFrom
  <2>5. Touched(r, 0, LastTicket(r, {}, HeaderOf[r])) # Absent
    BY <1>1, <2>4, TouchedType, HarvestAssumption
  <2>6. ~Kept(r, 0, {})
    BY <1>1, <2>1, <2>5, Outcome
  <2>7. SlotOf(r) \notin Held \ Stale /\ ~HasRoomFor(SlotOf(r))
    BY <1>1, <2>2, <2>6 DEF Kept
  <2>8. fresh = Held \ (Stale \cup {SlotOf(r)})
    <3>1. \A s \in Held : pending[s].updated \in Nat /\ now \in Nat /\ StaleAfter \in Nat
      BY <1>1, HarvestAssumption DEF HarvestTypes, HarvestTypeOK, Held, Candidate
    <3>2. fresh = Held \ Stale
      BY <3>1 DEF Stale
    <3> HIDE DEF fresh
    <3>3. QED
      BY <2>7, <3>2
  <2>9. Cardinality(fresh) \in Nat
    <3>1. fresh \subseteq Held /\ IsFiniteSet(Held)
      BY <1>1 DEF HarvestTypes
    <3> HIDE DEF fresh
    <3>2. QED
      BY <3>1, FS_Subset, FS_CardinalityType
  <2> HIDE DEF fresh
  <2>10. Cardinality(fresh) >= Capacity
    BY <2>7, <2>8, <2>9, HarvestAssumption DEF HasRoomFor
  <2>11. QED
    BY <2>10 DEF fresh
<1>2. HarvestTypes => 
        [\A r \in Responses :
           Headers(r) /\ RequestId[r] # Absent /\ pending'[SlotOf(r)] = Absent =>
             Cardinality({s \in Held : now - pending[s].updated <= StaleAfter})
               >= Capacity]_harvestVars
  BY <1>1
<1>3. QED
  BY <1>2, HarvestInvariant, PTL DEF HarvestSpec, RefusedOnlyWhenFull

-----------------------------------------------------------------------------
(* That nothing is lost. *)

(* An attempt the host has not given up for another one. *)
Active(r) == r \in started \ Whole /\ RequestId[r] # Absent /\ ~Abandoned(r)

(* The attempts of a request on an account take turns: one at a time is    *)
(* under way, and the first was first.                                     *)
TurnInv ==
    /\ \A r \in started \cap Whole : pos[r] = Size(r)
    /\ \A r \in started \ Whole :
         IF RequestId[r] = Absent THEN r \in disturbed
         ELSE \E p \in started : SlotOf(p) = SlotOf(r) /\ RetryOf[p] = Absent
    /\ \A q, r \in Responses : Active(q) /\ Active(r) /\ SlotOf(q) = SlotOf(r) => q = r

(* t is the ticket of the event whose first fragment is the p-th of r. *)
Ahead(r, p, t) ==
    t # Absent /\ \E i \in 1..Len(Script[r]) : p = 2 * i - 1 /\ Script[r][i].ticket = t

(* The candidate of a response under way that was never disturbed has the  *)
(* last ticket that has arrived, or that of the event that is arriving,    *)
(* and knows whether it is inside an event.                                *)
Gathers(r) ==
    r \in started \ (Whole \cup disturbed) /\ ~Abandoned(r) /\ ~Completed(r) /\ ~Failed(r)
Gathered(r) ==
    /\ pending[SlotOf(r)] # Absent
    /\ pending[SlotOf(r)].open = IF pos[r] % 2 = 0 THEN "no" ELSE "yes"
    /\ \A t \in Tickets : Latest(r, pos[r], t) =>
         pending[SlotOf(r)].state = t \/ Ahead(r, pos[r], pending[SlotOf(r)].state)
GatherInv == \A r \in Responses : Gathers(r) => Gathered(r)

Promoted(r) == \A t \in Tickets : Latest(r, pos[r], t) => <<r, t>> \in observed
DoneInv == \A r \in Responses \ disturbed : Completed(r) => Promoted(r)

(* Reading on from where r is gives the last ticket so far, or that of the *)
(* event that is arriving.                                                 *)
LEMMA LastIsLatest ==
    ASSUME HarvestTypes, NEW r \in Responses, NEW n \in Nat, NEW header, NEW t \in Tickets,
           Latest(r, pos[r] + n, t),
           \/ header = HeaderOf[r] /\ pos[r] = 0
           \/ /\ header \in ExtractTurnState(r, n)
              /\ Latest(r, pos[r], t) =>
                   Found(r).state = t \/ Ahead(r, pos[r], Found(r).state)
    PROVE  LET last == LastTicket(r, Ended(r, n), header)
           IN  last = t \/ Ahead(r, pos[r] + n, last)
  <1> DEFINE with == {i \in Ended(r, n) : Script[r][i].ticket # Absent}
  <1>1. pos[r] \in Nat /\ t # Absent /\ Len(Script[r]) \in Nat
    BY ScriptTypes, HarvestAssumption DEF HarvestTypes
  <1>2. \A i \in Ended(r, n) : i \in 1..Len(Script[r]) /\ pos[r] < 2 * i /\ 2 * i <= pos[r] + n
    BY <1>1 DEF Ended
  <1>3. \A i \in 1..Len(Script[r]) :
          2 * i <= pos[r] + n => i \in Ended(r, n) \/ 2 * i <= pos[r]
    BY <1>1 DEF Ended
  <1>4. CASE with = {}
    <2>1. \A i \in Ended(r, n) : Script[r][i].ticket = Absent
      BY <1>4
    <2>2. LastTicket(r, Ended(r, n), header) = IF header # Absent THEN header ELSE Found(r).state
      BY <1>4 DEF LastTicket
    <2>3. Latest(r, pos[r], t)
      <3>1. \A j \in 1..Len(Script[r]) : 2 * j <= pos[r] => 2 * j <= pos[r] + n
        BY <1>1
      <3>2. CASE HeaderOf[r] = t /\ \A j \in 1..Len(Script[r]) :
                                     2 * j <= pos[r] + n => Script[r][j].ticket = Absent
        BY <3>1, <3>2 DEF Latest
      <3>3. ASSUME NEW i \in 1..Len(Script[r]),
                   2 * i <= pos[r] + n, Script[r][i].ticket = t,
                   \A j \in 1..Len(Script[r]) :
                     i < j /\ 2 * j <= pos[r] + n => Script[r][j].ticket = Absent
            PROVE  Latest(r, pos[r], t)
        <4>1. 2 * i <= pos[r]
          BY <1>1, <1>3, <2>1, <3>3
        <4>2. QED
          BY <3>1, <3>3, <4>1 DEF Latest
      <3>4. QED
        BY <3>2, <3>3 DEF Latest
    <2>4. CASE header = HeaderOf[r] /\ pos[r] = 0
      <3>1. HeaderOf[r] = t
        BY <1>1, <2>3, <2>4 DEF Latest
      <3>2. QED
        BY <1>1, <2>2, <2>4, <3>1
    <2>5. CASE header \in ExtractTurnState(r, n) /\ header # Absent
      <3>1. PICK i \in Begun(r, n) : Script[r][i].ticket = header
        BY <2>5, ExtractedFrom
      <3>2. i \in 1..Len(Script[r]) /\ pos[r] < 2 * i - 1 /\ 2 * i - 1 <= pos[r] + n
        BY <1>1, <3>1 DEF Begun
      <3>3. i \notin Ended(r, n)
        BY <2>1, <2>5, <3>1
      <3>4. pos[r] + n = 2 * i - 1
        BY <1>1, <1>3, <3>2, <3>3
      <3>5. Ahead(r, pos[r] + n, header)
        BY <2>5, <3>1, <3>2, <3>4 DEF Ahead
      <3>6. QED
        BY <2>2, <2>5, <3>5
    <2>6. CASE /\ header = Absent
               /\ Found(r).state = t \/ Ahead(r, pos[r], Found(r).state)
      <3>1. LastTicket(r, Ended(r, n), header) = Found(r).state
        BY <2>2, <2>6
      <3>2. ASSUME Ahead(r, pos[r], Found(r).state)
            PROVE  Ahead(r, pos[r] + n, Found(r).state)
        <4>1. PICK i \in 1..Len(Script[r]) :
                pos[r] = 2 * i - 1 /\ Script[r][i].ticket = Found(r).state
          BY <3>2 DEF Ahead
        <4>2. i \notin Ended(r, n)
          BY <2>1, <3>2, <4>1 DEF Ahead
        <4>3. n = 0
          BY <1>1, <1>3, <4>1, <4>2
        <4>4. pos[r] + n = pos[r]
          BY <1>1, <4>3
        <4>5. QED
          BY <3>2, <4>4
      <3>3. QED
        BY <2>6, <3>1, <3>2
    <2>7. QED
      BY <2>3, <2>4, <2>5, <2>6
  <1>5. CASE with # {}
    <2>1. LastTicket(r, Ended(r, n), header) = Script[r][Max(with)].ticket
      BY <1>5 DEF LastTicket
    <2>2. with \subseteq 1..Len(Script[r])
      BY <1>2
    <2> DEFINE m == Max(with)
    <2>3. m \in with /\ \A x \in with : x <= m
      <3> HIDE DEF with
      <3>1. QED
        BY <1>1, <1>5, <2>2, Greatest
    <2>4. m \in 1..Len(Script[r]) /\ 2 * m <= pos[r] + n /\ Script[r][m].ticket # Absent
      BY <1>2, <2>3
    <2>5. PICK i \in 1..Len(Script[r]) :
            /\ 2 * i <= pos[r] + n /\ Script[r][i].ticket = t
            /\ \A j \in 1..Len(Script[r]) :
                 i < j /\ 2 * j <= pos[r] + n => Script[r][j].ticket = Absent
      <3> HIDE DEF m
      <3>1. QED
        BY <2>4 DEF Latest
    <2>6. ~ (i < m)
      <3> HIDE DEF m
      <3>1. QED
        BY <2>4, <2>5
    <2>7. i \in with
      <3>1. pos[r] < 2 * m
        BY <1>2, <2>3
      <3>2. m \in Nat /\ i \in Nat
        <4> HIDE DEF m
        <4>1. QED
          BY <2>4
      <3>3. i >= m
        <4> HIDE DEF m
        <4>1. QED
          BY <2>6, <3>2
      <3>4. pos[r] < 2 * i
        <4> HIDE DEF m
        <4>1. QED
          BY <1>1, <3>1, <3>2, <3>3
      <3>5. i \in Ended(r, n)
        BY <1>1, <1>3, <2>5, <3>2, <3>4
      <3>6. QED
        BY <1>1, <2>5, <3>5
    <2>8. i = m
      <3>1. i <= m
        BY <2>3, <2>7
      <3> HIDE DEF m, with
      <3>2. QED
        BY <2>4, <2>6, <3>1
    <2>9. QED
      <3> HIDE DEF with
      <3>1. QED
        BY <2>1, <2>5, <2>8
  <1>6. QED
    BY <1>4, <1>5

(* A response that is not read behind another one is read whole. *)
LEMMA ReadWhole ==
    ASSUME HarvestTypes, NEW r \in Responses, NEW n \in Nat,
           Found(r).open = IF pos[r] % 2 = 0 THEN "no" ELSE "yes"
    PROVE  ~Glued(r) /\ Readings(r, n) = {Ended(r, n)}
  <1>1. pos[r] \in Nat
    BY DEF HarvestTypes
  <1>2. ~Glued(r)
    BY DEF Glued
  <1>3. Read(r, n) = Ended(r, n)
    <2>1. CASE pos[r] % 2 = 0
      <3>1. \A i \in Ended(r, n) : 2 * i - 1 > pos[r]
        BY <1>1, <2>1 DEF Ended
      <3>2. QED
        BY <3>1 DEF Read, Ended
    <2>2. CASE pos[r] % 2 # 0
      BY <2>2 DEF Read, Ended
    <2>3. QED
      BY <2>1, <2>2
  <1>4. QED
    BY <1>2, <1>3 DEF Readings

(* What a call does that takes r from where it is, undisturbed, over n     *)
(* fragments.                                                              *)
LEMMA CallGathers ==
    ASSUME OneVerdict, HarvestTypes, HarvestTypes',
           NEW r \in Responses, NEW n, NEW header,
           Calls(r, n, Ended(r, n), header),
           r \notin disturbed',
           \/ header = HeaderOf[r] /\ pos[r] = 0
           \/ /\ header \in ExtractTurnState(r, n)
              /\ \A t \in Tickets : Latest(r, pos[r], t) =>
                   Found(r).state = t \/ Ahead(r, pos[r], Found(r).state)
    PROVE  /\ Completed(r)' => Completed(r) \/ Promoted(r)'
           /\ ~Completed(r)' /\ ~Failed(r)'
                /\ Found(r).open = (IF pos[r] % 2 = 0 THEN "no" ELSE "yes") => Gathered(r)'
  <1> DEFINE read == Ended(r, n)
             last == LastTicket(r, read, header)
  <1>1. n \in Nat /\ HarvestCompleted(r, n, read, header) /\ pos'[r] = pos[r] + n
        /\ pos[r] \in Nat /\ Len(Script[r]) \in Nat
    BY CallsGrow, ScriptTypes DEF Calls, HarvestTypes
  <1>2. ASSUME NEW t \in Tickets, Latest(r, pos'[r], t)
        PROVE  last = t \/ Ahead(r, pos'[r], last)
    BY <1>1, <1>2, LastIsLatest
  <1>3. \A i \in read : i \in 1..Len(Script[r]) /\ 2 * i <= pos'[r]
    BY <1>1 DEF Ended
  <1>4. \A i \in 1..Len(Script[r]) : 2 * i <= pos'[r] => i \in read \/ 2 * i <= pos[r]
    BY <1>1 DEF Ended
  <1>5. /\ pending'[SlotOf(r)] = IF Kept(r, n, read) THEN Touched(r, n, last) ELSE Absent
        /\ observed' =
             IF Succeeds(Kinds(r, read)) /\ ~Fails(Kinds(r, read)) /\ last # Absent
             THEN observed \cup {<<r, last>>} ELSE observed
        /\ ~Glued(r)
        /\ Kept(r, n, read) \/ Succeeds(Kinds(r, read)) \/ Fails(Kinds(r, read))
    BY <1>1, Outcome
  <1> HIDE DEF read, last
  <1>6. ASSUME Completed(r)', ~Completed(r) PROVE Promoted(r)'
    <2>1. PICK i \in 1..Len(Script[r]) : 2 * i <= pos'[r] /\ Script[r][i].kind = "completed"
      BY <1>6 DEF Completed
    <2>2. i \in read
      BY <1>4, <1>6, <2>1 DEF Completed
    <2>3. Succeeds(Kinds(r, read))
      BY <2>1, <2>2 DEF Succeeds, Kinds
    <2>4. ~Fails(Kinds(r, read))
      <3>1. \A j \in 1..Len(Script[r]) : Script[r][j].kind # "failed"
        BY <2>1, VerdictOf
      <3>2. QED
        BY <1>3, <3>1 DEF Fails, Kinds
    <2>5. SUFFICES ASSUME NEW t \in Tickets, Latest(r, pos'[r], t) PROVE <<r, t>> \in observed'
      BY DEF Promoted, Latest
    <2>6. ~Ahead(r, pos'[r], last)
      <3>1. SUFFICES ASSUME NEW j \in 1..Len(Script[r]),
                            pos'[r] = 2 * j - 1, Script[r][j].ticket = last, last # Absent
                     PROVE  FALSE
        BY DEF Ahead
      <3>2. i < j
        BY <2>1, <3>1
      <3>3. QED
        BY <2>1, <3>1, <3>2, VerdictOf
    <2>7. last = t /\ t # Absent
      BY <1>2, <2>5, <2>6, HarvestAssumption
    <2>8. QED
      BY <1>5, <2>3, <2>4, <2>7
  <1>7. ASSUME ~Completed(r)', ~Failed(r)',
               Found(r).open = IF pos[r] % 2 = 0 THEN "no" ELSE "yes"
        PROVE  Gathered(r)'
    <2>1. \A i \in read : Script[r][i].kind \notin {"completed", "failed"}
      BY <1>3, <1>7 DEF Completed, Failed, Arrived
    <2>2. Kept(r, n, read)
      BY <1>5, <2>1 DEF Succeeds, Fails, Kinds
    <2>3. pending'[SlotOf(r)] = Touched(r, n, last)
      BY <1>5, <2>2
    <2>4. pending'[SlotOf(r)] # Absent
      <3>1. pending'[SlotOf(r)].state = last
        BY <2>3 DEF Touched
      <3>2. header \in Tickets \cup {Absent} /\ read \in SUBSET (1..Len(Script[r]))
        BY <1>3, HarvestAssumption, ExtractedFrom DEF Calls
      <3>3. last \in Tickets \cup {Absent}
        BY <3>2, TicketFrom DEF last
      <3>4. QED
        BY <2>3, <3>3, TouchedType, HarvestAssumption
    <2>5. Open(r, n) = IF pos'[r] % 2 = 0 THEN "no" ELSE "yes"
      <3>1. CASE n = 0
        BY <1>1, <1>7, <3>1 DEF Open
      <3>2. CASE n # 0
        BY <1>1, <1>5, <3>2 DEF Open
      <3>3. QED
        BY <3>1, <3>2
    <2>6. /\ pending'[SlotOf(r)].open = Open(r, n)
          /\ pending'[SlotOf(r)].state = last
      BY <2>3 DEF Touched
    <2>7. \A t \in Tickets : Latest(r, pos'[r], t) =>
            \/ pending'[SlotOf(r)].state = t
            \/ Ahead(r, pos'[r], pending'[SlotOf(r)].state)
      BY <1>2, <2>6
    <2>8. QED
      BY <2>4, <2>5, <2>6, <2>7 DEF Gathered, Latest, Ahead
  <1>8. QED
    BY <1>6, <1>7

(* A slot is a request id and a key. *)
LEMMA SameSlot ==
    ASSUME NEW q \in Responses, NEW r \in Responses, SlotOf(q) = SlotOf(r)
    PROVE  RequestId[q] = RequestId[r] /\ KeyOf[q] = KeyOf[r]
  BY DEF SlotOf

LEMMA InTurn ==
    ASSUME RetriesInTurn, NEW q \in Responses, NEW r \in Responses, q # r,
           RequestId[r] # Absent, SlotOf(q) = SlotOf(r)
    PROVE  (q \in Whole <=> r \in Whole) /\ RetryOf[q] # RetryOf[r]
  BY SameSlot DEF RetriesInTurn

(* An attempt has the slot of the one it comes after. *)
LEMMA RetryShares ==
    ASSUME NEW r \in Responses, RetryOf[r] # Absent
    PROVE  RetryOf[r] \in Responses /\ SlotOf(RetryOf[r]) = SlotOf(r)
  BY HarvestAssumption DEF SlotOf

(* A new attempt finds no other one under way but the one it comes after.  *)
LEMMA OnlyOneTurn ==
    ASSUME RetriesInTurn, HarvestTypes, TurnInv, NEW x \in Responses, Headers(x),
           NEW r \in Responses, Active(r), SlotOf(r) = SlotOf(x), Active(r)'
    PROVE  FALSE
  <1>1. /\ x \notin Whole /\ x \notin started /\ r \in started /\ r \notin Whole
        /\ started' = started \cup {x} /\ started \subseteq Responses
        /\ RetryOf[x] # Absent => RetryOf[x] \in started
        /\ RequestId[r] # Absent /\ RequestId[x] # Absent
    BY SameSlot DEF Headers, Active, HarvestTypes, HarvestTypeOK
  <1>2. CASE RetryOf[x] = Absent
    <2>1. PICK p \in started : SlotOf(p) = SlotOf(r) /\ RetryOf[p] = Absent
      BY <1>1 DEF TurnInv
    <2>2. p \in Responses /\ p # x /\ SlotOf(p) = SlotOf(x)
      BY <1>1, <2>1
    <2>3. QED
      BY <1>1, <1>2, <2>1, <2>2, InTurn
  <1>3. CASE RetryOf[x] # Absent
    <2> DEFINE y == RetryOf[x]
    <2>1. y \in Responses /\ y \in started /\ SlotOf(y) = SlotOf(x) /\ y # x
      BY <1>1, <1>3, RetryShares
    <2>2. y \notin Whole
      BY <1>1, <2>1, InTurn
    <2>3. ~Abandoned(y)
      <3>1. SUFFICES ASSUME NEW z \in started, RetryOf[z] = y PROVE FALSE
        BY DEF Abandoned
      <3>2. z \in Responses /\ z # x /\ RetryOf[z] # Absent
        BY <1>1, <1>3, <3>1
      <3>3. SlotOf(z) = SlotOf(x)
        BY <2>1, <3>1, <3>2, RetryShares
      <3>4. QED
        BY <1>1, <3>1, <3>2, <3>3, InTurn
    <2>4. Active(y)
      BY <1>1, <2>1, <2>2, <2>3, SameSlot DEF Active
    <2>5. r = y
      BY <2>1, <2>4 DEF TurnInv
    <2>6. x \in started'
      BY <1>1
    <2>7. QED
      BY <2>5, <2>6 DEF Active, Abandoned
  <1>4. QED
    BY <1>2, <1>3

LEMMA ActiveBefore ==
    ASSUME started \subseteq started', NEW r \in Responses, Active(r)', r \in started
    PROVE  Active(r)
  BY DEF Active, Abandoned

LEMMA DisturbedLasts ==
    ASSUME HarvestTypes, HarvestNext
    PROVE  disturbed \subseteq disturbed' /\ started \subseteq started'
  BY DEF HarvestNext, Headers, Chunk, Respond, ApplyConfig, Tick, HarvestCompleted

(* A step keeps the attempts taking turns. *)
LEMMA TurnStep ==
    ASSUME RetriesInTurn, HarvestTypes, HarvestTypes', TurnInv, HarvestNext
    PROVE  TurnInv'
<1>0. /\ disturbed \subseteq disturbed' /\ started \subseteq started'
      /\ started \subseteq Responses /\ pos \in [Responses -> Nat]
      /\ \A r \in Responses : Size(r) \in Nat
  BY DisturbedLasts, ScriptTypes DEF HarvestTypes, HarvestTypeOK, Size
<1>1. \A r \in started' \cap Whole : pos'[r] = Size(r)
  <2>1. SUFFICES ASSUME NEW r \in started' \cap Whole PROVE pos'[r] = Size(r)
    OBVIOUS
  <2>2. ASSUME NEW x \in Responses, Headers(x) PROVE pos'[r] = Size(r)
    BY <2>1, <2>2 DEF Headers, TurnInv
  <2>3. ASSUME NEW x \in Responses, NEW n \in 1..MaxChunk, Chunk(x, n) PROVE pos'[r] = Size(r)
    <3>1. r \in started /\ pos[r] = Size(r)
      BY <2>1, <2>3 DEF Chunk, TurnInv
    <3>2. x # r
      <4>1. n \in Nat /\ n >= 1 /\ pos[x] + n <= Size(x)
        BY <2>3, HarvestAssumption DEF Chunk
      <4>2. QED
        BY <1>0, <3>1, <4>1
    <3>3. QED
      BY <1>0, <2>3, <3>1, <3>2 DEF Chunk
  <2>4. ASSUME NEW x \in Responses, NEW ok \in BOOLEAN, Respond(x, ok) PROVE pos'[r] = Size(r)
    BY <1>0, <2>1, <2>4 DEF Respond, TurnInv
  <2>5. CASE ApplyConfig \/ Tick
    BY <2>1, <2>5 DEF ApplyConfig, Tick, TurnInv
  <2>6. QED
    BY <2>2, <2>3, <2>4, <2>5 DEF HarvestNext
<1>2. \A r \in started' \ Whole :
        IF RequestId[r] = Absent THEN r \in disturbed'
        ELSE \E p \in started' : SlotOf(p) = SlotOf(r) /\ RetryOf[p] = Absent
  <2>1. SUFFICES ASSUME NEW r \in started' \ Whole
                 PROVE  IF RequestId[r] = Absent THEN r \in disturbed'
                        ELSE \E p \in started' : SlotOf(p) = SlotOf(r) /\ RetryOf[p] = Absent
    OBVIOUS
  <2>2. CASE r \in started
    BY <1>0, <2>1, <2>2 DEF TurnInv
  <2>3. CASE r \notin started
    <3>1. r \in Responses /\ Headers(r)
      BY <2>1, <2>3 DEF HarvestNext, Headers, Chunk, Respond, ApplyConfig, Tick,
           HarvestTypes, HarvestTypeOK
    <3>2. CASE RequestId[r] = Absent
      <4>1. ~Kept(r, 0, {}) /\ ~Succeeds(Kinds(r, {})) /\ ~Fails(Kinds(r, {}))
        BY <3>2 DEF Kept, Succeeds, Fails, Kinds
      <4>2. HarvestCompleted(r, 0, {}, HeaderOf[r])
        BY <3>1 DEF Headers
      <4>3. r \in disturbed'
        BY <3>1, <4>1, <4>2, Outcome
      <4>4. QED
        BY <3>2, <4>3
    <3>3. CASE RequestId[r] # Absent /\ RetryOf[r] = Absent
      BY <2>1, <3>3
    <3>4. CASE RequestId[r] # Absent /\ RetryOf[r] # Absent
      <4>1. /\ RetryOf[r] \in started /\ RetryOf[r] # r
            /\ SlotOf(RetryOf[r]) = SlotOf(r) /\ RetryOf[r] \in Responses
        BY <2>3, <3>1, <3>4, RetryShares DEF Headers
      <4>2. RetryOf[r] \notin Whole /\ RequestId[RetryOf[r]] # Absent
        BY <2>1, <3>1, <3>4, <4>1, SameSlot, InTurn
      <4>3. PICK p \in started : SlotOf(p) = SlotOf(RetryOf[r]) /\ RetryOf[p] = Absent
        BY <4>1, <4>2 DEF TurnInv
      <4>4. QED
        BY <1>0, <3>4, <4>1, <4>3
    <3>5. QED
      BY <3>2, <3>3, <3>4
  <2>4. QED
    BY <2>2, <2>3
<1>3. ASSUME NEW q \in Responses, NEW r \in Responses,
             Active(q)', Active(r)', SlotOf(q) = SlotOf(r)
      PROVE  q = r
  <2>1. CASE q \in started /\ r \in started
    <3>1. Active(q) /\ Active(r)
      BY <1>0, <1>3, <2>1, ActiveBefore
    <3>2. QED
      BY <1>3, <3>1 DEF TurnInv
  <2>2. ASSUME NEW x \in Responses, x \notin started, Active(x)'
        PROVE  Headers(x) /\ started' = started \cup {x}
    BY <2>2 DEF Active, HarvestNext, Headers, Chunk, Respond, ApplyConfig, Tick
  <2>3. CASE q \notin started /\ r \in started
    BY <1>0, <1>3, <2>2, <2>3, ActiveBefore, OnlyOneTurn
  <2>4. CASE q \in started /\ r \notin started
    BY <1>0, <1>3, <2>2, <2>4, ActiveBefore, OnlyOneTurn
  <2>5. CASE q \notin started /\ r \notin started
    <3>1. started' = started \cup {q} /\ r \in started'
      BY <1>3, <2>2, <2>5 DEF Active
    <3>2. QED
      BY <2>5, <3>1
  <2>6. QED
    BY <2>1, <2>3, <2>4, <2>5
<1>4. QED
  BY <1>1, <1>2, <1>3 DEF TurnInv

(* The candidate of a response stays as it is while another slot is served *)
(* and none of its own is dropped.                                         *)
LEMMA OtherGathers ==
    ASSUME HarvestTypes, NEW x \in Responses, NEW n, NEW read, NEW header,
           Calls(x, n, read, header),
           NEW r \in Responses, SlotOf(r) # SlotOf(x), r \notin disturbed', Gathered(r)
    PROVE  Gathered(r)'
  <1>1. /\ SlotOf(r) \in Slots
        /\ \A s \in Slots \ {SlotOf(x)} :
             pending'[s] = IF s \in Held \ Stale THEN pending[s] ELSE Absent
        /\ SlotOf(r) \notin Stale
    BY Outcome DEF Calls, Slots
  <1>2. SlotOf(r) \in Held
    BY <1>1 DEF Gathered, Held
  <1>3. pending'[SlotOf(r)] = pending[SlotOf(r)]
    BY <1>1, <1>2
  <1>4. pos'[r] = pos[r]
    BY DEF Calls, HarvestTypes
  <1>5. QED
    BY <1>3, <1>4 DEF Gathered, Latest, Ahead

LEMMA FoundOwn ==
    ASSUME HarvestTypes, NEW r \in Responses, Gathered(r), NEW n, NEW read, NEW header,
           HarvestCompleted(r, n, read, header), r \notin disturbed'
    PROVE  Found(r) = pending[SlotOf(r)]
  <1>1. SlotOf(r) \notin Stale
    BY Outcome
  <1>2. QED
    BY <1>1 DEF Gathered, Found, Held, Slots

(* A chunk of a response under way and not disturbed. *)
LEMMA ChunkCalls ==
    ASSUME HarvestTypes, NEW r \in Responses, Gathered(r), r \notin disturbed',
           NEW n \in 1..MaxChunk, Chunk(r, n)
    PROVE  /\ \E state \in ExtractTurnState(r, n) : Calls(r, n, Ended(r, n), state)
           /\ Found(r) = pending[SlotOf(r)]
  <1>1. PICK read \in Readings(r, n), state \in ExtractTurnState(r, n) :
          HarvestCompleted(r, n, read, state)
    BY DEF Chunk
  <1>2. Found(r) = pending[SlotOf(r)]
    BY <1>1, FoundOwn
  <1>3. n \in Nat /\ r \in started /\ pos' = [pos EXCEPT ![r] = pos[r] + n] /\ started' = started
    BY HarvestAssumption DEF Chunk, HarvestTypes
  <1>4. read = Ended(r, n)
    BY <1>1, <1>2, <1>3, ReadWhole DEF Gathered
  <1>5. QED
    BY <1>1, <1>2, <1>3, <1>4 DEF Calls

(* A step keeps the candidates of the undisturbed up to date. *)
LEMMA GatherStep ==
    ASSUME OneVerdict, RetriesInTurn, HarvestTypes, HarvestTypes', TurnInv, TurnInv',
           GatherInv, HarvestNext
    PROVE  GatherInv'
<1> SUFFICES ASSUME NEW r \in Responses, Gathers(r)' PROVE Gathered(r)'
  BY DEF GatherInv
<1>0. /\ disturbed \subseteq disturbed' /\ started \subseteq started'
      /\ r \notin Whole /\ r \in started' /\ r \notin disturbed'
      /\ RequestId[r] # Absent /\ ~Abandoned(r)' /\ ~Completed(r)' /\ ~Failed(r)'
  BY DisturbedLasts DEF Gathers, TurnInv
<1>1. Active(r)'
  BY <1>0 DEF Active
<1>2. ASSUME r \in started, Grown(r) PROVE Active(r) /\ Gathers(r) /\ Gathered(r)
  <2>1. Active(r)
    BY <1>0, <1>1, <1>2, ActiveBefore
  <2>2. ~Completed(r) /\ ~Failed(r)
    BY <1>0, <1>2, CarriedGrows DEF HarvestTypes
  <2>3. Gathers(r)
    BY <1>0, <2>1, <2>2 DEF Gathers, Active
  <2>4. QED
    BY <2>1, <2>3 DEF GatherInv
<1>3. ASSUME NEW x \in Responses, Headers(x) PROVE Gathered(r)'
  <2>1. Calls(x, 0, {}, HeaderOf[x]) /\ pos' = pos /\ started' = started \cup {x} /\ x \notin started
    BY <1>3 DEF Headers, Calls, HarvestTypes
  <2>2. CASE x = r
    <3>1. Ended(r, 0) = {} /\ pos[r] = 0
      BY <2>1, <2>2 DEF Ended, HarvestTypes
    <3>2. ~Glued(r)
      <4>1. HarvestCompleted(r, 0, {}, HeaderOf[r])
        BY <2>1, <2>2 DEF Calls
      <4>2. QED
        BY <1>0, <4>1, Outcome
    <3>3. Found(r).open = IF pos[r] % 2 = 0 THEN "no" ELSE "yes"
      BY <3>1, <3>2, FoundType DEF Glued, Candidate
    <3>4. QED
      BY <1>0, <2>1, <2>2, <3>1, <3>3, CallGathers
  <2>3. CASE x # r
    <3>1. r \in started
      BY <1>0, <2>1, <2>3
    <3>2. Active(r) /\ Gathered(r)
      BY <1>2, <2>1, <3>1 DEF Grown, HarvestTypes
    <3>3. SlotOf(r) # SlotOf(x)
      BY <1>1, <1>3, <3>2, OnlyOneTurn
    <3>4. QED
      BY <1>0, <2>1, <3>2, <3>3, OtherGathers
  <2>4. QED
    BY <2>2, <2>3
<1>4. ASSUME NEW x \in Responses, NEW n \in 1..MaxChunk, Chunk(x, n) PROVE Gathered(r)'
  <2>1. PICK read \in Readings(x, n), state \in ExtractTurnState(x, n) :
          HarvestCompleted(x, n, read, state)
    BY <1>4 DEF Chunk
  <2>2. /\ n \in Nat /\ n >= 1 /\ started' = started /\ x \in started /\ ~Abandoned(x)
        /\ pos' = [pos EXCEPT ![x] = pos[x] + n] /\ pos[x] + n <= Size(x)
    BY <1>4, HarvestAssumption DEF Chunk, HarvestTypes
  <2>3. Calls(x, n, read, state)
    BY <2>1, <2>2, ReadingsArePositions DEF Calls
  <2>4. Active(r) /\ Gathered(r)
    BY <1>0, <1>2, <2>2, <2>3, CallsGrow
  <2>5. CASE x = r
    <3>1. PICK brought \in ExtractTurnState(r, n) : Calls(r, n, Ended(r, n), brought)
      BY <1>0, <1>4, <2>4, <2>5, ChunkCalls
    <3>2. Found(r) = pending[SlotOf(r)]
      BY <1>0, <1>4, <2>4, <2>5, ChunkCalls
    <3>3. QED
      BY <1>0, <2>4, <3>1, <3>2, CallGathers DEF Gathered
  <2>6. CASE x # r
    <3>1. SlotOf(r) # SlotOf(x)
      <4>1. SUFFICES ASSUME SlotOf(r) = SlotOf(x) PROVE FALSE
        OBVIOUS
      <4>2. x \notin Whole /\ RequestId[x] # Absent
        BY <1>0, <2>6, <4>1, SameSlot, InTurn
      <4>3. Active(x)
        BY <2>2, <4>2 DEF Active
      <4>4. QED
        BY <2>4, <2>6, <4>1, <4>3 DEF TurnInv
    <3>2. QED
      BY <1>0, <2>3, <2>4, <3>1, OtherGathers
  <2>7. QED
    BY <2>5, <2>6
<1>5. ASSUME NEW x \in Responses, NEW ok \in BOOLEAN, Respond(x, ok) PROVE Gathered(r)'
  <2>1. /\ x \in Whole /\ x # r /\ x \notin started /\ started' = started \cup {x}
        /\ pos' = [pos EXCEPT ![x] = Size(x)] /\ pos[x] = 0
    BY <1>0, <1>5 DEF Respond, HarvestTypes
  <2>2. r \in started /\ pos'[r] = pos[r]
    BY <1>0, <2>1 DEF HarvestTypes
  <2>3. Active(r) /\ Gathered(r)
    BY <1>2, <2>2 DEF Grown, HarvestTypes
  <2>4. SlotOf(r) # SlotOf(x)
    BY <1>0, <2>1, InTurn
  <2>5. CASE ok
    <3>1. PICK state \in HeaderOrBody(x) :
            HarvestCompleted(x, Size(x), 1..Len(Script[x]), state)
      BY <1>5, <2>5 DEF Respond
    <3>2. Calls(x, Size(x), 1..Len(Script[x]), state)
      BY <2>1, <3>1, WholeCalls
    <3>3. QED
      BY <1>0, <2>3, <2>4, <3>2, OtherGathers
  <2>6. CASE ~ok
    <3>1. pending' = pending
      BY <1>5, <2>6 DEF Respond
    <3>2. QED
      BY <2>2, <2>3, <3>1 DEF Gathered, Latest, Ahead
  <2>7. QED
    BY <2>5, <2>6
<1>6. CASE ApplyConfig
  <2>1. r \in started /\ pos' = pos
    BY <1>0, <1>6 DEF ApplyConfig
  <2>2. Gathered(r)
    BY <1>2, <2>1 DEF Grown, HarvestTypes
  <2>3. r \in disturbed'
    BY <1>6, <2>1, <2>2 DEF ApplyConfig, Gathered
  <2>4. QED
    BY <1>0, <2>3
<1>7. CASE Tick
  <2>1. r \in started /\ pos' = pos /\ pending' = pending
    BY <1>0, <1>7 DEF Tick
  <2>2. Gathered(r)
    BY <1>2, <2>1 DEF Grown, HarvestTypes
  <2>3. QED
    BY <2>1, <2>2 DEF Gathered, Latest, Ahead
<1>8. QED
  BY <1>3, <1>4, <1>5, <1>6, <1>7 DEF HarvestNext

(* After its completion a response carries no other ticket. *)
LEMMA PromotedLasts ==
    ASSUME OneVerdict, HarvestTypes, HarvestTypes', NEW r \in Responses,
           Completed(r), Grown(r), Promoted(r), observed \subseteq observed'
    PROVE  Promoted(r)'
  <1>1. pos[r] \in Nat /\ pos'[r] \in Nat /\ pos'[r] >= pos[r]
    BY DEF HarvestTypes, Grown
  <1>2. PICK i \in 1..Len(Script[r]) : 2 * i <= pos[r] /\ Script[r][i].kind = "completed"
    BY DEF Completed
  <1>3. \A j \in 1..Len(Script[r]) : i < j => Script[r][j].ticket = Absent
    BY <1>2, VerdictOf
  <1>4. SUFFICES ASSUME NEW t \in Tickets, Latest(r, pos'[r], t) PROVE Latest(r, pos[r], t)
    BY DEF Promoted, Latest
  <1>5. \A j \in 1..Len(Script[r]) : 2 * j <= pos[r] => 2 * j <= pos'[r]
    BY <1>1
  <1>6. \A j \in 1..Len(Script[r]) : Script[r][j].ticket = t => 2 * j <= pos[r]
    <2>1. SUFFICES ASSUME NEW j \in 1..Len(Script[r]), Script[r][j].ticket = t
                   PROVE  2 * j <= pos[r]
      OBVIOUS
    <2>2. ~ (i < j)
      BY <1>3, <1>4, <2>1, HarvestAssumption
    <2>3. QED
      BY <1>1, <1>2, <2>2
  <1>7. QED
    BY <1>4, <1>5, <1>6 DEF Latest

(* A completion promotes, and what it promoted stays. *)
LEMMA DoneStep ==
    ASSUME OneVerdict, HarvestTypes, HarvestTypes', TurnInv, GatherInv, DoneInv, HarvestNext
    PROVE  DoneInv'
<1> SUFFICES ASSUME NEW r \in Responses, r \notin disturbed', Completed(r)' PROVE Promoted(r)'
  BY DEF DoneInv
<1>0. /\ disturbed \subseteq disturbed' /\ started \subseteq started' /\ r \notin disturbed
      /\ pos \in [Responses -> Nat]
  BY DisturbedLasts DEF HarvestTypes
<1>1. observed \subseteq observed' /\ Grown(r)
  <2>1. ASSUME NEW x \in Responses, NEW n, NEW read, NEW header, Calls(x, n, read, header)
        PROVE  observed \subseteq observed' /\ Grown(r)
    BY <2>1, Outcome, CallsGrow DEF Calls
  <2>2. QED
    BY <2>1, CallsOrQuiet DEF Quiet
<1>2. CASE Completed(r)
  BY <1>0, <1>1, <1>2, PromotedLasts DEF DoneInv
<1>3. CASE ~Completed(r)
  <2>1. pos'[r] # pos[r]
    BY <1>3 DEF Completed
  <2>2. ASSUME NEW n \in 1..MaxChunk, Chunk(r, n) PROVE Promoted(r)'
    <3>1. /\ n \in Nat /\ n >= 1 /\ r \in started /\ ~Abandoned(r)
          /\ pos[r] + n <= Size(r) /\ Size(r) \in Nat
      BY <2>2, HarvestAssumption, ScriptTypes DEF Chunk, Size
    <3>2. r \notin Whole
      BY <1>0, <3>1 DEF TurnInv
    <3>3. ~Failed(r)
      <4>1. PICK i \in 1..Len(Script[r]) : Script[r][i].kind = "completed"
        BY DEF Completed
      <4>2. \A j \in 1..Len(Script[r]) : Script[r][j].kind # "failed"
        BY <4>1, VerdictOf
      <4>3. QED
        BY <4>2 DEF Failed, Arrived
    <3>4. Gathers(r)
      BY <1>0, <1>3, <3>1, <3>2, <3>3 DEF Gathers
    <3>5. Gathered(r)
      BY <3>4 DEF GatherInv
    <3>6. PICK state \in ExtractTurnState(r, n) : Calls(r, n, Ended(r, n), state)
      BY <2>2, <3>5, ChunkCalls
    <3>7. Found(r) = pending[SlotOf(r)]
      BY <2>2, <3>5, ChunkCalls
    <3>8. QED
      BY <1>3, <3>5, <3>6, <3>7, CallGathers DEF Gathered
  <2>3. ASSUME NEW ok \in BOOLEAN, Respond(r, ok) PROVE Promoted(r)'
    <3>1. /\ started' = started \cup {r} /\ pos' = [pos EXCEPT ![r] = Size(r)] /\ pos[r] = 0
      BY <2>3 DEF Respond, HarvestTypes
    <3>2. ok
      BY <2>3 DEF Respond
    <3>3. PICK state \in HeaderOrBody(r) :
            HarvestCompleted(r, Size(r), 1..Len(Script[r]), state)
      BY <2>3, <3>2 DEF Respond
    <3>4. Calls(r, Size(r), Ended(r, Size(r)), state)
      BY <3>1, <3>3, WholeCalls
    <3>5. CASE state = HeaderOf[r]
      BY <1>3, <3>1, <3>4, <3>5, CallGathers
    <3>6. CASE state \in ExtractTurnState(r, Size(r)) /\ HeaderOf[r] = Absent
      <4>1. \A t \in Tickets : ~Latest(r, pos[r], t)
        BY <3>1, <3>6, ScriptTypes, HarvestAssumption DEF Latest
      <4>2. QED
        BY <1>3, <3>4, <3>6, <4>1, CallGathers
    <3>7. QED
      BY <3>3, <3>5, <3>6 DEF HeaderOrBody
  <2>4. ASSUME NEW x \in Responses, Headers(x) PROVE FALSE
    BY <2>1, <2>4 DEF Headers
  <2>5. ASSUME NEW x \in Responses, x # r, NEW n \in 1..MaxChunk, Chunk(x, n) PROVE FALSE
    BY <1>0, <2>1, <2>5 DEF Chunk
  <2>6. ASSUME NEW x \in Responses, x # r, NEW ok \in BOOLEAN, Respond(x, ok) PROVE FALSE
    BY <1>0, <2>1, <2>6 DEF Respond
  <2>7. CASE ApplyConfig \/ Tick
    BY <2>1, <2>7 DEF ApplyConfig, Tick
  <2>8. QED
    BY <2>2, <2>3, <2>4, <2>5, <2>6, <2>7 DEF HarvestNext
<1>4. QED
  BY <1>2, <1>3

(* LastTicketOf is the last ticket that arrived. *)
LEMMA LatestAtEnd ==
    ASSUME OneVerdict, HarvestTypes, NEW r \in Responses, Completed(r),
           LastTicketOf(r) # Absent
    PROVE  LastTicketOf(r) \in Tickets /\ Latest(r, pos[r], LastTicketOf(r))
  <1> DEFINE end == CHOOSE i \in 1..Len(Script[r]) : Script[r][i].kind = "completed"
             with == {i \in 1..end : Script[r][i].ticket # Absent}
  <1>1. PICK i \in 1..Len(Script[r]) : 2 * i <= pos[r] /\ Script[r][i].kind = "completed"
    BY DEF Completed
  <1>2. end \in 1..Len(Script[r]) /\ Script[r][end].kind = "completed"
    BY <1>1
  <1>3. LastTicketOf(r) = IF with # {} THEN Script[r][Max(with)].ticket ELSE HeaderOf[r]
    BY DEF LastTicketOf
  <1> HIDE DEF end
  <1>4. end = i
    BY <1>1, <1>2, VerdictOf
  <1>5. \A j \in 1..Len(Script[r]) : end < j => Script[r][j].ticket = Absent
    BY <1>2, VerdictOf
  <1>6. Len(Script[r]) \in Nat /\ pos[r] \in Nat /\ end \in Nat /\ end <= Len(Script[r])
        /\ 2 * end <= pos[r]
    BY <1>1, <1>2, <1>4, ScriptTypes DEF HarvestTypes
  <1>7. CASE with = {}
    <2>1. \A j \in 1..Len(Script[r]) : Script[r][j].ticket = Absent
      <3>1. \A j \in 1..end : Script[r][j].ticket = Absent
        BY <1>7
      <3>2. QED
        BY <1>5, <1>6, <3>1
    <2>2. LastTicketOf(r) = HeaderOf[r]
      BY <1>3, <1>7
    <2>3. QED
      BY <2>1, <2>2, ScriptTypes DEF Latest
  <1>8. CASE with # {}
    <2> DEFINE m == Max(with)
    <2>1. with \subseteq 1..end
      OBVIOUS
    <2>2. m \in with /\ \A x \in with : x <= m
      <3> HIDE DEF with
      <3>1. QED
        BY <1>6, <1>8, <2>1, Greatest
    <2>3. LastTicketOf(r) = Script[r][m].ticket
      BY <1>3, <1>8
    <2>4. m \in 1..end
      BY <2>2
    <2>5. \A j \in 1..end : Script[r][j].ticket # Absent => j <= m
      BY <2>2
    <2> HIDE DEF m, with
    <2>6. m \in 1..Len(Script[r]) /\ 2 * m <= pos[r]
      BY <1>6, <2>4
    <2>7. \A j \in 1..Len(Script[r]) : m < j => Script[r][j].ticket = Absent
      <3>1. SUFFICES ASSUME NEW j \in 1..Len(Script[r]), m < j PROVE Script[r][j].ticket = Absent
        OBVIOUS
      <3>2. CASE end < j
        BY <1>5, <3>2
      <3>3. CASE ~ (end < j)
        <4>1. j \in 1..end /\ ~ (j <= m)
          BY <1>6, <2>4, <3>1, <3>3
        <4>2. QED
          BY <2>5, <4>1
      <3>4. QED
        BY <3>2, <3>3
    <2>8. LastTicketOf(r) \in Tickets
      BY <2>3, <2>6, ScriptTypes
    <2>9. QED
      BY <2>3, <2>6, <2>7, <2>8 DEF Latest
  <1>9. QED
    BY <1>7, <1>8

(* A ticket is not lost either: a completed response whose candidate was   *)
(* never dropped, and which is not read behind another attempt, has its    *)
(* last ticket in the cache, for any cuts and interleavings                *)
(* (completion.go).                                                        *)
THEOREM CompletionsArePromoted ==
    ASSUME OneVerdict, RetriesInTurn PROVE HarvestSpec => []CompletedPromotes
<1>1. HarvestInit => TurnInv /\ GatherInv /\ DoneInv
  <2>1. HarvestInit => started = {} /\ \A r \in Responses : pos[r] = 0
    BY DEF HarvestInit
  <2>2. HarvestInit => \A r \in Responses : ~Completed(r)
    BY <2>1 DEF Completed
  <2>3. QED
    BY <2>1, <2>2 DEF TurnInv, GatherInv, DoneInv, Gathers, Active
<1>2. HarvestTypes /\ HarvestTypes' /\ TurnInv /\ GatherInv /\ DoneInv /\ [HarvestNext]_harvestVars
        => (TurnInv /\ GatherInv /\ DoneInv)'
  <2>1. ASSUME HarvestTypes, HarvestTypes', TurnInv, GatherInv, DoneInv, HarvestNext
        PROVE  (TurnInv /\ GatherInv /\ DoneInv)'
    BY <2>1, TurnStep, GatherStep, DoneStep
  <2>2. ASSUME TurnInv, GatherInv, DoneInv, UNCHANGED harvestVars
        PROVE  (TurnInv /\ GatherInv /\ DoneInv)'
    <3>1. /\ started' = started /\ pos' = pos /\ pending' = pending
          /\ observed' = observed /\ disturbed' = disturbed
      BY <2>2 DEF harvestVars
    <3>2. TurnInv'
      BY <2>2, <3>1 DEF TurnInv, Active, Abandoned
    <3>3. GatherInv'
      BY <2>2, <3>1 DEF GatherInv, Gathers, Gathered, Latest, Ahead, Abandoned, Completed, Failed, Arrived
    <3>4. DoneInv'
      BY <2>2, <3>1 DEF DoneInv, Promoted, Latest, Completed
    <3>5. QED
      BY <3>2, <3>3, <3>4
  <2>3. QED
    BY <2>1, <2>2
<1>3. HarvestTypes /\ DoneInv => CompletedPromotes
  <2>1. SUFFICES ASSUME HarvestTypes, DoneInv, NEW r \in Responses \ disturbed,
                        Completed(r), LastTicketOf(r) # Absent
                 PROVE  <<r, LastTicketOf(r)>> \in observed
    BY DEF CompletedPromotes
  <2>2. QED
    BY <2>1, LatestAtEnd DEF DoneInv, Promoted
<1>4. QED
  BY <1>1, <1>2, <1>3, HarvestInvariant, PTL DEF HarvestSpec

=============================================================================
