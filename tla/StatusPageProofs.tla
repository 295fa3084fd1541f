-------------------------- MODULE StatusPageProofs --------------------------
(***************************************************************************)
(* The status page, for any set of accounts and keys and any number of     *)
(* requests and logins: late pages are dropped, the user always has a way  *)
(* on, and an operation acts on the accounts that were checked.  Then the  *)
(* figures the page shows (Bookkeeping).                                   *)
(***************************************************************************)
EXTENDS StatusPage, Bookkeeping, FiniteSetTheorems, TLAPS

(* A page shows ids or aliases, never both. *)
OneNaming(names) == names \subseteq Accounts \/ names \subseteq Aliases

(* A request was sent in the present generation only if it was sent in the *)
(* present login.                                                          *)
RequestInv ==
    /\ session <= generation
    /\ \A r \in flight :
         /\ r.generation <= generation
         /\ r.generation = generation => r.session = session
         /\ OneNaming(r.names)

FrameInv == frame # NoPage => OneNaming(frame.names)

IInv ==
    /\ IsFiniteSet(flight)
    /\ RequestInv /\ FrameInv
    /\ AlwaysAWayOn /\ SelectionIsWhatWasChecked /\ AliasesResolve

-----------------------------------------------------------------------------
(* The script's set of requests stays small. *)

LEMMA Sending ==
  ASSUME IsFiniteSet(flight), Room, NEW x
  PROVE  /\ IsFiniteSet(flight \cup {x})
         /\ Cardinality(flight \cup {x}) <= MaxFlight
<1>1. /\ IsFiniteSet(flight \cup {x})
      /\ \/ Cardinality(flight \cup {x}) = Cardinality(flight)
         \/ Cardinality(flight \cup {x}) = Cardinality(flight) + 1
  BY FS_AddElement
<1>2. Cardinality(flight) \in Nat
  BY FS_CardinalityType
<1>3. QED
  BY <1>1, <1>2, StatusPageAssumption DEF Room

LEMMA Removing ==
  ASSUME IsFiniteSet(flight), Cardinality(flight) <= MaxFlight,
         NEW r \in flight
  PROVE  /\ IsFiniteSet(flight \ {r})
         /\ Cardinality(flight \ {r}) < MaxFlight
<1>1. /\ IsFiniteSet(flight \ {r})
      /\ Cardinality(flight \ {r}) = Cardinality(flight) - 1
  BY FS_RemoveElement
<1>2. Cardinality(flight) \in Nat
  BY FS_CardinalityType
<1>3. QED
  BY <1>1, <1>2, StatusPageAssumption

LEMMA Replacing ==
  ASSUME IsFiniteSet(flight), Cardinality(flight) <= MaxFlight,
         NEW r \in flight, NEW x
  PROVE  /\ IsFiniteSet((flight \ {r}) \cup {x})
         /\ Cardinality((flight \ {r}) \cup {x}) <= MaxFlight
<1> DEFINE rest == flight \ {r}
<1>1. IsFiniteSet(rest) /\ Cardinality(rest) < MaxFlight
  BY Removing
<1>2. /\ IsFiniteSet(rest \cup {x})
      /\ \/ Cardinality(rest \cup {x}) = Cardinality(rest)
         \/ Cardinality(rest \cup {x}) = Cardinality(rest) + 1
  BY <1>1, FS_AddElement
<1>3. Cardinality(rest) \in Nat
  BY <1>1, FS_CardinalityType
<1>4. QED
  BY <1>1, <1>2, <1>3, StatusPageAssumption

-----------------------------------------------------------------------------
(* Type correctness. *)

LEMMA SentIsRequest ==
  ASSUME NEW op \in Loads \cup Operations, NEW names \in SUBSET Names,
         NEW k \in UserKeys \cup {NoKey},
         NEW g \in 0..MaxGeneration, NEW s \in 0..MaxGeneration
  PROVE  Sent(op, names, k, g, s) \in Request
  BY DEF Sent, Request, Answers

LEMMA AnswerIsRequest ==
  ASSUME NEW r \in Request, NEW answer \in Answers, NEW names \in SUBSET Names
  PROVE  [r EXCEPT !.answer = answer, !.names = names] \in Request
  BY DEF Request

LEMMA ResolvedIsName ==
  ASSUME NEW n \in Names, NEW found \in SUBSET Accounts
  PROVE  Resolved(n, found) \in Names
<1>1. CASE \E a \in found : Alias(a) = n
  <2>1. Resolved(n, found) \in found
    BY <1>1 DEF Resolved
  <2>2. QED
    BY <2>1 DEF Names
<1>2. CASE ~ \E a \in found : Alias(a) = n
  BY <1>2 DEF Resolved
<1>3. QED
  BY <1>1, <1>2

LEMMA PageInit == Init => TypeOK /\ IsFiniteSet(flight) /\ session <= generation
<1> SUFFICES ASSUME Init
             PROVE  TypeOK /\ IsFiniteSet(flight) /\ session <= generation
  OBVIOUS
<1>1. IsFiniteSet({}) /\ Cardinality({}) = 0
  BY FS_EmptySet
<1>2. /\ form \in BOOLEAN /\ logout \in BOOLEAN /\ frame \in Page \cup {NoPage}
      /\ selected \subseteq Names \cup {Nobody} /\ target \in Names \cup {None}
      /\ wanted \subseteq Accounts /\ missed \subseteq Accounts
      /\ blind \in BOOLEAN
  BY DEF Init
<1>3. CASE generation = 0 /\ session = 0 /\ flight = {} /\ key = NoKey
  BY <1>1, <1>2, <1>3, StatusPageAssumption DEF TypeOK
<1>4. CASE /\ key \in UserKeys /\ generation = 1 /\ session = 1
           /\ flight = {Sent("hosted", {}, key, 1, 1)}
  <2>1. generation \in 0..MaxGeneration /\ session \in 0..MaxGeneration
    BY <1>4, StatusPageAssumption
  <2>2. Sent("hosted", {}, key, generation, session) \in Request
    BY <1>4, <2>1, SentIsRequest DEF Loads
  <2>3. IsFiniteSet(flight) /\ Cardinality(flight) = 1
    BY <1>4, FS_Singleton
  <2>4. QED
    BY <1>2, <1>4, <2>1, <2>2, <2>3, StatusPageAssumption DEF TypeOK
<1>5. QED
  BY <1>3, <1>4 DEF Init

LEMMA TypeStep ==
  TypeOK /\ IsFiniteSet(flight) /\ session <= generation /\ [Next]_vars =>
    (TypeOK /\ IsFiniteSet(flight) /\ session <= generation)'
<1> SUFFICES ASSUME TypeOK, IsFiniteSet(flight), session <= generation,
                    [Next]_vars
             PROVE  (TypeOK /\ IsFiniteSet(flight) /\ session <= generation)'
  OBVIOUS
<1> USE StatusPageAssumption
<1>1. ASSUME NEW k \in UserKeys, Submit(k)
      PROVE  (TypeOK /\ IsFiniteSet(flight) /\ session <= generation)'
  <2> DEFINE r == Sent("reload", {}, k, generation', session')
  <2>1. /\ generation' \in 0..MaxGeneration /\ session' \in 0..MaxGeneration
        /\ session' <= generation'
    BY <1>1 DEF Submit, TypeOK
  <2>2. r \in Request
    BY <2>1, SentIsRequest DEF Loads
  <2>3. flight' = flight \cup {r} /\ Room
    BY <1>1 DEF Submit
  <2>4. IsFiniteSet(flight') /\ Cardinality(flight') <= MaxFlight
    BY <2>3, Sending
  <2>5. QED
    BY <1>1, <2>1, <2>2, <2>3, <2>4 DEF Submit, TypeOK, pluginVars
<1>2. ASSUME Logout
      PROVE  (TypeOK /\ IsFiniteSet(flight) /\ session <= generation)'
  <2>1. flight' = flight /\ session' = session + 1
    BY <1>2 DEF Logout
  <2>2. /\ generation' \in 0..MaxGeneration /\ session' \in 0..MaxGeneration
        /\ session' <= generation'
    BY <1>2, <2>1 DEF Logout, Clear, TypeOK
  <2>3. QED
    BY <1>2, <2>1, <2>2 DEF Logout, Clear, TypeOK, pluginVars
<1>3. ASSUME NEW op \in Loads \cup Operations, NEW names \in SUBSET Names,
             Click(op, names)
      PROVE  (TypeOK /\ IsFiniteSet(flight) /\ session <= generation)'
  <2> DEFINE r == Sent(op, names, key, generation, session)
  <2>1. r \in Request
    BY SentIsRequest DEF TypeOK
  <2>2. flight' = flight \cup {r} /\ Room
    BY <1>3 DEF Click
  <2>3. IsFiniteSet(flight') /\ Cardinality(flight') <= MaxFlight
    BY <2>2, Sending
  <2>4. QED
    BY <1>3, <2>1, <2>2, <2>3 DEF Click, TypeOK, browserVars, pluginVars,
                                  ghostVars
<1>4. ASSUME NEW r \in flight, Receive(r)
      PROVE  (TypeOK /\ IsFiniteSet(flight) /\ session <= generation)'
  <2>1. r \in Request /\ flight' = flight \ {r}
    BY <1>4 DEF Receive, TypeOK
  <2>2. IsFiniteSet(flight') /\ Cardinality(flight') <= MaxFlight
    <3>1. IsFiniteSet(flight \ {r}) /\ Cardinality(flight \ {r}) < MaxFlight
      BY Removing DEF TypeOK
    <3>2. Cardinality(flight \ {r}) \in Nat
      BY <3>1, FS_CardinalityType
    <3>3. QED
      BY <2>1, <3>1, <3>2
  <2>3. UNCHANGED <<pluginVars, ghostVars>>
    BY <1>4 DEF Receive
  <2>4. flight' \subseteq Request
    BY <2>1 DEF TypeOK
  <2>5. /\ key' \in UserKeys \cup {NoKey} /\ generation' \in 0..MaxGeneration
        /\ form' \in BOOLEAN /\ logout' \in BOOLEAN
        /\ frame' \in Page \cup {NoPage} /\ session <= generation'
    <3>1. [session |-> r.session, names |-> r.names] \in Page
      BY <2>1 DEF Page, Request
    <3>2. CASE r.answer = "refused"
      <4>1. generation < MaxGeneration /\ Clear
        BY <1>4, <3>2 DEF Receive
      <4>2. generation' \in 0..MaxGeneration /\ session <= generation'
        BY <4>1 DEF Clear, TypeOK
      <4>3. QED
        BY <4>1, <4>2 DEF Clear
    <3>3. CASE r.answer = "failed"
      BY <1>4, <3>3 DEF Receive, TypeOK
    <3>4. CASE r.answer = "done"
      <4>1. Show(r)
        BY <1>4, <3>4 DEF Receive
      <4>2. QED
        BY <3>1, <4>1 DEF Show, browserVars, TypeOK
    <3>5. QED
      BY <1>4, <2>1, <3>2, <3>3, <3>4 DEF Receive, Request, Answers
  <2>6. QED
    BY <2>2, <2>3, <2>4, <2>5 DEF TypeOK, pluginVars, ghostVars
<1>5. ASSUME NEW r \in flight, NEW answer \in Answers, NEW names \in SUBSET Names,
             Answered(r, answer, names)
      PROVE  /\ flight' \subseteq Request
             /\ IsFiniteSet(flight') /\ Cardinality(flight') <= MaxFlight
  <2> DEFINE x == [r EXCEPT !.answer = answer, !.names = names]
  <2>1. x \in Request
    BY AnswerIsRequest DEF TypeOK
  <2>2. flight' = (flight \ {r}) \cup {x}
    BY <1>5 DEF Answered
  <2>3. IsFiniteSet(flight') /\ Cardinality(flight') <= MaxFlight
    BY <2>2, Replacing DEF TypeOK
  <2>4. QED
    BY <2>1, <2>2, <2>3 DEF TypeOK
<1>6. ASSUME NEW r \in flight, Dismissed(r)
      PROVE  /\ flight' \subseteq Request
             /\ IsFiniteSet(flight') /\ Cardinality(flight') <= MaxFlight
  <2>1. IsFiniteSet(flight \ {r}) /\ Cardinality(flight \ {r}) < MaxFlight
    BY Removing DEF TypeOK
  <2>2. Cardinality(flight \ {r}) \in Nat
    BY <2>1, FS_CardinalityType
  <2>3. flight' = flight \ {r}
    BY <1>6 DEF Dismissed
  <2>4. QED
    BY <2>1, <2>2, <2>3 DEF TypeOK
<1>7. ASSUME NEW r \in flight, Turn(r) \/ Render(r)
      PROVE  (TypeOK /\ IsFiniteSet(flight) /\ session <= generation)'
  <2>1. /\ flight' \subseteq Request
        /\ IsFiniteSet(flight') /\ Cardinality(flight') <= MaxFlight
    <3>1. CASE Turn(r)
      BY <3>1, <1>5, <1>6 DEF Turn, Answers
    <3>2. CASE Render(r)
      <4>1. PICK rows \in SUBSET Accounts :
              \/ Answered(r, "done", rows)
              \/ Answered(r, "done", {Alias(a) : a \in rows})
        BY <3>2 DEF Render
      <4>2. rows \subseteq Names /\ {Alias(a) : a \in rows} \subseteq Names
        BY DEF Names, Aliases
      <4>3. QED
        BY <4>1, <4>2, <1>5 DEF Answers
    <3>3. QED
      BY <1>7, <3>1, <3>2
  <2>2. UNCHANGED <<browserVars, pluginVars, ghostVars>>
    BY <1>7 DEF Turn, Render
  <2>3. QED
    BY <2>1, <2>2 DEF TypeOK, browserVars, pluginVars, ghostVars
<1>8. ASSUME NEW r \in flight, SaveSelection(r)
      PROVE  (TypeOK /\ IsFiniteSet(flight) /\ session <= generation)'
  <2>1. PICK found \in SUBSET Accounts :
          /\ selected' = Selection({Resolved(n, found) : n \in r.names})
          /\ missed' = {a \in Accounts \ found : Alias(a) \in r.names}
    BY <1>8 DEF SaveSelection
  <2>2. r.names \subseteq Names
    BY DEF TypeOK, Request
  <2>3. {Resolved(n, found) : n \in r.names} \subseteq Names
    BY <2>2, ResolvedIsName
  <2>4. selected' \subseteq Names \cup {Nobody}
    BY <2>1, <2>3 DEF Selection
  <2>5. wanted' \subseteq Accounts /\ missed' \subseteq Accounts
    BY <1>8, <2>1 DEF SaveSelection
  <2>6. QED
    BY <1>8, <1>6, <2>4, <2>5 DEF SaveSelection, TypeOK, browserVars
<1>9. ASSUME NEW r \in flight, OnAccount(r)
      PROVE  (TypeOK /\ IsFiniteSet(flight) /\ session <= generation)'
  <2>1. target' \in Names \cup {None} /\ blind' \in BOOLEAN
    <3>1. CASE UNCHANGED <<target, blind>>
      BY <3>1 DEF TypeOK
    <3>2. CASE \E n \in r.names, found \in SUBSET Accounts :
                 /\ target' = Resolved(n, found)
                 /\ blind' = (\E a \in Accounts \ found : Alias(a) = n)
      <4>1. r.names \subseteq Names
        BY DEF TypeOK, Request
      <4>2. QED
        BY <3>2, <4>1, ResolvedIsName
    <3>3. QED
      BY <1>9, <3>1, <3>2 DEF OnAccount
  <2>2. QED
    BY <1>9, <1>6, <2>1 DEF OnAccount, TypeOK, browserVars
<1>10. CASE UNCHANGED vars
  BY <1>10 DEF vars, browserVars, pluginVars, ghostVars, TypeOK
<1>11. ASSUME Refresh \/ Operate
       PROVE  (TypeOK /\ IsFiniteSet(flight) /\ session <= generation)'
  <2>1. CASE Refresh
    BY <2>1, <1>3 DEF Refresh, Loads
  <2>2. CASE Operate
    <3>1. frame.names \subseteq Names
      BY <2>2 DEF Operate, TypeOK, Page
    <3>2. QED
      BY <2>2, <3>1, <1>3 DEF Operate, Operations
  <2>3. QED
    BY <1>11, <2>1, <2>2
<1>12. QED
  BY <1>1, <1>2, <1>4, <1>7, <1>8, <1>9, <1>10, <1>11 DEF Next

-----------------------------------------------------------------------------
(* Requests and the pages they bring. *)

LEMMA RequestStep ==
  ASSUME TypeOK, RequestInv, FrameInv, [Next]_vars
  PROVE  RequestInv' /\ FrameInv'
<1> USE StatusPageAssumption
<1>0. /\ generation \in Nat /\ session \in Nat
      /\ \A r \in flight : r \in Request /\ r.generation \in Nat
  BY DEF TypeOK, Request
<1>1. ASSUME NEW k \in UserKeys, Submit(k) PROVE RequestInv' /\ FrameInv'
  <2>1. /\ generation' = generation + 1 /\ session' = session + 1
        /\ frame' = frame
        /\ flight' = flight \cup {Sent("reload", {}, k, generation', session')}
    BY <1>1 DEF Submit
  <2>2. QED
    BY <1>0, <2>1 DEF RequestInv, FrameInv, Sent, OneNaming
<1>2. ASSUME NEW op \in Loads \cup Operations, NEW names,
             OneNaming(names), Click(op, names)
      PROVE  RequestInv' /\ FrameInv'
  <2>1. /\ UNCHANGED <<generation, session, frame>>
        /\ flight' = flight \cup {Sent(op, names, key, generation, session)}
    BY <1>2 DEF Click, browserVars, ghostVars
  <2>2. QED
    BY <1>0, <1>2, <2>1 DEF RequestInv, FrameInv, Sent
<1>3. ASSUME Refresh \/ Operate PROVE RequestInv' /\ FrameInv'
  <2>1. CASE Refresh
    BY <2>1, <1>2 DEF Refresh, OneNaming, Loads
  <2>2. CASE Operate
    <3>1. PICK names \in SUBSET frame.names :
            \E op \in Operations : Click(op, names)
      BY <2>2 DEF Operate, Operations
    <3>2. OneNaming(names)
      BY <2>2, <3>1 DEF Operate, FrameInv, OneNaming
    <3>3. QED
      BY <3>1, <3>2, <1>2
  <2>3. QED
    BY <1>3, <2>1, <2>2
<1>4. ASSUME Logout PROVE RequestInv' /\ FrameInv'
  <2>1. /\ generation' = generation + 1 /\ session' = session + 1
        /\ frame' = NoPage /\ flight' = flight
    BY <1>4 DEF Logout, Clear
  <2>2. QED
    BY <1>0, <2>1 DEF RequestInv, FrameInv
<1>5. ASSUME NEW r \in flight, Receive(r) PROVE RequestInv' /\ FrameInv'
  <2>1. flight' \subseteq flight /\ session' = session
    BY <1>5 DEF Receive, ghostVars
  <2>2. CASE r.answer = "refused"
    <3>1. generation' = generation + 1 /\ frame' = NoPage
      BY <1>5, <2>2 DEF Receive, Clear
    <3>2. QED
      BY <1>0, <2>1, <3>1 DEF RequestInv, FrameInv
  <2>3. CASE r.answer = "failed"
    <3>1. generation' = generation /\ frame' = frame
      BY <1>5, <2>3 DEF Receive
    <3>2. QED
      BY <2>1, <3>1 DEF RequestInv, FrameInv
  <2>4. CASE r.answer = "done"
    <3>1. Show(r)
      BY <1>5, <2>4 DEF Receive
    <3>2. generation' = generation
      BY <3>1 DEF Show, browserVars
    <3>3. \/ frame' = frame
          \/ frame'.names = r.names
      BY <3>1 DEF Show, browserVars
    <3>4. OneNaming(r.names)
      BY DEF RequestInv
    <3>5. FrameInv'
      BY <3>3, <3>4 DEF FrameInv
    <3>6. QED
      BY <2>1, <3>2, <3>5 DEF RequestInv
  <2>5. QED
    BY <1>0, <2>2, <2>3, <2>4, <1>5 DEF Receive, Request, Answers
<1>6. ASSUME NEW r \in flight, NEW answer, NEW names, OneNaming(names),
             Answered(r, answer, names), UNCHANGED <<browserVars, ghostVars>>
      PROVE  RequestInv' /\ FrameInv'
  <2> DEFINE x == [r EXCEPT !.answer = answer, !.names = names]
  <2>1. /\ x.generation = r.generation /\ x.session = r.session
        /\ x.names = names
    BY <1>0 DEF Request
  <2>2. flight' = (flight \ {r}) \cup {x}
    BY <1>6 DEF Answered
  <2>3. UNCHANGED <<generation, session, frame>>
    BY <1>6 DEF browserVars, ghostVars
  <2> HIDE DEF x
  <2>4. \A q \in flight' :
          /\ q.generation <= generation
          /\ q.generation = generation => q.session = session
          /\ OneNaming(q.names)
    BY <1>6, <2>1, <2>2 DEF RequestInv
  <2>5. QED
    BY <2>3, <2>4 DEF RequestInv, FrameInv
<1>7. ASSUME NEW r \in flight, Dismissed(r),
             UNCHANGED <<browserVars, session>>
      PROVE  RequestInv' /\ FrameInv'
  BY <1>7 DEF Dismissed, RequestInv, FrameInv, browserVars
<1>8. ASSUME NEW r \in flight, Turn(r) \/ Render(r)
      PROVE  RequestInv' /\ FrameInv'
  <2>1. UNCHANGED <<browserVars, ghostVars>> /\ session' = session
    BY <1>8 DEF Turn, Render, ghostVars
  <2>2. CASE Turn(r)
    BY <2>1, <2>2, <1>6, <1>7 DEF Turn, OneNaming
  <2>3. CASE Render(r)
    <3>1. PICK rows \in SUBSET Accounts :
            \/ Answered(r, "done", rows)
            \/ Answered(r, "done", {Alias(a) : a \in rows})
      BY <2>3 DEF Render
    <3>2. OneNaming(rows) /\ OneNaming({Alias(a) : a \in rows})
      BY DEF OneNaming, Aliases
    <3>3. QED
      BY <2>1, <3>1, <3>2, <1>6
  <2>4. QED
    BY <1>8, <2>2, <2>3
<1>9. ASSUME NEW r \in flight, SaveSelection(r) \/ OnAccount(r)
      PROVE  RequestInv' /\ FrameInv'
  BY <1>9, <1>7 DEF SaveSelection, OnAccount
<1>10. CASE UNCHANGED vars
  BY <1>10 DEF vars, browserVars, ghostVars, RequestInv, FrameInv
<1>11. QED
  BY <1>1, <1>3, <1>4, <1>5, <1>8, <1>9, <1>10 DEF Next

-----------------------------------------------------------------------------
(* The parts of the login page that are visible. *)

LEMMA WayOnStep ==
  ASSUME TypeOK, AlwaysAWayOn, [Next]_vars
  PROVE  AlwaysAWayOn'
<1>1. ASSUME Logout PROVE AlwaysAWayOn'
  BY <1>1 DEF Logout, Clear, AlwaysAWayOn
<1>2. ASSUME NEW r \in flight, Receive(r) PROVE AlwaysAWayOn'
  <2>1. r \in Request
    BY DEF TypeOK
  <2>2. CASE r.answer = "refused"
    BY <1>2, <2>2 DEF Receive, Clear, AlwaysAWayOn
  <2>3. CASE r.answer = "failed"
    BY <1>2, <2>3 DEF Receive, AlwaysAWayOn
  <2>4. CASE r.answer = "done"
    <3>1. Show(r)
      BY <1>2, <2>4 DEF Receive
    <3>2. [session |-> r.session, names |-> r.names] \in Page
      BY <2>1 DEF Page, Request
    <3>3. QED
      BY <3>1, <3>2, StatusPageAssumption DEF Show, AlwaysAWayOn, browserVars
  <2>5. QED
    BY <1>2, <2>1, <2>2, <2>3, <2>4 DEF Receive, Request, Answers
<1>3. CASE UNCHANGED <<form, logout, frame>>
  BY <1>3 DEF AlwaysAWayOn
<1>4. QED
  BY <1>1, <1>2, <1>3 DEF Next, Submit, Refresh, Operate, Click, Turn, Render,
       SaveSelection, OnAccount, browserVars, vars

-----------------------------------------------------------------------------
(* What a name of the page becomes. *)

LEMMA NamesAreDistinct ==
  /\ Accounts \subseteq Names /\ Aliases \subseteq Names
  /\ \A a \in Accounts : Alias(a) \in Aliases /\ Alias(a) \notin Accounts
  /\ Nobody \notin Names /\ None \notin Names
  BY StatusPageAssumption DEF Names, Aliases

(* The id of an account stands for itself; an alias for its account, if it *)
(* is found, and else for itself.                                          *)
LEMMA Resolution ==
  ASSUME NEW found \in SUBSET Accounts, NEW a \in Accounts
  PROVE  /\ Resolved(a, found) = a
         /\ a \in found => Resolved(Alias(a), found) = a
         /\ a \notin found => Resolved(Alias(a), found) = Alias(a)
<1>1. Resolved(a, found) = a
  BY NamesAreDistinct DEF Resolved
<1>2. ASSUME a \in found PROVE Resolved(Alias(a), found) = a
  <2>1. \E b \in found : Alias(b) = Alias(a)
    BY <1>2
  <2>2. PICK b \in found : Resolved(Alias(a), found) = b /\ Alias(b) = Alias(a)
    BY <2>1 DEF Resolved
  <2>3. QED
    BY <2>2, StatusPageAssumption
<1>3. ASSUME a \notin found PROVE Resolved(Alias(a), found) = Alias(a)
  BY <1>3, StatusPageAssumption DEF Resolved
<1>4. QED
  BY <1>1, <1>2, <1>3

(* A name that is resolved to an alias is that alias, looked up in vain.   *)
LEMMA Unfound ==
  ASSUME NEW found \in SUBSET Accounts, NEW n \in Names,
         Resolved(n, found) \in Aliases
  PROVE  /\ n = Resolved(n, found)
         /\ \E a \in Accounts \ found : n = Alias(a)
<1>1. CASE n \in Accounts
  BY <1>1, Resolution, NamesAreDistinct, StatusPageAssumption
<1>2. ASSUME NEW a \in Accounts, n = Alias(a)
      PROVE  n = Resolved(n, found) /\ a \notin found
  BY <1>2, Resolution, StatusPageAssumption
<1>3. QED
  BY <1>1, <1>2 DEF Names, Aliases

LEMMA SelectionStep ==
  ASSUME TypeOK, RequestInv, SelectionIsWhatWasChecked, AliasesResolve,
         [Next]_vars
  PROVE  SelectionIsWhatWasChecked' /\ AliasesResolve'
<1> DEFINE Goal == SelectionIsWhatWasChecked' /\ AliasesResolve'
<1>1. ASSUME NEW r \in flight, SaveSelection(r) PROVE Goal
  <2>1. PICK found \in SUBSET Accounts :
          /\ selected' = Selection({Resolved(n, found) : n \in r.names})
          /\ missed' = {a \in Accounts \ found : Alias(a) \in r.names}
    BY <1>1 DEF SaveSelection
  <2> DEFINE res == {Resolved(n, found) : n \in r.names}
  <2>2. /\ wanted' = {a \in Accounts : a \in r.names \/ Alias(a) \in r.names}
        /\ UNCHANGED <<target, blind>>
    BY <1>1 DEF SaveSelection, Named
  <2>3. r.names \subseteq Names
    BY DEF TypeOK, Request
  <2>4. ASSUME NEW a \in Accounts
        PROVE  a \in res
                 <=> a \in r.names \/ (a \in found /\ Alias(a) \in r.names)
    <3>1. ASSUME NEW n \in r.names, Resolved(n, found) = a
          PROVE  n = a \/ (a \in found /\ n = Alias(a))
      <4>1. CASE n \in Accounts
        BY <3>1, <4>1, Resolution
      <4>2. ASSUME NEW b \in Accounts, n = Alias(b)
            PROVE  a \in found /\ n = Alias(a)
        <5>1. b \in found
          BY <3>1, <4>2, Resolution, NamesAreDistinct
        <5>2. QED
          BY <3>1, <4>2, <5>1, Resolution
      <4>3. QED
        BY <2>3, <4>1, <4>2 DEF Names, Aliases
    <3>2. a \in r.names => a \in res
      <4>1. Resolved(a, found) = a
        BY Resolution
      <4>2. QED
        BY <4>1
    <3>3. a \in found /\ Alias(a) \in r.names => a \in res
      <4>1. a \in found => Resolved(Alias(a), found) = a
        BY Resolution
      <4>2. QED
        BY <4>1
    <3>4. ASSUME a \in res
          PROVE  a \in r.names \/ (a \in found /\ Alias(a) \in r.names)
      <4>1. PICK n \in r.names : a = Resolved(n, found)
        BY <3>4
      <4>2. n = a \/ (a \in found /\ n = Alias(a))
        BY <3>1, <4>1
      <4>3. QED
        BY <4>2
    <3>5. QED
      BY <3>2, <3>3, <3>4
  <2>5. \/ res = {} /\ r.names = {} /\ selected' = {Nobody}
        \/ res # {} /\ selected' = res
    BY <2>1 DEF Selection
  <2>6. ASSUME NEW a \in Accounts
        PROVE  Enabled(a)' <=> a \in wanted' \ missed'
    <3>1. Enabled(a)' <=> a \in res
      <4>1. a # Nobody
        BY NamesAreDistinct
      <4>2. Enabled(a)' <=> a \in selected'
        BY <2>5 DEF Enabled
      <4>3. QED
        BY <2>5, <4>1, <4>2
    <3>2. ~(a \in r.names /\ Alias(a) \in r.names)
      BY NamesAreDistinct, StatusPageAssumption DEF RequestInv, OneNaming
    <3>3. a \in wanted' \ missed'
            <=> a \in r.names \/ (a \in found /\ Alias(a) \in r.names)
      BY <2>1, <2>2, <3>2
    <3>4. QED
      BY <2>4, <3>1, <3>3
  <2>7. selected' \cap Aliases \subseteq {Alias(a) : a \in missed'}
    <3>1. ASSUME NEW x \in res, x \in Aliases
          PROVE  x \in {Alias(a) : a \in missed'}
      <4>1. PICK n \in r.names : x = Resolved(n, found)
        BY <3>1
      <4>2. n = x /\ \E a \in Accounts \ found : n = Alias(a)
        BY <2>3, <3>1, <4>1, Unfound
      <4>3. QED
        BY <2>1, <4>2
    <3>2. Nobody \notin Aliases
      BY NamesAreDistinct
    <3>3. QED
      BY <2>5, <3>1, <3>2
  <2>8. QED
    BY <2>2, <2>6, <2>7 DEF SelectionIsWhatWasChecked, AliasesResolve
<1>2. ASSUME NEW r \in flight, OnAccount(r) PROVE Goal
  <2>1. UNCHANGED <<selected, wanted, missed>>
    BY <1>2 DEF OnAccount
  <2>2. target' \in Aliases => blind'
    <3>1. CASE UNCHANGED <<target, blind>>
      BY <3>1 DEF AliasesResolve
    <3>2. CASE \E n \in r.names, found \in SUBSET Accounts :
                 /\ target' = Resolved(n, found)
                 /\ blind' = (\E a \in Accounts \ found : Alias(a) = n)
      <4>1. r.names \subseteq Names
        BY DEF TypeOK, Request
      <4>2. PICK n \in r.names, found \in SUBSET Accounts :
                 /\ target' = Resolved(n, found)
                 /\ blind' = (\E a \in Accounts \ found : Alias(a) = n)
        BY <3>2
      <4>3. ASSUME target' \in Aliases
            PROVE  \E a \in Accounts \ found : Alias(a) = n
        BY <4>1, <4>2, <4>3, Unfound
      <4>4. QED
        BY <4>2, <4>3
    <3>3. QED
      BY <1>2, <3>1, <3>2 DEF OnAccount
  <2>3. QED
    BY <2>1, <2>2 DEF SelectionIsWhatWasChecked, AliasesResolve, Enabled
<1>3. CASE UNCHANGED <<selected, target, wanted, missed, blind>>
  BY <1>3 DEF SelectionIsWhatWasChecked, AliasesResolve, Enabled
<1>4. QED
  BY <1>1, <1>2, <1>3 DEF Next, Logout, Submit, Refresh, Operate, Click, Receive,
       Turn, Render, pluginVars, ghostVars, vars

-----------------------------------------------------------------------------
LEMMA PageInvariantInit == Init => TypeOK /\ IInv
<1> SUFFICES ASSUME Init PROVE TypeOK /\ IInv
  OBVIOUS
<1>1. TypeOK /\ IsFiniteSet(flight) /\ session <= generation
  BY PageInit
<1>2. \A r \in flight : /\ r.generation = generation
                        /\ r.session = session /\ r.names = {}
  BY DEF Init, Sent
<1>3. RequestInv
  BY <1>1, <1>2 DEF RequestInv, OneNaming, TypeOK
<1>4. FrameInv /\ AlwaysAWayOn
  BY DEF Init, FrameInv, AlwaysAWayOn
<1>5. SelectionIsWhatWasChecked /\ AliasesResolve
  BY NamesAreDistinct DEF Init, SelectionIsWhatWasChecked, AliasesResolve, Enabled
<1>6. QED
  BY <1>1, <1>3, <1>4, <1>5 DEF IInv

LEMMA PageInvariant == Spec => [](TypeOK /\ IInv)
<1>1. TypeOK /\ IInv /\ [Next]_vars => (TypeOK /\ IInv)'
  <2> SUFFICES ASSUME TypeOK, IInv, [Next]_vars PROVE (TypeOK /\ IInv)'
    OBVIOUS
  <2>1. (TypeOK /\ IsFiniteSet(flight))'
    BY TypeStep DEF IInv, RequestInv
  <2>2. (RequestInv /\ FrameInv)'
    BY RequestStep DEF IInv
  <2>3. AlwaysAWayOn'
    BY WayOnStep DEF IInv
  <2>4. (SelectionIsWhatWasChecked /\ AliasesResolve)'
    BY SelectionStep DEF IInv
  <2>5. QED
    BY <2>1, <2>2, <2>3, <2>4 DEF IInv
<1>2. QED
  BY <1>1, PageInvariantInit, PTL DEF Spec

(* Requests, pages and names keep their types, for any number of each.     *)
THEOREM PageTypeCorrect == Spec => []TypeOK
  BY PageInvariant, PTL

(* The form, a page, or a page with the way out: whatever answers come     *)
(* late, the login page is never left without one (status_security.go).    *)
THEOREM NeverStuck == Spec => []AlwaysAWayOn
  BY PageInvariant, PTL DEF IInv

(* The accounts probed are those checked when the selection was last       *)
(* saved, less those looked up in vain (management.go, runtime.go).        *)
THEOREM CheckedIsSelected == Spec => []SelectionIsWhatWasChecked
  BY PageInvariant, PTL DEF IInv

(* No alias is stored as an account unless it was looked up in vain        *)
(* (status_security.go).                                                   *)
THEOREM NoAliasLeft == Spec => []AliasesResolve
  BY PageInvariant, PTL DEF IInv

(* A page asked for before a logout or another login is never put up       *)
(* (status_security.go).                                                   *)
THEOREM LatePagesAreDropped == Spec => LatePagesDropped
<1>1. ASSUME TypeOK, IInv, [Next]_vars, frame' # frame, frame' # NoPage
      PROVE  frame'.session = session
  <2>1. PICK r \in flight : Receive(r)
    BY <1>1 DEF Next, Submit, Logout, Clear, Refresh, Operate, Click, Turn,
         Render, SaveSelection, OnAccount, browserVars, vars
  <2>2. r \in Request
    BY <1>1 DEF TypeOK
  <2>3. r.answer = "done"
    BY <1>1, <2>1, <2>2 DEF Receive, Clear, Request, Answers
  <2>4. Show(r)
    BY <2>1, <2>3 DEF Receive
  <2>5. r.generation = generation /\ frame'.session = r.session
    BY <1>1, <2>4 DEF Show, browserVars
  <2>6. QED
    BY <1>1, <2>5 DEF IInv, RequestInv
<1>2. TypeOK /\ IInv /\ [Next]_vars
        => [frame' # frame /\ frame' # NoPage => frame'.session = session]_vars
  BY <1>1
<1>3. QED
  BY <1>2, PageInvariant, PTL DEF Spec, LatePagesDropped

-----------------------------------------------------------------------------
(***************************************************************************)
(* The counters, the injection log and the combos the page shows, for any  *)
(* number of requests, observers and sessions and any length of the log.   *)
(***************************************************************************)

(* The last n rows of a sequence are a suffix of it. *)
LEMMA LastOfSuffix ==
    ASSUME NEW S, NEW s \in Seq(S), NEW n \in Nat
    PROVE  /\ LastOf(s, n) \in Seq(S)
           /\ s # <<>> /\ n # 0 => Len(LastOf(s, n)) >= 1
           /\ \E d \in Nat : /\ Len(LastOf(s, n)) + d = Len(s)
                             /\ \A i \in 1..Len(LastOf(s, n)) : LastOf(s, n)[i] = s[i + d]
  <1>1. CASE Len(s) > n
    <2> DEFINE d == Len(s) - n
    <2>1. d \in Nat /\ d + 1 \in Nat /\ d + 1 <= Len(s) + 1 /\ Len(s) \in Nat
      BY <1>1
    <2>2. LastOf(s, n) = SubSeq(s, d + 1, Len(s))
      BY <1>1 DEF LastOf
    <2>3. /\ SubSeq(s, d + 1, Len(s)) \in Seq(S)
          /\ Len(SubSeq(s, d + 1, Len(s))) = Len(s) - d
      BY <2>1
    <2>4. \A i \in 1..(Len(s) - d) : SubSeq(s, d + 1, Len(s))[i] = s[i + d]
      BY <2>1
    <2>5. /\ Len(LastOf(s, n)) + d = Len(s)
          /\ \A i \in 1..Len(LastOf(s, n)) : LastOf(s, n)[i] = s[i + d]
      <3> HIDE DEF d
      <3>1. Len(LastOf(s, n)) = Len(s) - d
        BY <2>2, <2>3
      <3>2. \A i \in 1..(Len(s) - d) : LastOf(s, n)[i] = s[i + d]
        BY <2>2, <2>4
      <3>3. QED
        BY <2>1, <3>1, <3>2
    <2>6. LastOf(s, n) \in Seq(S)
      BY <2>2, <2>3
    <2>7. n # 0 => Len(LastOf(s, n)) >= 1
      BY <2>1, <2>2, <2>3
    <2> HIDE DEF d
    <2>8. QED
      BY <2>1, <2>5, <2>6, <2>7
  <1>2. CASE ~ Len(s) > n
    <2>1. LastOf(s, n) = s
      BY <1>2 DEF LastOf
    <2>2. /\ Len(s) \in Nat /\ Len(s) + 0 = Len(s)
          /\ \A i \in 1..Len(s) : i + 0 = i
          /\ s # <<>> => Len(s) >= 1
      OBVIOUS
    <2>3. QED
      BY <2>1, <2>2
  <1>3. QED
    BY <1>1, <1>2

(* Neither a combo nor the file is of a later time than now. *)
BookTypes ==
    /\ BookTypeOK
    /\ combo.started <= now
    /\ disk # Nil => disk.ticket <= now /\ disk.combo.started <= now

-----------------------------------------------------------------------------
(* Counters. *)
Total(c) == c.injections + c.bare

CountInv ==
    /\ \A q \in Requests : stage[q] \in {"new", "hit", "miss"} => q \notin recorded
    /\ ~up => /\ counts = NoCounts
              /\ ~lost /\ disk = Nil => recorded = {}
              /\ ~lost /\ disk # Nil => Total(disk.counts) = Cardinality(recorded)
    /\ up => /\ ~lost => Total(counts) = Cardinality(recorded)
             /\ disk # Nil => disk.counts = counts

(* Combos.  The start of a combo in memory, in the file or still to be     *)
(* opened is of a store of its own, and is not in a sample.                *)
SampleInv ==
    /\ combo.started # 0 => combo.started \notin sampled
    /\ disk # Nil /\ disk.combo.started # 0 => disk.combo.started \notin sampled
    /\ \A o \in Observers : storing[o] # 0 =>
         /\ storing[o] \notin sampled
         /\ storing[o] # combo.started
         /\ disk # Nil => storing[o] # disk.combo.started
         /\ \A p \in Observers \ {o} : storing[p] # storing[o]

(* Usage.  The ticket is newer than the request, or none can be used.      *)
Superseded(q) == Alive(ticket) => asked[q] < ticket

(* Of a request q made at a: behind every entry of its session that has no *)
(* usage stands one of q itself, without usage and with a time that fits.  *)
BehindAt(q, a, s, i) ==
    s[i].usage = Nil /\ SameSession(s[i].id, q) =>
      \E j \in DOMAIN s : /\ i <= j /\ s[j].id = q /\ s[j].usage = Nil
                          /\ s[j].at <= a + Early /\ a <= s[j].at + Late
Behind(q, a, s) == \A i \in DOMAIN s : BehindAt(q, a, s, i)

(* Both in memory and in the file. *)
BehindBoth(q) == /\ Behind(q, asked[q], log)
                 /\ disk # Nil => Behind(q, asked[q], disk.log)

DownInv == ~up => \A q \in Requests : ~UnderWay(q)

(* Only requests that are mixed overlap with others of their session.      *)
OverlapInv ==
    \A q, r \in Requests :
      UnderWay(q) /\ UnderWay(r) /\ SameSession(r, q) /\ q # r => q \in mixed

(* How a request that is not mixed stands to the ticket and to the log.    *)
AskedInv ==
    \A q \in Requests \ mixed :
      /\ stage[q] \in {"miss", "bare"} => Superseded(q)
      /\ stage[q] = "hit" => now <= asked[q] + Early \/ Superseded(q)
      /\ stage[q] = "sent" => Superseded(q) \/ BehindBoth(q)
      /\ stage[q] = "used" => BehindBoth(q)

(* The rows of a log, and all there are in memory and in the file.         *)
RowsOf(s) == {s[i] : i \in DOMAIN s}
Rows == RowsOf(log) \cup (IF disk = Nil THEN {} ELSE RowsOf(disk.log))

OwnInv == \A e \in Rows : e.usage \in {Nil, e.id} \cup mixed

(* A usage has been put to one request's rows, by a request that is done.  *)
CreditInv ==
    /\ \A e \in Rows : e.usage # Nil => stage[e.usage] = "done"
    /\ \A e, f \in Rows : e.usage = f.usage /\ e.usage # Nil => e.id = f.id

-----------------------------------------------------------------------------
LEMMA BookTypesInit == BookInit => BookTypes
  <1> SUFFICES ASSUME BookInit PROVE BookTypes
    OBVIOUS
  <1>1. now \in 1..MaxTime /\ ticket \in 0..now
    BY BookAssumption DEF BookInit
  <1>b. up \in BOOLEAN /\ lost \in BOOLEAN /\ restoring \in BOOLEAN
    BY Zenon DEF BookInit
  <1>c. ttl \in Nat
    BY DEF BookInit
  <1>2. log \in Seq(LogEntry)
    BY DEF BookInit
  <1>3. counts \in Counts /\ combo \in Combo
    BY DEF BookInit, NoCounts, NoCombo, Counts, Combo
  <1>4. stage \in [Requests -> Stages] /\ asked \in [Requests -> 0..now]
    BY DEF BookInit, Stages, NotAsked
  <1>5. /\ storing \in [Observers -> 0..now] /\ recorded \subseteq Requests
        /\ mixed \subseteq Requests /\ sampled \subseteq 0..now
    BY DEF BookInit
  <1>d. disk = Nil /\ disk \in File \cup {Nil}
    BY Zenon DEF BookInit
  <1>6. BookTypeOK
    BY <1>1, <1>b, <1>c, <1>2, <1>3, <1>4, <1>5, <1>d DEF BookTypeOK
  <1>7. combo.started <= now
    BY DEF BookInit, NoCombo
  <1>8. QED
    BY <1>d, <1>6, <1>7, Zenon DEF BookTypes

(* What persistLocked writes is a file, and of no later time than now. *)
LEMMA WritesFile ==
    ASSUME BookTypes, NEW l \in Seq(LogEntry), NEW c \in Counts, NEW b \in Combo,
           b.started <= now, Writes(l, c, b)
    PROVE  /\ disk' \in File
           /\ disk'.ticket <= now /\ disk'.combo.started <= now
           /\ disk'.ticket = ticket /\ disk'.log = l /\ disk'.counts = c
           /\ disk'.combo = b
  <1>1. disk' = [ticket |-> ticket, log |-> l, counts |-> c, combo |-> b]
    BY DEF Writes
  <1>2. ticket \in Nat /\ ticket <= now
    <2>1. ticket \in 0..now
      BY Zenon DEF BookTypes, BookTypeOK
    <2>2. QED
      BY <2>1
  <1>3. /\ disk'.ticket = ticket /\ disk'.log = l /\ disk'.counts = c
        /\ disk'.combo = b
    BY <1>1
  <1>4. disk' \in File
    BY <1>1, <1>2 DEF File
  <1>5. QED
    BY <1>2, <1>3, <1>4

(* From i on, log l goes on as log s does, d rows further on. *)
GoesOn(l, i, s, d) ==
    /\ i + d \in DOMAIN s /\ l[i] = s[i + d]
    /\ \A k \in DOMAIN s : k >= i + d => k - d \in DOMAIN l /\ l[k - d] = s[k]

(* The log after recordInjection: the new entry is the last, and those     *)
(* before it are entries of the log, in their order.                       *)
LEMMA Recorded ==
    ASSUME NEW s \in Seq(LogEntry), NEW e \in LogEntry,
           NEW l, l = LastOf(Append(s, e), Limit)
    PROVE  /\ l \in Seq(LogEntry)
           /\ Len(l) \in DOMAIN l /\ l[Len(l)] = e
           /\ \E d \in Int : \A i \in DOMAIN l : i # Len(l) => GoesOn(l, i, s, d)
  <1> DEFINE a == Append(s, e)
  <1>1. /\ a \in Seq(LogEntry) /\ Len(a) = Len(s) + 1 /\ a # <<>>
        /\ a[Len(s) + 1] = e /\ \A k \in 1..Len(s) : a[k] = s[k]
    OBVIOUS
  <1>2. Limit \in Nat /\ Limit # 0
    BY BookAssumption
  <1>a. l = LastOf(a, Limit)
    OBVIOUS
  <1> HIDE DEF a
  <1>3. /\ l \in Seq(LogEntry) /\ Len(l) >= 1
        /\ \E d \in Nat : /\ Len(l) + d = Len(a)
                          /\ \A i \in 1..Len(l) : l[i] = a[i + d]
    <2> DEFINE v == LastOf(a, Limit)
    <2>1. /\ v \in Seq(LogEntry) /\ (a # <<>> /\ Limit # 0 => Len(v) >= 1)
          /\ \E d \in Nat : /\ Len(v) + d = Len(a)
                            /\ \A i \in 1..Len(v) : v[i] = a[i + d]
      BY <1>1, <1>2, LastOfSuffix
    <2>2. l = v
      BY <1>a
    <2> HIDE DEF v
    <2>3. QED
      BY <1>1, <1>2, <2>1, <2>2
  <1>4. PICK d \in Nat : /\ Len(l) + d = Len(a)
                         /\ \A i \in 1..Len(l) : l[i] = a[i + d]
    BY <1>3
  <1>5. /\ Len(l) \in Nat /\ DOMAIN l = 1..Len(l) /\ Len(s) \in Nat /\ DOMAIN s = 1..Len(s)
        /\ Len(l) \in 1..Len(l)
    BY <1>3
  <1>6. l[Len(l)] = e
    BY <1>1, <1>4, <1>5
  <1>7. ASSUME NEW i \in DOMAIN l, i # Len(l)
        PROVE  GoesOn(l, i, s, d)
    <2>1. i + d \in 1..Len(s)
      BY <1>1, <1>4, <1>5, <1>7
    <2>2. l[i] = s[i + d]
      BY <1>1, <1>4, <1>5, <2>1
    <2>3. ASSUME NEW k \in DOMAIN s, k >= i + d
          PROVE  k - d \in DOMAIN l /\ l[k - d] = s[k]
      <3>1. k - d \in 1..Len(l) /\ (k - d) + d = k /\ k \in 1..Len(s)
        BY <1>1, <1>4, <1>5, <2>3
      <3>2. QED
        BY <1>1, <1>4, <1>5, <3>1
    <2>4. QED
      BY <1>5, <2>1, <2>2, <2>3 DEF GoesOn
  <1>8. d \in Int
    OBVIOUS
  <1>9. l \in Seq(LogEntry) /\ Len(l) \in DOMAIN l
    BY <1>3, <1>5
  <1>10. QED
    BY <1>6, <1>7, <1>8, <1>9, Zenon

(* The log after a reload: first that in memory, then rows of the file.    *)
LEMMA Reloaded ==
    ASSUME NEW s \in Seq(LogEntry), NEW t \in Seq(LogEntry),
           NEW l, l = s \o LastOf(t, Limit)
    PROVE  /\ l \in Seq(LogEntry)
           /\ \A i \in DOMAIN l : i <= Len(s) => GoesOn(l, i, s, 0)
           /\ \E d \in Int : \A i \in DOMAIN l : i > Len(s) => GoesOn(l, i, t, d)
  <1> DEFINE u == LastOf(t, Limit)
  <1>1. Limit \in Nat
    BY BookAssumption
  <1>2. u \in Seq(LogEntry)
    BY <1>1, LastOfSuffix
  <1>3. PICK d \in Nat : /\ Len(u) + d = Len(t)
                         /\ \A i \in 1..Len(u) : u[i] = t[i + d]
    BY <1>1, LastOfSuffix
  <1>u. l = s \o u
    OBVIOUS
  <1> HIDE DEF u
  <1>4. /\ l \in Seq(LogEntry) /\ Len(l) = Len(s) + Len(u)
        /\ \A i \in 1..(Len(s) + Len(u)) : l[i] = IF i <= Len(s) THEN s[i] ELSE u[i - Len(s)]
    BY <1>2, <1>u
  <1>5. /\ Len(s) \in Nat /\ Len(t) \in Nat /\ Len(u) \in Nat
        /\ DOMAIN s = 1..Len(s) /\ DOMAIN t = 1..Len(t) /\ DOMAIN l = 1..(Len(s) + Len(u))
    BY <1>2, <1>4
  <1> DEFINE e == d - Len(s)
  <1>6. e \in Int
    BY <1>5
  <1>7. ASSUME NEW i \in DOMAIN l, i > Len(s)
        PROVE  i + e \in DOMAIN t /\ l[i] = t[i + e]
    <2>1. i - Len(s) \in 1..Len(u) /\ i \in 1..(Len(s) + Len(u))
      BY <1>5, <1>7
    <2>2. l[i] = u[i - Len(s)]
      BY <1>4, <1>5, <1>7, <2>1
    <2>3. (i - Len(s)) + d = i + e
      BY <1>5, <2>1
    <2>4. i + e \in 1..Len(t)
      BY <1>3, <1>5, <2>1
    <2>5. QED
      BY <1>3, <1>5, <2>1, <2>2, <2>3, <2>4
  <1>8. ASSUME NEW i \in DOMAIN l, i > Len(s) PROVE GoesOn(l, i, t, e)
    <2>1. ASSUME NEW k \in DOMAIN t, k >= i + e
          PROVE  k - e \in DOMAIN l /\ l[k - e] = t[k]
      <3>1. k - e \in DOMAIN l /\ k - e > Len(s) /\ (k - e) + e = k
        BY <1>3, <1>5, <1>8, <2>1
      <3>2. l[k - e] = t[(k - e) + e]
        BY <1>7, <3>1
      <3>3. QED
        BY <3>1, <3>2
    <2>2. QED
      BY <1>7, <1>8, <2>1 DEF GoesOn
  <1>9. ASSUME NEW i \in DOMAIN l, i <= Len(s) PROVE GoesOn(l, i, s, 0)
    <2>1. i + 0 = i /\ \A k \in DOMAIN s : k - 0 = k
      BY <1>5
    <2>2. /\ i \in DOMAIN s /\ l[i] = s[i]
          /\ \A k \in DOMAIN s : k >= i => k \in DOMAIN l /\ l[k] = s[k]
      BY <1>4, <1>5, <1>9
    <2>3. QED
      BY <2>1, <2>2 DEF GoesOn
  <1> HIDE DEF e
  <1>10. QED
    BY <1>4, <1>6, <1>8, <1>9

(* observeState starts the combo anew. *)
LEMMA ComboStarts ==
    ASSUME NEW b \in Combo, NEW n \in Nat
    PROVE  /\ [b EXCEPT !.started = n] \in Combo
           /\ [b EXCEPT !.started = n].started = n
  <1>1. b.started \in Nat /\ b.invalidated \in Nat
        /\ b = [started |-> b.started, invalidated |-> b.invalidated]
    BY DEF Combo
  <1>2. [b EXCEPT !.started = n] = [started |-> n, invalidated |-> b.invalidated]
    BY <1>1
  <1>3. QED
    BY <1>1, <1>2 DEF Combo

(* One more injection, and one more bare request. *)
LEMMA CountedOnce ==
    ASSUME NEW c \in Counts
    PROVE  /\ [c EXCEPT !.injections = @ + 1] \in Counts
           /\ [c EXCEPT !.bare = @ + 1] \in Counts
           /\ Total(c) \in Nat
           /\ Total([c EXCEPT !.injections = @ + 1]) = Total(c) + 1
           /\ Total([c EXCEPT !.bare = @ + 1]) = Total(c) + 1
  <1>1. /\ c.injections \in Nat /\ c.bare \in Nat
        /\ c = [injections |-> c.injections, bare |-> c.bare]
    BY DEF Counts
  <1>2. /\ [c EXCEPT !.injections = @ + 1] = [injections |-> c.injections + 1, bare |-> c.bare]
        /\ [c EXCEPT !.bare = @ + 1] = [injections |-> c.injections, bare |-> c.bare + 1]
    BY <1>1
  <1>3. QED
    BY <1>1, <1>2 DEF Counts, Total

(* attachUsageToInjection changes the usage of entries, and nothing else.   *)
WithUsage(s, A, q) ==
    [i \in DOMAIN s |-> IF i \in A THEN [s[i] EXCEPT !.usage = q] ELSE s[i]]

LEMMA UsageKeepsLog ==
    ASSUME NEW s \in Seq(LogEntry), NEW q \in Requests, NEW A,
           NEW l, l = WithUsage(s, A, q)
    PROVE  /\ l \in Seq(LogEntry) /\ Len(l) = Len(s) /\ DOMAIN l = DOMAIN s
           /\ \A i \in DOMAIN s :
                /\ l[i].id = s[i].id /\ l[i].at = s[i].at
                /\ l[i].usage = IF i \in A THEN q ELSE s[i].usage
  <1>1. DOMAIN s = 1..Len(s) /\ Len(s) \in Nat /\ \A i \in DOMAIN s : s[i] \in LogEntry
    OBVIOUS
  <1>2. \A i \in DOMAIN s : l[i] \in LogEntry
    BY <1>1 DEF LogEntry, WithUsage
  <1>3. l \in [1..Len(s) -> LogEntry]
    BY <1>1, <1>2 DEF WithUsage
  <1>4. l \in Seq(LogEntry) /\ Len(l) = Len(s)
    BY <1>1, <1>3
  <1>5. ASSUME NEW i \in DOMAIN s
        PROVE  /\ l[i].id = s[i].id /\ l[i].at = s[i].at
               /\ l[i].usage = IF i \in A THEN q ELSE s[i].usage
    BY <1>1 DEF LogEntry, WithUsage
  <1>6. QED
    BY <1>4, <1>5

-----------------------------------------------------------------------------
LEMMA BookTypesStep ==
    ASSUME BookTypes, BookNext PROVE BookTypes'
  <1>a. Nil \notin Requests /\ MaxTime \in Nat /\ Limit \in Nat
    BY BookAssumption
  <1>t. /\ now \in 1..MaxTime /\ now \in Nat
        /\ ticket \in 0..now /\ ticket \in Nat
        /\ log \in Seq(LogEntry)
        /\ counts \in Counts
        /\ combo \in Combo
        /\ disk \in File \cup {Nil}
        /\ stage \in [Requests -> Stages]
        /\ asked \in [Requests -> 0..now]
        /\ storing \in [Observers -> 0..now]
        /\ recorded \subseteq Requests /\ mixed \subseteq Requests
        /\ sampled \subseteq 0..now /\ ttl \in Nat
    BY <1>a DEF BookTypes, BookTypeOK
  <1>b. up \in BOOLEAN /\ lost \in BOOLEAN /\ restoring \in BOOLEAN
    BY Zenon DEF BookTypes, BookTypeOK
  <1>m. InFlight \subseteq Requests
    BY DEF InFlight
  <1>d. disk # Nil => disk \in File /\ disk.ticket <= now /\ disk.combo.started <= now
    BY <1>t DEF BookTypes
  <1>c. /\ combo.started \in Nat /\ combo.invalidated \in Nat /\ combo.started <= now
        /\ counts.injections \in Nat /\ counts.bare \in Nat
    BY <1>t DEF BookTypes, Combo, Counts
  <1>n. /\ now' = now => /\ asked \in [Requests -> 0..now']
                         /\ storing \in [Observers -> 0..now']
                         /\ sampled \subseteq 0..now'
                         /\ ticket \in 0..now'
        /\ now' = now + 1 => /\ asked \in [Requests -> 0..now']
                             /\ storing \in [Observers -> 0..now']
                             /\ sampled \subseteq 0..now'
                             /\ ticket \in 0..now'
    BY <1>t
  <1>1. ASSUME NEW q \in Requests, Lookup(q) PROVE BookTypes'
    <2>1. /\ asked' = [asked EXCEPT ![q] = now]
          /\ stage' = [stage EXCEPT ![q] = IF Alive(ticket) THEN "hit" ELSE "miss"]
          /\ mixed' \subseteq Requests
          /\ UNCHANGED <<now, up, ttl, restoring, ticket, log, counts, combo, disk,
                         storing, recorded, sampled, lost>>
      BY <1>t, <1>m, <1>1 DEF Lookup, config, books
    <2>2. asked' \in [Requests -> 0..now'] /\ stage' \in [Requests -> Stages]
      BY <1>t, <2>1 DEF Stages
    <2>3. QED
      BY <1>t, <1>b, <1>c, <1>d, <2>1, <2>2 DEF BookTypes, BookTypeOK
  <1>2. ASSUME NEW q \in Requests, RecordInjection(q) PROVE BookTypes'
    <2> DEFINE e == [id |-> q, at |-> now, usage |-> Nil]
               c == [counts EXCEPT !.injections = @ + 1]
    <2>1. /\ log' = LastOf(Append(log, e), Limit) /\ counts' = c
          /\ Writes(log', c, combo)
          /\ stage' = [stage EXCEPT ![q] = "sent"] /\ recorded' = recorded \cup {q}
          /\ UNCHANGED <<now, up, ttl, restoring, ticket, combo, asked, storing, mixed,
                         sampled, lost>>
      BY <1>2 DEF RecordInjection, config
    <2>2. e \in LogEntry
      BY <1>t DEF LogEntry
    <2>3. c \in Counts
      BY <1>t, CountedOnce
    <2>4. stage' \in [Requests -> Stages] /\ recorded' \subseteq Requests
      BY <1>t, <2>1 DEF Stages
    <2> HIDE DEF e, c
    <2>5. log' \in Seq(LogEntry)
      BY <1>t, <2>1, <2>2, Recorded
    <2>6. disk' \in File /\ disk'.ticket <= now /\ disk'.combo.started <= now
      BY <1>t, <1>c, <2>1, <2>3, <2>5, WritesFile
    <2>7. QED
      BY <1>t, <1>b, <1>c, <2>1, <2>3, <2>4, <2>5, <2>6 DEF BookTypes, BookTypeOK
  <1>3. ASSUME NEW q \in Requests, RecordBare(q) PROVE BookTypes'
    <2> DEFINE c == [counts EXCEPT !.bare = @ + 1]
    <2>1. /\ counts' = c /\ combo' = Closed
          /\ Writes(log, c, Closed)
          /\ sampled' = IF Open THEN sampled \cup {combo.started} ELSE sampled
          /\ stage' = [stage EXCEPT ![q] = "bare"] /\ recorded' = recorded \cup {q}
          /\ UNCHANGED <<now, up, ttl, restoring, ticket, log, asked, storing, mixed,
                         lost>>
      BY <1>3 DEF RecordBare, config
    <2>2. Closed \in Combo /\ Closed.started <= now
      BY <1>t, <1>c DEF Closed, Combo
    <2>3. c \in Counts
      BY <1>t, CountedOnce
    <2>4. stage' \in [Requests -> Stages] /\ recorded' \subseteq Requests
      BY <1>t, <2>1 DEF Stages
    <2>5. sampled' \subseteq 0..now
      BY <1>t, <1>c, <2>1
    <2> HIDE DEF c
    <2>6. disk' \in File /\ disk'.ticket <= now /\ disk'.combo.started <= now
      BY <1>t, <2>1, <2>2, <2>3, WritesFile
    <2>7. QED
      BY <1>t, <1>b, <2>1, <2>2, <2>3, <2>4, <2>5, <2>6 DEF BookTypes, BookTypeOK
  <1>4. ASSUME NEW q \in Requests, Attach(q) PROVE BookTypes'
    <2>1. /\ log' = WithUsage(log, Matches(q), q)
          /\ stage' = [stage EXCEPT ![q] = "done"] /\ asked' = [asked EXCEPT ![q] = 0]
          /\ UNCHANGED <<now, up, ttl, restoring, ticket, counts, combo, disk, storing,
                         recorded, mixed, sampled, lost>>
      BY <1>4 DEF Attach, Finish, WithUsage, config, ghosts
    <2>2. log' \in Seq(LogEntry)
      BY <1>t, <2>1, UsageKeepsLog
    <2>3. stage' \in [Requests -> Stages] /\ asked' \in [Requests -> 0..now]
      BY <1>t, <2>1 DEF Stages
    <2>4. QED
      BY <1>t, <1>b, <1>c, <1>d, <2>1, <2>2, <2>3 DEF BookTypes, BookTypeOK
  <1>5. ASSUME NEW q \in Requests, Usage(q) \/ Abandon(q) PROVE BookTypes'
    <2>1. /\ \/ stage' = [stage EXCEPT ![q] = "used"] /\ asked' = asked
             \/ stage' = [stage EXCEPT ![q] = "done"] /\ asked' = [asked EXCEPT ![q] = 0]
          /\ UNCHANGED <<now, up, ttl, restoring, ticket, log, counts, combo, disk,
                         storing, recorded, mixed, sampled, lost>>
      BY <1>5 DEF Usage, Abandon, Finish, config, books, ghosts
    <2>2. stage' \in [Requests -> Stages]
      BY <1>t, <2>1 DEF Stages
    <2>3. asked' \in [Requests -> 0..now]
      <3>1. 0 \in 0..now
        BY <1>t
      <3>2. [asked EXCEPT ![q] = 0] \in [Requests -> 0..now]
        BY <1>t, <3>1
      <3>3. QED
        BY <1>t, <2>1, <3>2
    <2>4. QED
      BY <1>t, <1>b, <1>c, <1>d, <2>1, <2>2, <2>3 DEF BookTypes, BookTypeOK
  <1>6. ASSUME NEW o \in Observers, Store(o) PROVE BookTypes'
    <2>1. /\ now < MaxTime /\ now' = now + 1 /\ ticket' = now'
          /\ storing' = [storing EXCEPT ![o] = now']
          /\ UNCHANGED <<up, ttl, restoring, log, counts, combo, disk, stage, asked,
                         recorded, mixed, sampled, lost>>
      BY <1>6 DEF Store, config, books, ghosts
    <2>2. now' \in 1..MaxTime /\ ticket' \in 0..now' /\ now <= now' /\ now' \in Nat
      BY <1>a, <1>t, <2>1
    <2>3. storing' \in [Observers -> 0..now']
      BY <1>t, <1>n, <2>1, <2>2
    <2>4. combo'.started <= now' /\ (disk' # Nil => disk'.ticket <= now' /\ disk'.combo.started <= now')
      BY <1>t, <1>c, <1>d, <2>1, <2>2 DEF File, Combo
    <2>5. QED
      BY <1>t, <1>b, <1>n, <2>1, <2>2, <2>3, <2>4 DEF BookTypes, BookTypeOK
  <1>7. ASSUME NEW o \in Observers, StartCombo(o) PROVE BookTypes'
    <2>1. /\ combo' = [combo EXCEPT !.started = storing[o]]
          /\ storing' = [storing EXCEPT ![o] = 0]
          /\ UNCHANGED <<now, up, ttl, restoring, ticket, log, counts, disk, stage,
                         asked, recorded, mixed, sampled, lost>>
      BY <1>7 DEF StartCombo, config, ghosts
    <2>2. combo' \in Combo /\ combo'.started <= now
      <3>1. storing[o] \in Nat /\ storing[o] <= now
        BY <1>t
      <3>2. QED
        BY <1>t, <2>1, <3>1, ComboStarts
    <2>3. storing' \in [Observers -> 0..now']
      BY <1>t, <2>1
    <2>4. QED
      BY <1>t, <1>b, <1>d, <2>1, <2>2, <2>3 DEF BookTypes, BookTypeOK
  <1>8. CASE PutManual
    <2>1. /\ now < MaxTime /\ now' = now + 1 /\ ticket' = now'
          /\ UNCHANGED <<up, ttl, restoring, log, counts, combo, disk, stage, asked,
                         storing, recorded, mixed, sampled, lost>>
      BY <1>8 DEF PutManual, config, books, ghosts
    <2>2. now' \in 1..MaxTime /\ ticket' \in 0..now' /\ now <= now' /\ now' \in Nat
      BY <1>a, <1>t, <2>1
    <2>3. combo'.started <= now' /\ (disk' # Nil => disk'.ticket <= now' /\ disk'.combo.started <= now')
      BY <1>t, <1>c, <1>d, <2>1, <2>2 DEF File, Combo
    <2>4. QED
      BY <1>t, <1>b, <1>n, <2>1, <2>2, <2>3 DEF BookTypes, BookTypeOK
  <1>9. CASE Persist
    <2>1. /\ Writes(log, counts, combo)
          /\ UNCHANGED <<now, up, ttl, restoring, ticket, log, counts, combo, stage,
                         asked, storing, recorded, mixed, sampled, lost>>
      BY <1>9 DEF Persist, config, books, ghosts
    <2>2. disk' \in File /\ disk'.ticket <= now /\ disk'.combo.started <= now
      BY <1>t, <1>c, <2>1, WritesFile
    <2>3. QED
      BY <1>t, <1>b, <1>c, <2>1, <2>2 DEF BookTypes, BookTypeOK
  <1>10. CASE PersistTorn
    BY <1>t, <1>b, <1>c, <1>10 DEF PersistTorn, BookTypes, BookTypeOK, config, books, ghosts
  <1>11. ASSUME NEW life \in Lives, NEW empty \in BOOLEAN, Reconfigure(life, empty)
         PROVE  BookTypes'
    <2> DEFINE kept == IF AliveFor(ticket, life) THEN ticket ELSE 0
    <2>1. /\ ttl' = life /\ ticket' = kept
          /\ mixed' \subseteq Requests
          /\ UNCHANGED <<now, up, log, counts, combo, disk, stage, asked, storing,
                         recorded, sampled, lost>>
      BY <1>t, <1>m, <1>11 DEF Reconfigure, books
    <2>2. restoring' \in BOOLEAN
      <3>1. restoring' = (empty /\ kept = 0)
        BY <1>11, Zenon DEF Reconfigure
      <3>2. QED
        BY <3>1, Zenon
    <2>3. ticket' \in 0..now /\ ttl' \in Nat
      BY <1>t, <2>1, BookAssumption
    <2> HIDE DEF kept
    <2>4. QED
      BY <1>t, <1>b, <1>c, <1>d, <2>1, <2>2, <2>3 DEF BookTypes, BookTypeOK
  <1>15. CASE RestoreFile
    <2>1. /\ disk # Nil
          /\ ticket' = Restored(disk.ticket)
          /\ log' = log \o LastOf(disk.log, Limit)
          /\ counts' = ReloadTakes(disk.counts)
          /\ combo' = IF disk.combo # NoCombo THEN disk.combo ELSE combo
          /\ mixed' \subseteq Requests
          /\ UNCHANGED <<now, ttl, disk, stage, asked, storing, recorded, sampled, lost>>
      BY <1>t, <1>m, <1>15 DEF RestoreFile
    <2>2. up' \in BOOLEAN /\ restoring' \in BOOLEAN
      BY <1>15, Zenon DEF RestoreFile
    <2>3. ticket' \in 0..now
      BY <1>t, <1>d, <2>1 DEF File, Restored
    <2>4. counts' \in Counts
      BY <1>t, <1>d, <2>1 DEF File, ReloadTakes
    <2>5. combo' \in Combo /\ combo'.started <= now
      BY <1>t, <1>c, <1>d, <2>1 DEF File
    <2>6. log' \in Seq(LogEntry)
      <3>1. disk.log \in Seq(LogEntry)
        BY <1>d, <2>1 DEF File
      <3>2. QED
        BY <1>t, <2>1, <3>1, Reloaded, Zenon
    <2>7. QED
      BY <1>t, <1>b, <1>d, <2>1, <2>2, <2>3, <2>4, <2>5, <2>6 DEF BookTypes, BookTypeOK
  <1>16. CASE RestoreNothing
    <2>1. /\ disk = Nil
          /\ UNCHANGED <<now, ttl, ticket, log, counts, combo, disk, stage, asked,
                         storing, recorded, mixed, sampled, lost>>
      BY <1>16 DEF RestoreNothing, books, ghosts
    <2>2. up' \in BOOLEAN /\ restoring' \in BOOLEAN
      BY <1>16, Zenon DEF RestoreNothing
    <2>3. QED
      BY <1>t, <1>b, <1>c, <2>1, <2>2 DEF BookTypes, BookTypeOK
  <1>12. CASE Crash
    <2>1. /\ ticket' = 0 /\ log' = <<>> /\ counts' = NoCounts /\ combo' = NoCombo
          /\ storing' = [o \in Observers |-> 0] /\ ttl' = 0
          /\ stage' = [q \in Requests |-> IF stage[q] = "new" THEN "new" ELSE "done"]
          /\ asked' = NotAsked
          /\ UNCHANGED <<now, disk, recorded, mixed, sampled>>
      BY <1>12 DEF Crash
    <2>2. log' \in Seq(LogEntry)
      BY <2>1
    <2>3. counts' \in Counts /\ combo' \in Combo /\ combo'.started = 0
      BY <2>1 DEF NoCounts, NoCombo, Counts, Combo
    <2>4. /\ storing' \in [Observers -> 0..now] /\ stage' \in [Requests -> Stages]
          /\ asked' \in [Requests -> 0..now]
      BY <1>t, <2>1 DEF Stages, NotAsked
    <2>5. up' \in BOOLEAN /\ restoring' \in BOOLEAN /\ lost' \in BOOLEAN
      <3>1. up' = FALSE /\ restoring' = FALSE /\ lost' = (lost \/ (disk = Nil /\ recorded # {}))
        BY <1>12, Zenon DEF Crash
      <3>2. QED
        BY <3>1, Zenon
    <2>6. ticket' \in 0..now' /\ combo'.started <= now'
      BY <1>t, <2>1, <2>3
    <2>7. QED
      BY <1>t, <1>d, <2>1, <2>2, <2>3, <2>4, <2>5, <2>6 DEF BookTypes, BookTypeOK
  <1>13. CASE Tick
    <2>1. /\ now < MaxTime /\ now' = now + 1
          /\ UNCHANGED <<up, ttl, restoring, ticket, log, counts, combo, disk, stage,
                         asked, storing, recorded, mixed, sampled, lost>>
      BY <1>13 DEF Tick, config, books, ghosts
    <2>2. now' \in 1..MaxTime /\ now <= now' /\ now' \in Nat
      BY <1>a, <1>t, <2>1
    <2>3. combo'.started <= now' /\ (disk' # Nil => disk'.ticket <= now' /\ disk'.combo.started <= now')
      BY <1>t, <1>c, <1>d, <2>1, <2>2 DEF File, Combo
    <2>4. QED
      BY <1>t, <1>b, <1>n, <2>1, <2>2, <2>3 DEF BookTypes, BookTypeOK
  <1>14. QED
    BY <1>1, <1>2, <1>3, <1>4, <1>5, <1>6, <1>7, <1>8, <1>9, <1>10, <1>11, <1>12, <1>13,
       <1>15, <1>16 DEF BookNext
-----------------------------------------------------------------------------
LEMMA CountInit == BookInit => CountInv
  <1>1. Total(NoCounts) = 0 /\ Cardinality({}) = 0
    BY FS_EmptySet DEF Total, NoCounts
  <1>2. QED
    BY <1>1, Zenon DEF BookInit, CountInv

(* A request that was not counted is counted. *)
LEMMA CountsOneMore ==
    ASSUME BookTypes, CountInv, NEW q \in Requests, stage[q] \in {"new", "hit", "miss"}
    PROVE  /\ Cardinality(recorded) \in Nat
           /\ Cardinality(recorded \cup {q}) = Cardinality(recorded) + 1
  <1>1. q \notin recorded
    BY Zenon DEF CountInv
  <1>2. IsFiniteSet(recorded)
    BY BookAssumption, FS_Subset DEF BookTypes, BookTypeOK
  <1>3. QED
    BY <1>1, <1>2, FS_AddElement, FS_CardinalityType

(* A step keeps the counters and the file in agreement. *)
LEMMA CountStep ==
    ASSUME BookTypes, CountInv, BookNext PROVE CountInv'
  <1>t. /\ log \in Seq(LogEntry) /\ counts \in Counts /\ combo \in Combo
        /\ combo.started <= now /\ disk \in File \cup {Nil}
        /\ stage \in [Requests -> Stages] /\ recorded \subseteq Requests
    BY DEF BookTypes, BookTypeOK
  <1>i. /\ \A q \in Requests : stage[q] \in {"new", "hit", "miss"} => q \notin recorded
        /\ ~up => /\ counts = NoCounts
                  /\ ~lost /\ disk = Nil => recorded = {}
                  /\ ~lost /\ disk # Nil => Total(disk.counts) = Cardinality(recorded)
        /\ up => /\ ~lost => Total(counts) = Cardinality(recorded)
                 /\ disk # Nil => disk.counts = counts
    BY Zenon DEF CountInv
  <1>1. ASSUME NEW q \in Requests, Lookup(q) PROVE CountInv'
    <2>1. /\ up /\ stage[q] = "new"
          /\ stage' = [stage EXCEPT ![q] = IF Alive(ticket) THEN "hit" ELSE "miss"]
          /\ UNCHANGED <<up, counts, disk, recorded, lost>>
      BY <1>1 DEF Lookup, config, books
    <2>2. \A r \in Requests : stage'[r] \in {"new", "hit", "miss"} =>
                                stage[r] \in {"new", "hit", "miss"}
      BY <1>t, <2>1
    <2>3. QED
      BY <1>i, <2>1, <2>2 DEF CountInv
  <1>2. ASSUME NEW q \in Requests, RecordInjection(q) PROVE CountInv'
    <2> DEFINE e == [id |-> q, at |-> now, usage |-> Nil]
               c == [counts EXCEPT !.injections = @ + 1]
    <2>1. /\ up /\ stage[q] \in {"hit", "miss"}
          /\ log' = LastOf(Append(log, e), Limit) /\ counts' = c
          /\ Writes(log', c, combo)
          /\ stage' = [stage EXCEPT ![q] = "sent"] /\ recorded' = recorded \cup {q}
          /\ UNCHANGED <<up, lost>>
      BY <1>2 DEF RecordInjection, Unlocked, config
    <2>2. /\ c \in Counts /\ Total(c) = Total(counts) + 1
      BY <1>t, CountedOnce
    <2> HIDE DEF c
    <2>3. disk'.counts = c
      BY <2>1 DEF Writes
    <2>4. Cardinality(recorded') = Cardinality(recorded) + 1
      BY <2>1, CountsOneMore
    <2>5. \A r \in Requests : stage'[r] \in {"new", "hit", "miss"} => r \notin recorded'
      BY <1>t, <1>i, <2>1
    <2>6. ~lost => Total(counts') = Cardinality(recorded')
      BY <1>i, <2>1, <2>2, <2>4
    <2>7. QED
      BY <2>1, <2>3, <2>5, <2>6, Zenon DEF CountInv
  <1>3. ASSUME NEW q \in Requests, RecordBare(q) PROVE CountInv'
    <2> DEFINE c == [counts EXCEPT !.bare = @ + 1]
    <2>1. /\ up /\ stage[q] = "miss"
          /\ counts' = c
          /\ Writes(log, c, Closed)
          /\ stage' = [stage EXCEPT ![q] = "bare"] /\ recorded' = recorded \cup {q}
          /\ UNCHANGED <<up, lost>>
      BY <1>3 DEF RecordBare, Unlocked, config
    <2>2. /\ c \in Counts /\ Total(c) = Total(counts) + 1
      BY <1>t, CountedOnce
    <2> HIDE DEF c
    <2>3. disk'.counts = c
      BY <2>1 DEF Writes
    <2>4. Cardinality(recorded') = Cardinality(recorded) + 1
      BY <2>1, CountsOneMore
    <2>5. \A r \in Requests : stage'[r] \in {"new", "hit", "miss"} => r \notin recorded'
      BY <1>t, <1>i, <2>1
    <2>6. ~lost => Total(counts') = Cardinality(recorded')
      BY <1>i, <2>1, <2>2, <2>4
    <2>7. QED
      BY <2>1, <2>3, <2>5, <2>6, Zenon DEF CountInv
  <1>4. ASSUME NEW q \in Requests, Usage(q) \/ Attach(q) \/ Abandon(q) PROVE CountInv'
    <2>1. /\ \/ stage' = [stage EXCEPT ![q] = "done"]
             \/ stage' = [stage EXCEPT ![q] = "used"]
          /\ UNCHANGED <<up, counts, disk, recorded, lost>>
      BY <1>4 DEF Usage, Attach, Abandon, Finish, config, books, ghosts
    <2>2. \A r \in Requests : stage'[r] \in {"new", "hit", "miss"} =>
                                stage[r] \in {"new", "hit", "miss"}
      BY <1>t, <2>1
    <2>3. QED
      BY <1>i, <2>1, <2>2 DEF CountInv
  <1>5. CASE \/ \E o \in Observers : Store(o) \/ StartCombo(o)
             \/ PutManual \/ Tick
             \/ \E life \in Lives, empty \in BOOLEAN : Reconfigure(life, empty)
    <2>1. UNCHANGED <<up, counts, disk, stage, recorded, lost>>
      BY <1>5 DEF Store, StartCombo, PutManual, Tick, Reconfigure, config, books, ghosts
    <2>2. QED
      BY <1>i, <2>1, Zenon DEF CountInv
  <1>6. CASE Persist
    <2>1. up /\ disk'.counts = counts /\ UNCHANGED <<up, counts, stage, recorded, lost>>
      BY <1>6 DEF Persist, Writes, Unlocked, config, books, ghosts
    <2>2. QED
      BY <1>i, <2>1, Zenon DEF CountInv
  <1>7. CASE PersistTorn
    <2>1. up /\ disk' = Nil /\ UNCHANGED <<up, counts, stage, recorded, lost>>
      BY <1>7 DEF PersistTorn, Unlocked, config, books, ghosts
    <2>2. QED
      BY <1>i, <2>1, Zenon DEF CountInv
  <1>8. CASE RestoreFile
    <2>1. /\ up' = TRUE /\ disk # Nil
          /\ counts' = ReloadTakes(disk.counts)
          /\ UNCHANGED <<disk, stage, recorded, lost>>
      BY <1>8 DEF RestoreFile
    <2>2. counts' = disk.counts
      <3>1. CASE up
        BY <1>i, <2>1, <3>1 DEF ReloadTakes
      <3>2. CASE ~up
        BY <1>i, <2>1, <3>2 DEF ReloadTakes
      <3>3. QED
        BY <3>1, <3>2
    <2>3. ~lost => Total(disk.counts) = Cardinality(recorded)
      BY <1>i, <2>1, Zenon
    <2>4. QED
      BY <1>i, <2>1, <2>2, <2>3, Zenon DEF CountInv
  <1>11. CASE RestoreNothing
    <2>1. up' = TRUE /\ disk = Nil /\ UNCHANGED <<counts, disk, stage, recorded, lost>>
      BY <1>11 DEF RestoreNothing, books, ghosts
    <2>2. ~lost => Total(counts) = Cardinality(recorded)
      <3>1. CASE up
        BY <1>i, <3>1, Zenon
      <3>2. CASE ~up
        <4>1. Total(NoCounts) = 0 /\ Cardinality({}) = 0
          BY FS_EmptySet DEF Total, NoCounts
        <4>2. QED
          BY <1>i, <2>1, <3>2, <4>1, Zenon
      <3>3. QED
        BY <3>1, <3>2
    <2>3. QED
      BY <1>i, <2>1, <2>2, Zenon DEF CountInv
  <1>9. CASE Crash
    <2>1. /\ up /\ up' = FALSE /\ counts' = NoCounts
          /\ stage' = [q \in Requests |-> IF stage[q] = "new" THEN "new" ELSE "done"]
          /\ lost' = (lost \/ (disk = Nil /\ recorded # {}))
          /\ UNCHANGED <<disk, recorded>>
      BY <1>9 DEF Crash
    <2>2. \A r \in Requests : stage'[r] \in {"new", "hit", "miss"} =>
                                stage[r] \in {"new", "hit", "miss"}
      BY <2>1
    <2>3. /\ ~lost' /\ disk' = Nil => recorded' = {}
          /\ ~lost' /\ disk' # Nil => Total(disk'.counts) = Cardinality(recorded')
      BY <1>i, <2>1, Zenon
    <2>4. QED
      BY <1>i, <2>1, <2>2, <2>3, Zenon DEF CountInv
  <1>10. QED
    BY <1>1, <1>2, <1>3, <1>4, <1>5, <1>6, <1>7, <1>8, <1>9, <1>11 DEF BookNext

-----------------------------------------------------------------------------
LEMMA Times ==
    ASSUME BookTypes, BookNext
    PROVE  /\ now \in Nat /\ now' \in Nat /\ now <= now' /\ now' <= now + 1
           /\ ticket \in Nat /\ ticket <= now
           /\ disk # Nil => disk \in File /\ disk.ticket \in Nat /\ disk.ticket <= now
           /\ asked \in [Requests -> 0..now] /\ asked \in [Requests -> Nat]
           /\ stage \in [Requests -> Stages]
           /\ mixed \subseteq mixed'
  <1>1. /\ now \in 1..MaxTime /\ ticket \in 0..now /\ disk \in File \cup {Nil}
        /\ asked \in [Requests -> 0..now]
        /\ stage \in [Requests -> Stages]
        /\ disk # Nil => disk.ticket <= now
    BY DEF BookTypes, BookTypeOK
  <1>2. MaxTime \in Nat
    BY BookAssumption
  <1>3. now' = now \/ now' = now + 1
    BY Zenon DEF BookNext, Lookup, RecordInjection, RecordBare, Usage, Attach, Abandon, Store,
       StartCombo, PutManual, Persist, PersistTorn, Reconfigure, RestoreFile,
       RestoreNothing, Crash, Tick
  <1>4. mixed \subseteq mixed'
    <2>1. CASE \/ \E q \in Requests : \/ RecordInjection(q) \/ RecordBare(q) \/ Usage(q)
                                      \/ Attach(q) \/ Abandon(q)
               \/ \E o \in Observers : Store(o) \/ StartCombo(o)
               \/ PutManual \/ Persist \/ PersistTorn \/ RestoreNothing \/ Crash \/ Tick
      <3>1. mixed' = mixed
        BY <2>1 DEF RecordInjection, RecordBare, Usage, Attach, Abandon, Store, StartCombo,
           PutManual, Persist, PersistTorn, RestoreNothing, Crash, Tick, ghosts
      <3>2. QED
        BY <3>1
    <2>2. CASE \E q \in Requests : Lookup(q)
      BY <2>2 DEF Lookup
    <2>3. CASE RestoreFile \/ \E life \in Lives, empty \in BOOLEAN : Reconfigure(life, empty)
      BY <2>3 DEF RestoreFile, Reconfigure
    <2>4. QED
      BY <2>1, <2>2, <2>3 DEF BookNext
  <1>5. QED
    BY <1>1, <1>2, <1>3, <1>4 DEF File

-----------------------------------------------------------------------------
LEMMA SampleInit == BookInit => SampleInv
  BY DEF BookInit, SampleInv, NoCombo

(* A step keeps the starts of combos apart. *)
LEMMA SampleStep ==
    ASSUME BookTypes, SampleInv, BookNext PROVE SampleInv'
  <1>t. /\ now \in Nat /\ combo \in Combo /\ combo.started \in Nat /\ combo.started <= now
        /\ storing \in [Observers -> 0..now]
        /\ sampled \subseteq 0..now
        /\ disk # Nil => disk.combo \in Combo /\ disk.combo.started \in Nat
                         /\ disk.combo.started <= now
    <2>1. /\ now \in 1..MaxTime /\ combo \in Combo /\ combo.started <= now
          /\ storing \in [Observers -> 0..now] /\ sampled \subseteq 0..now
          /\ disk \in File \cup {Nil}
          /\ disk # Nil => disk.combo.started <= now
      BY DEF BookTypes, BookTypeOK
    <2>2. QED
      BY <2>1, BookAssumption DEF File, Combo
  <1>i. /\ combo.started # 0 => combo.started \notin sampled
        /\ disk # Nil /\ disk.combo.started # 0 => disk.combo.started \notin sampled
        /\ \A o \in Observers : storing[o] # 0 =>
             /\ storing[o] \notin sampled
             /\ storing[o] # combo.started
             /\ disk # Nil => storing[o] # disk.combo.started
             /\ \A p \in Observers \ {o} : storing[p] # storing[o]
    BY Zenon DEF SampleInv
  <1>1. CASE \/ \E q \in Requests : Lookup(q) \/ Usage(q) \/ Attach(q) \/ Abandon(q)
             \/ PutManual \/ Tick \/ RestoreNothing
             \/ \E life \in Lives, empty \in BOOLEAN : Reconfigure(life, empty)
    <2>1. UNCHANGED <<combo, disk, storing, sampled>>
      BY <1>1 DEF Lookup, Usage, Attach, Abandon, PutManual, Tick, RestoreNothing,
         Reconfigure, books, ghosts
    <2>2. QED
      BY <1>i, <2>1, Zenon DEF SampleInv
  <1>2. CASE \/ \E q \in Requests : RecordInjection(q)
             \/ Persist
    <2>1. disk'.combo = combo /\ UNCHANGED <<combo, storing, sampled>>
      <3>1. ASSUME NEW q \in Requests, RecordInjection(q)
            PROVE  disk'.combo = combo /\ UNCHANGED <<combo, storing, sampled>>
        BY <3>1 DEF RecordInjection, Writes
      <3>2. ASSUME Persist
            PROVE  disk'.combo = combo /\ UNCHANGED <<combo, storing, sampled>>
        BY <3>2 DEF Persist, Writes, books, ghosts
      <3>3. QED
        BY <1>2, <3>1, <3>2
    <2>2. QED
      BY <1>i, <2>1, Zenon DEF SampleInv
  <1>3. CASE PersistTorn
    <2>1. disk' = Nil /\ UNCHANGED <<combo, storing, sampled>>
      BY <1>3 DEF PersistTorn, books, ghosts
    <2>2. QED
      BY <1>i, <2>1, Zenon DEF SampleInv
  <1>4. ASSUME NEW q \in Requests, RecordBare(q) PROVE SampleInv'
    <2>1. /\ combo' = Closed /\ disk'.combo = Closed /\ storing' = storing
          /\ sampled' = IF Open THEN sampled \cup {combo.started} ELSE sampled
      BY <1>4 DEF RecordBare, Writes
    <2>2. CASE Open
      <3>1. combo'.started = 0 /\ disk'.combo.started = 0
        BY <2>1, <2>2 DEF Closed
      <3>2. QED
        BY <1>i, <2>1, <2>2, <3>1 DEF SampleInv
    <2>3. CASE ~Open
      <3>1. combo' = combo /\ disk'.combo = combo /\ sampled' = sampled
        BY <2>1, <2>3 DEF Closed
      <3>2. QED
        BY <1>i, <2>1, <3>1, Zenon DEF SampleInv
    <2>4. QED
      BY <2>2, <2>3
  <1>5. ASSUME NEW o \in Observers, Store(o) PROVE SampleInv'
    <2>1. /\ now' = now + 1 /\ storing' = [storing EXCEPT ![o] = now']
          /\ UNCHANGED <<combo, disk, sampled>>
      BY <1>5 DEF Store, books, ghosts
    <2>2. \A p \in Observers : storing'[p] = IF p = o THEN now + 1 ELSE storing[p]
      BY <1>t, <2>1
    <2>3. /\ now + 1 \notin sampled /\ now + 1 # combo.started
          /\ disk # Nil => now + 1 # disk.combo.started
          /\ \A p \in Observers : storing[p] # now + 1
      BY <1>t
    <2>4. QED
      BY <1>i, <2>1, <2>2, <2>3 DEF SampleInv
  <1>6. ASSUME NEW o \in Observers, StartCombo(o) PROVE SampleInv'
    <2>1. /\ storing[o] # 0
          /\ combo' = [combo EXCEPT !.started = storing[o]]
          /\ storing' = [storing EXCEPT ![o] = 0]
          /\ UNCHANGED <<disk, sampled>>
      BY <1>6 DEF StartCombo, ghosts
    <2>2. combo'.started = storing[o]
      BY <1>t, <2>1, ComboStarts
    <2>3. \A p \in Observers : storing'[p] = IF p = o THEN 0 ELSE storing[p]
      BY <1>t, <2>1
    <2>4. QED
      BY <1>i, <2>1, <2>2, <2>3 DEF SampleInv
  <1>7. CASE RestoreFile
    <2>1. /\ combo' = combo \/ (disk # Nil /\ combo' = disk.combo)
          /\ UNCHANGED <<disk, storing, sampled>>
      BY <1>7 DEF RestoreFile
    <2>2. QED
      BY <1>i, <2>1, Zenon DEF SampleInv
  <1>8. CASE Crash
    <2>1. combo'.started = 0 /\ storing' = [o \in Observers |-> 0] /\ UNCHANGED <<disk, sampled>>
      BY <1>8 DEF Crash, NoCombo
    <2>2. QED
      BY <1>i, <2>1 DEF SampleInv
  <1>9. QED
    BY <1>1, <1>2, <1>3, <1>4, <1>5, <1>6, <1>7, <1>8 DEF BookNext

-----------------------------------------------------------------------------
(* What a step does to the requests under way: only a lookup adds one, and *)
(* none of them is asked again.                                            *)
LEMMA Requesting ==
    ASSUME BookTypes, DownInv, BookNext, NEW r \in Requests, stage'[r] \notin {"new", "done"}
    PROVE  \/ /\ Lookup(r)
              /\ stage'[r] \in {"hit", "miss"} /\ asked'[r] = now
              /\ UNCHANGED <<now, ttl, ticket>>
              /\ stage'[r] = "miss" => ~Alive(ticket)
           \/ /\ up /\ UnderWay(r) /\ asked'[r] = asked[r]
              /\ \/ stage'[r] = stage[r]
                 \/ stage'[r] = "sent" /\ RecordInjection(r)
                 \/ stage'[r] = "bare" /\ RecordBare(r)
                 \/ /\ stage'[r] = "used" /\ Usage(r)
                    /\ Alive(ticket) /\ ticket <= asked[r] /\ stage[r] \in {"sent", "bare"}
  <1>t. stage \in [Requests -> Stages] /\ asked \in [Requests -> 0..now]
    BY Times
  <1>i. ~up => \A q \in Requests : ~UnderWay(q)
    BY DEF DownInv
  <1>1. ASSUME NEW q \in Requests, Lookup(q)
        PROVE  \/ /\ q = r
                  /\ stage'[r] \in {"hit", "miss"} /\ asked'[r] = now
                  /\ UNCHANGED <<now, ttl, ticket>>
                  /\ stage'[r] = "miss" => ~Alive(ticket)
               \/ /\ up /\ asked'[r] = asked[r] /\ stage'[r] = stage[r]
    BY <1>t, <1>1 DEF Lookup, config
  <1>2. ASSUME NEW q \in Requests, RecordInjection(q)
        PROVE  /\ up /\ asked' = asked
               /\ IF q = r THEN stage'[r] = "sent" /\ stage[r] \in {"hit", "miss"}
                           ELSE stage'[r] = stage[r]
    BY <1>t, <1>2 DEF RecordInjection, Unlocked
  <1>3. ASSUME NEW q \in Requests, RecordBare(q)
        PROVE  /\ up /\ asked' = asked
               /\ IF q = r THEN stage'[r] = "bare" /\ stage[r] = "miss"
                           ELSE stage'[r] = stage[r]
    BY <1>t, <1>3 DEF RecordBare, Unlocked
  <1>4. ASSUME NEW q \in Requests, Attach(q) \/ Abandon(q)
        PROVE  /\ up
               /\ IF q = r THEN stage'[r] = "done"
                           ELSE stage'[r] = stage[r] /\ asked'[r] = asked[r]
    BY <1>t, <1>4 DEF Attach, Abandon, Finish, Unlocked
  <1>8. ASSUME NEW q \in Requests, Usage(q)
        PROVE  /\ up
               /\ IF q = r
                  THEN \/ stage'[r] = "done"
                       \/ /\ stage'[r] = "used" /\ asked' = asked
                          /\ Alive(ticket) /\ ticket <= asked[r]
                          /\ stage[r] \in {"sent", "bare"}
                  ELSE stage'[r] = stage[r] /\ asked'[r] = asked[r]
    BY <1>t, <1>8 DEF Usage, Finish
  <1>5. CASE \/ \E o \in Observers : Store(o) \/ StartCombo(o)
             \/ PutManual \/ Persist \/ PersistTorn \/ Tick
             \/ \E life \in Lives, empty \in BOOLEAN : Reconfigure(life, empty)
             \/ RestoreFile \/ RestoreNothing
    <2>1. stage' = stage /\ asked' = asked
      BY <1>5 DEF Store, StartCombo, PutManual, Persist, PersistTorn, Tick, Reconfigure,
         RestoreFile, RestoreNothing
    <2>2. QED
      BY <1>i, <2>1 DEF UnderWay
  <1>6. CASE Crash
    BY <1>6 DEF Crash
  <1>7. QED
    BY <1>1, <1>2, <1>3, <1>4, <1>5, <1>6, <1>8 DEF BookNext, UnderWay

LEMMA DownStep ==
    ASSUME BookTypes, DownInv, BookNext PROVE DownInv'
  <1>1. ASSUME NEW r \in Requests, stage'[r] \notin {"new", "done"} PROVE up
    BY <1>1, Requesting DEF Lookup
  <1>2. CASE Crash
    BY <1>2 DEF Crash, DownInv, UnderWay
  <1>3. CASE ~Crash
    <2>1. up' = up \/ up' = TRUE
      BY <1>3, Zenon DEF BookNext, Lookup, RecordInjection, RecordBare, Usage, Attach, Abandon,
         Store, StartCombo, PutManual, Persist, PersistTorn, Reconfigure, RestoreFile,
         RestoreNothing, Tick, config
    <2>2. QED
      BY <1>1, <2>1 DEF DownInv, UnderWay
  <1>4. QED
    BY <1>2, <1>3

(* Once the ticket is newer than a request, or expired, it is not used for *)
(* that request's usage any more, unless one comes back.                   *)
LEMMA SupersededLasts ==
    ASSUME BookTypes, DownInv, BookNext, NEW r \in Requests,
           UnderWay(r), Superseded(r), asked'[r] = asked[r], r \notin mixed'
    PROVE  Superseded(r)'
  <1>t. /\ now \in Nat /\ now' \in Nat /\ now <= now'
        /\ ticket \in Nat /\ ticket <= now /\ asked[r] \in Nat /\ asked[r] <= now
        /\ ttl \in Nat
    BY Times DEF BookTypes, BookTypeOK
  <1>s. ticket # 0 /\ now < ticket + ttl => asked[r] < ticket
    BY DEF Superseded, Alive, AliveFor
  <1>f. r \in InFlight
    BY DEF InFlight
  <1>1. ASSUME UNCHANGED <<ttl, ticket>> PROVE Superseded(r)'
    <2>1. ticket # 0 /\ now' < ticket + ttl => asked[r] < ticket
      BY <1>t, <1>s
    <2>2. QED
      BY <1>1, <2>1 DEF Superseded, Alive, AliveFor
  <1>2. ASSUME now' = now + 1, ticket' = now' PROVE Superseded(r)'
    <2>1. asked'[r] < ticket'
      BY <1>t, <1>2
    <2>2. QED
      BY <2>1 DEF Superseded
  <1>3. ASSUME ticket' = 0 PROVE Superseded(r)'
    BY <1>3 DEF Superseded, Alive, AliveFor
  <1>4. CASE \/ \E q \in Requests : \/ Lookup(q) \/ Usage(q) \/ Attach(q) \/ Abandon(q)
                                    \/ RecordInjection(q) \/ RecordBare(q)
             \/ \E o \in Observers : StartCombo(o)
             \/ Persist \/ PersistTorn \/ RestoreNothing \/ Tick
    <2>1. UNCHANGED <<ttl, ticket>>
      BY <1>4, Zenon DEF Lookup, Usage, Attach, Abandon, RecordInjection, RecordBare,
         StartCombo, Persist, PersistTorn, RestoreNothing, Tick, config
    <2>2. QED
      BY <1>1, <2>1
  <1>5. CASE PutManual \/ \E o \in Observers : Store(o)
    BY <1>2, <1>5 DEF PutManual, Store
  <1>6. ASSUME NEW life \in Lives, NEW empty \in BOOLEAN, Reconfigure(life, empty)
        PROVE  Superseded(r)'
    <2> DEFINE kept == IF AliveFor(ticket, life) THEN ticket ELSE 0
    <2>1. /\ ticket' = kept
          /\ mixed' = IF kept # 0 /\ ~Alive(ticket) THEN mixed \cup InFlight ELSE mixed
      BY <1>6 DEF Reconfigure
    <2>2. CASE kept = 0
      BY <1>3, <2>1, <2>2
    <2>3. CASE kept # 0
      <3>1. Alive(ticket)
        BY <1>f, <2>1, <2>3
      <3>2. kept = ticket
        BY <2>3
      <3>3. asked[r] < ticket
        BY <3>1 DEF Superseded
      <3>4. QED
        BY <2>1, <3>2, <3>3 DEF Superseded
    <2>4. QED
      BY <2>2, <2>3
  <1>7. CASE RestoreFile
    <2>1. /\ ticket' = Restored(disk.ticket) /\ ttl' = ttl
          /\ mixed' = IF Alive(disk.ticket) THEN mixed \cup InFlight ELSE mixed
      BY <1>7 DEF RestoreFile
    <2>2. ~Alive(disk.ticket)
      BY <1>f, <2>1
    <2>3. ticket' = ticket
      BY <2>1, <2>2 DEF Restored
    <2>4. QED
      BY <1>1, <2>1, <2>3
  <1>8. CASE Crash
    BY <1>3, <1>8 DEF Crash
  <1>9. QED
    BY <1>4, <1>5, <1>6, <1>7, <1>8 DEF BookNext

-----------------------------------------------------------------------------
(* A lookup that overlaps with requests of its session marks them all.     *)
LEMMA OverlapStep ==
    ASSUME BookTypes, DownInv, OverlapInv, BookNext PROVE OverlapInv'
  <1>1. ASSUME NEW q \in Requests, NEW r \in Requests, q # r, Lookup(q),
               stage'[r] \notin {"new", "done"}, SameSession(r, q)
        PROVE  q \in mixed' /\ r \in mixed'
    <2>1. stage' = [stage EXCEPT ![q] = stage'[q]]
      BY <1>1, Times DEF Lookup
    <2>2. r \in {p \in InFlight : SameSession(p, q)}
      BY <1>1, <2>1, Times DEF InFlight, UnderWay
    <2>3. QED
      BY <1>1, <2>2 DEF Lookup
  <1>2. ASSUME NEW q \in Requests, NEW r \in Requests,
               stage'[q] \notin {"new", "done"}, stage'[r] \notin {"new", "done"},
               SameSession(r, q), q # r
        PROVE  q \in mixed'
    <2>1. CASE Lookup(q)
      BY <1>1, <1>2, <2>1
    <2>2. CASE Lookup(r)
      <3>1. SameSession(q, r)
        BY <1>2 DEF SameSession
      <3>2. QED
        BY <1>1, <1>2, <2>2, <3>1
    <2>3. CASE ~(Lookup(q) \/ Lookup(r))
      <3>1. UnderWay(q) /\ UnderWay(r)
        BY <1>2, <2>3, Requesting
      <3>2. q \in mixed
        BY <1>2, <3>1 DEF OverlapInv
      <3>3. QED
        BY <3>2, Times
    <2>4. QED
      BY <2>1, <2>2, <2>3
  <1>3. QED
    BY <1>2 DEF OverlapInv, UnderWay, SameSession

(* What stands behind an entry still does in a log that continues it.      *)
LEMMA BehindMoves ==
    ASSUME NEW q, NEW a, NEW s \in Seq(LogEntry), NEW l \in Seq(LogEntry),
           NEW i \in DOMAIN l, NEW d \in Int, GoesOn(l, i, s, d), Behind(q, a, s)
    PROVE  BehindAt(q, a, l, i)
  <1>1. SUFFICES ASSUME l[i].usage = Nil, SameSession(l[i].id, q)
                 PROVE  \E j \in DOMAIN l : /\ i <= j /\ l[j].id = q /\ l[j].usage = Nil
                                            /\ l[j].at <= a + Early /\ a <= l[j].at + Late
    BY DEF BehindAt
  <1>g. /\ i + d \in DOMAIN s /\ l[i] = s[i + d]
        /\ \A k \in DOMAIN s : k >= i + d => k - d \in DOMAIN l /\ l[k - d] = s[k]
    BY DEF GoesOn
  <1>d. DOMAIN s \subseteq Int /\ i \in Int
    OBVIOUS
  <1>2. BehindAt(q, a, s, i + d)
    BY <1>g DEF Behind
  <1>3. PICK k \in DOMAIN s : /\ i + d <= k /\ s[k].id = q /\ s[k].usage = Nil
                              /\ s[k].at <= a + Early /\ a <= s[k].at + Late
    BY <1>1, <1>2, <1>g DEF BehindAt
  <1>4. k >= i + d /\ i <= k - d
    BY <1>3, <1>d
  <1>5. k - d \in DOMAIN l /\ l[k - d] = s[k]
    BY <1>4, <1>g
  <1>6. QED
    BY <1>3, <1>4, <1>5

LEMMA BehindKept ==
    ASSUME NEW q \in Requests, NEW a, BookTypes, RestoreFile,
           Behind(q, a, log), Behind(q, a, disk.log)
    PROVE  Behind(q, a, log')
  <1> DEFINE t == disk.log
  <1>t. log \in Seq(LogEntry) /\ t \in Seq(LogEntry)
    BY DEF RestoreFile, BookTypes, BookTypeOK, File
  <1>1. log' = log \o LastOf(t, Limit) /\ Behind(q, a, t)
    BY DEF RestoreFile
  <1> HIDE DEF t
  <1>3. /\ log' \in Seq(LogEntry)
        /\ \A i \in DOMAIN log' : i <= Len(log) => GoesOn(log', i, log, 0)
        /\ \E d \in Int : \A i \in DOMAIN log' : i > Len(log) => GoesOn(log', i, t, d)
    BY <1>t, <1>1, Reloaded
  <1>4. PICK d \in Int : \A i \in DOMAIN log' : i > Len(log) => GoesOn(log', i, t, d)
    BY <1>3
  <1>5. DOMAIN log' \subseteq Int /\ Len(log) \in Int /\ 0 \in Int
    BY <1>t, <1>3
  <1>6. ASSUME NEW i \in DOMAIN log' PROVE BehindAt(q, a, log', i)
    <2>1. CASE i <= Len(log)
      <3>1. GoesOn(log', i, log, 0)
        BY <1>3, <2>1
      <3>2. QED
        BY <1>t, <1>3, <1>5, <3>1, BehindMoves
    <2>2. CASE i > Len(log)
      <3>1. GoesOn(log', i, t, d)
        BY <1>4, <2>2
      <3>2. QED
        BY <1>t, <1>1, <1>3, <3>1, BehindMoves
    <2>3. QED
      BY <1>5, <2>1, <2>2
  <1>7. QED
    BY <1>6 DEF Behind

(* The entry of q itself ends the log it is put into ...                   *)
LEMMA BehindOwn ==
    ASSUME NEW q \in Requests, BookTypes, RecordInjection(q), asked[q] <= now,
           now <= asked[q] + Early
    PROVE  Behind(q, asked[q], log')
  <1> DEFINE e == [id |-> q, at |-> now, usage |-> Nil]
  <1>1. log' = LastOf(Append(log, e), Limit)
    BY DEF RecordInjection
  <1>2. e \in LogEntry /\ log \in Seq(LogEntry) /\ now \in Nat /\ asked[q] \in Nat
    BY BookAssumption DEF BookTypes, BookTypeOK, LogEntry
  <1>e. e.id = q /\ e.at = now /\ e.usage = Nil
    OBVIOUS
  <1> HIDE DEF e
  <1>3. /\ log' \in Seq(LogEntry) /\ Len(log') \in DOMAIN log' /\ log'[Len(log')] = e
    BY <1>1, <1>2, Recorded
  <1>4. \A i \in DOMAIN log' : i <= Len(log')
    BY <1>3
  <1>5. now <= asked[q] + Early /\ asked[q] <= now + Late
    BY <1>2, BookAssumption
  <1>6. QED
    BY <1>3, <1>4, <1>5, <1>e DEF Behind, BehindAt

(* ... and those of other sessions stay where they are.                    *)
LEMMA BehindOther ==
    ASSUME NEW q \in Requests, NEW r \in Requests, NEW a, BookTypes, RecordInjection(q),
           ~SameSession(q, r), Behind(r, a, log)
    PROVE  Behind(r, a, log')
  <1> DEFINE e == [id |-> q, at |-> now, usage |-> Nil]
  <1>1. log' = LastOf(Append(log, e), Limit)
    BY DEF RecordInjection
  <1>2. e \in LogEntry /\ log \in Seq(LogEntry)
    BY BookAssumption DEF BookTypes, BookTypeOK, LogEntry
  <1>e. e.id = q
    OBVIOUS
  <1> HIDE DEF e
  <1>3. /\ log' \in Seq(LogEntry) /\ log'[Len(log')] = e
        /\ \E d \in Int : \A i \in DOMAIN log' : i # Len(log') => GoesOn(log', i, log, d)
    BY <1>1, <1>2, Recorded
  <1>4. PICK d \in Int : \A i \in DOMAIN log' : i # Len(log') => GoesOn(log', i, log, d)
    BY <1>3
  <1>6. ASSUME NEW i \in DOMAIN log' PROVE BehindAt(r, a, log', i)
    <2>1. CASE i = Len(log')
      BY <1>3, <1>e, <2>1 DEF BehindAt
    <2>2. CASE i # Len(log')
      <3>1. GoesOn(log', i, log, d)
        BY <1>4, <2>2
      <3>2. QED
        BY <1>2, <1>3, <3>1, BehindMoves
    <2>3. QED
      BY <2>1, <2>2
  <1>7. QED
    BY <1>6 DEF Behind

(* Usage of one session changes no entry of another. *)
LEMMA BehindAttach ==
    ASSUME NEW q \in Requests, NEW r \in Requests, NEW a, BookTypes, Attach(q),
           ~SameSession(r, q), Behind(r, a, log)
    PROVE  Behind(r, a, log')
  <1> DEFINE A == Matches(q)
  <1>1. log' = WithUsage(log, A, q)
    BY DEF Attach, WithUsage
  <1>2. log \in Seq(LogEntry)
    BY DEF BookTypes, BookTypeOK
  <1>3. \A i \in A : SameSession(log[i].id, q)
    BY DEF Matches, Fits
  <1> HIDE DEF A
  <1>5. /\ DOMAIN log' = DOMAIN log
        /\ \A i \in DOMAIN log :
             /\ log'[i].id = log[i].id /\ log'[i].at = log[i].at
             /\ log'[i].usage = IF i \in A THEN q ELSE log[i].usage
    BY <1>1, <1>2, UsageKeepsLog
  <1>n. q # Nil
    BY BookAssumption
  <1>6. ASSUME NEW i \in DOMAIN log PROVE BehindAt(r, a, log', i)
    <2>1. SUFFICES ASSUME log'[i].usage = Nil, SameSession(log'[i].id, r)
                   PROVE  \E j \in DOMAIN log' :
                            /\ i <= j /\ log'[j].id = r /\ log'[j].usage = Nil
                            /\ log'[j].at <= a + Early /\ a <= log'[j].at + Late
      BY DEF BehindAt
    <2>2. log[i].usage = Nil /\ SameSession(log[i].id, r)
      BY <1>n, <1>5, <2>1
    <2>3. PICK j \in DOMAIN log : /\ i <= j /\ log[j].id = r /\ log[j].usage = Nil
                                  /\ log[j].at <= a + Early /\ a <= log[j].at + Late
      BY <2>2 DEF Behind, BehindAt
    <2>4. j \notin A
      BY <1>3, <2>3
    <2>5. QED
      BY <1>5, <2>3, <2>4
  <1>7. QED
    BY <1>5, <1>6 DEF Behind

(* A log that a write puts into the file serves there as it does in memory. *)
LEMMA DiskLog ==
    ASSUME BookTypes, BookNext
    PROVE  \/ UNCHANGED disk
           \/ disk' = Nil
           \/ disk'.log = log'
  <1>1. ASSUME NEW q \in Requests, RecordInjection(q) PROVE disk'.log = log'
    BY <1>1 DEF RecordInjection, Writes
  <1>2. ASSUME NEW q \in Requests, RecordBare(q) PROVE disk'.log = log'
    BY <1>2 DEF RecordBare, Writes
  <1>3. CASE Persist
    BY <1>3 DEF Persist, Writes, books
  <1>4. CASE \/ \E q \in Requests : Lookup(q) \/ Usage(q) \/ Attach(q) \/ Abandon(q)
             \/ \E o \in Observers : Store(o) \/ StartCombo(o)
             \/ \E life \in Lives, empty \in BOOLEAN : Reconfigure(life, empty)
             \/ RestoreFile \/ RestoreNothing
             \/ PutManual \/ Crash \/ Tick
    BY <1>4, Zenon DEF Lookup, Usage, Attach, Abandon, Store, StartCombo, PutManual,
       Reconfigure, RestoreFile, RestoreNothing, Crash, Tick
  <1>5. CASE PersistTorn
    BY <1>5 DEF PersistTorn
  <1>6. QED
    BY <1>1, <1>2, <1>3, <1>4, <1>5 DEF BookNext

(* A request that is not mixed stays ahead in the log, once it is there.   *)
LEMMA BehindStep ==
    ASSUME BookTypes, DownInv, OverlapInv, BookNext, NEW r \in Requests, r \notin mixed,
           UnderWay(r), stage'[r] \notin {"new", "done"}, asked'[r] = asked[r],
           ~RecordInjection(r), BehindBoth(r)
    PROVE  BehindBoth(r)'
  <1>t. stage \in [Requests -> Stages]
    BY Times
  <1>1. /\ Behind(r, asked[r], log)
        /\ disk # Nil => Behind(r, asked[r], disk.log)
    BY DEF BehindBoth
  <1>2. ASSUME NEW q \in Requests, q # r, stage[q] \notin {"new", "done"}
        PROVE  ~SameSession(q, r) /\ ~SameSession(r, q)
    BY <1>2 DEF OverlapInv, UnderWay, SameSession
  <1>3. Behind(r, asked[r], log')
    <2>1. ASSUME NEW q \in Requests, RecordInjection(q) PROVE Behind(r, asked[r], log')
      <3>1. q # r /\ stage[q] \notin {"new", "done"}
        BY <2>1 DEF RecordInjection
      <3>2. QED
        BY <1>1, <1>2, <2>1, <3>1, BehindOther
    <2>2. ASSUME NEW q \in Requests, Attach(q) PROVE Behind(r, asked[r], log')
      <3>1. q # r /\ stage[q] \notin {"new", "done"}
        BY <1>t, <2>2 DEF Attach, Finish
      <3>2. QED
        BY <1>1, <1>2, <2>2, <3>1, BehindAttach
    <2>3. CASE RestoreFile
      <3>1. Behind(r, asked[r], disk.log)
        BY <1>1, <2>3 DEF RestoreFile
      <3>2. QED
        BY <1>1, <2>3, <3>1, BehindKept
    <2>4. CASE Crash
      BY <2>4 DEF Crash
    <2>5. CASE \/ \E q \in Requests : Lookup(q) \/ RecordBare(q) \/ Usage(q) \/ Abandon(q)
               \/ \E o \in Observers : Store(o) \/ StartCombo(o)
               \/ \E life \in Lives, empty \in BOOLEAN : Reconfigure(life, empty)
               \/ PutManual \/ Persist \/ PersistTorn \/ RestoreNothing \/ Tick
      <3>1. log' = log
        BY <2>5, Zenon DEF Lookup, RecordBare, Usage, Abandon, Store, StartCombo, PutManual,
           Persist, PersistTorn, Reconfigure, RestoreNothing, Tick, books
      <3>2. QED
        BY <1>1, <3>1
    <2>6. QED
      BY <2>1, <2>2, <2>3, <2>4, <2>5 DEF BookNext
  <1>4. disk' # Nil => Behind(r, asked[r], disk'.log)
    <2>1. CASE UNCHANGED disk
      BY <1>1, <2>1
    <2>2. CASE disk'.log = log'
      BY <1>3, <2>2
    <2>3. QED
      BY <2>1, <2>2, DiskLog
  <1>5. QED
    BY <1>3, <1>4 DEF BehindBoth

LEMMA AskedStep ==
    ASSUME BookTypes, DownInv, OverlapInv, AskedInv, BookNext
    PROVE  AskedInv'
  <1>t. /\ now \in Nat /\ now' \in Nat /\ now <= now' /\ now' <= now + 1
        /\ asked \in [Requests -> 0..now] /\ stage \in [Requests -> Stages]
        /\ Early \in Nat /\ mixed \subseteq mixed'
    BY Times, BookAssumption
  <1>i. \A q \in Requests : q \notin mixed =>
          /\ stage[q] \in {"miss", "bare"} => Superseded(q)
          /\ stage[q] = "hit" => now <= asked[q] + Early \/ Superseded(q)
          /\ stage[q] = "sent" => Superseded(q) \/ BehindBoth(q)
          /\ stage[q] = "used" => BehindBoth(q)
    BY DEF AskedInv
  <1>1. ASSUME NEW r \in Requests, r \notin mixed', stage'[r] \in {"miss", "bare"}
        PROVE  Superseded(r)'
    <2>1. CASE Lookup(r) /\ UNCHANGED <<now, ttl, ticket>> /\ stage'[r] = "miss" /\ ~Alive(ticket)
      BY <2>1 DEF Superseded, Alive, AliveFor
    <2>2. CASE UnderWay(r) /\ asked'[r] = asked[r] /\ stage[r] \in {"miss", "bare"}
      <3>1. Superseded(r)
        BY <1>i, <1>t, <1>1, <2>2
      <3>2. QED
        BY <1>1, <2>2, <3>1, SupersededLasts
    <2>3. CASE RecordBare(r) /\ UnderWay(r) /\ asked'[r] = asked[r]
      <3>1. stage[r] = "miss"
        BY <2>3 DEF RecordBare
      <3>2. QED
        BY <2>2, <2>3, <3>1
    <2>4. QED
      BY <1>1, <2>1, <2>2, <2>3, Requesting
  <1>2. ASSUME NEW r \in Requests, r \notin mixed', stage'[r] = "hit"
        PROVE  now' <= asked'[r] + Early \/ Superseded(r)'
    <2>1. CASE asked'[r] = now /\ now' = now
      BY <1>t, <2>1
    <2>2. CASE UnderWay(r) /\ asked'[r] = asked[r] /\ stage[r] = "hit"
      <3>1. CASE Superseded(r)
        BY <1>2, <2>2, <3>1, SupersededLasts
      <3>2. CASE now <= asked[r] + Early /\ now' = now
        BY <2>2, <3>2
      <3>3. CASE now' # now
        <4>1. \/ now' = now + 1 /\ ticket' = now'
              \/ Tick
          BY <3>3, Zenon DEF BookNext, Lookup, RecordInjection, RecordBare, Usage, Attach,
             Abandon, Store, StartCombo, PutManual, Persist, PersistTorn, Reconfigure,
             RestoreFile, RestoreNothing, Crash
        <4>2. CASE now' = now + 1 /\ ticket' = now'
          <5>1. asked'[r] < ticket'
            BY <1>t, <2>2, <4>2
          <5>2. QED
            BY <5>1 DEF Superseded
        <4>3. CASE Tick
          BY <1>t, <2>2, <4>3 DEF Tick
        <4>4. QED
          BY <4>1, <4>2, <4>3
      <3>4. QED
        BY <1>i, <1>t, <1>2, <2>2, <3>1, <3>2, <3>3
    <2>3. QED
      BY <1>2, <2>1, <2>2, Requesting
  <1>3. ASSUME NEW r \in Requests, r \notin mixed', stage'[r] = "sent"
        PROVE  Superseded(r)' \/ BehindBoth(r)'
    <2>1. /\ UnderWay(r) /\ asked'[r] = asked[r] /\ r \notin mixed
          /\ stage[r] = "sent" \/ RecordInjection(r)
      BY <1>t, <1>3, Requesting
    <2>2. SUFFICES ASSUME ~Superseded(r) PROVE BehindBoth(r)'
      BY <1>3, <2>1, SupersededLasts
    <2>3. CASE RecordInjection(r)
      <3>1. stage[r] = "hit"
        BY <1>i, <2>1, <2>2, <2>3 DEF RecordInjection
      <3>2. now <= asked[r] + Early /\ asked[r] <= now
        BY <1>i, <1>t, <2>1, <2>2, <3>1
      <3>3. Behind(r, asked[r], log')
        BY <2>3, <3>2, BehindOwn
      <3>4. disk'.log = log'
        BY <2>3 DEF RecordInjection, Writes
      <3>5. QED
        BY <2>1, <3>3, <3>4 DEF BehindBoth
    <2>4. CASE ~RecordInjection(r)
      <3>1. BehindBoth(r)
        BY <1>i, <2>1, <2>2, <2>4
      <3>2. stage'[r] \notin {"new", "done"}
        BY <1>3
      <3>3. QED
        BY <2>1, <2>4, <3>1, <3>2, BehindStep
    <2>5. QED
      BY <2>3, <2>4
  <1>4. ASSUME NEW r \in Requests, r \notin mixed', stage'[r] = "used"
        PROVE  BehindBoth(r)'
    <2>1. /\ UnderWay(r) /\ asked'[r] = asked[r] /\ r \notin mixed
          /\ \/ stage[r] = "used"
             \/ Alive(ticket) /\ ticket <= asked[r] /\ stage[r] \in {"sent", "bare"}
      BY <1>t, <1>4, Requesting
    <2>2. BehindBoth(r)
      <3>1. CASE stage[r] = "used"
        BY <1>i, <2>1, <3>1
      <3>2. CASE Alive(ticket) /\ ticket <= asked[r] /\ stage[r] \in {"sent", "bare"}
        <4>1. ticket \in Nat /\ asked[r] \in Nat
          BY Times
        <4>2. ~Superseded(r)
          BY <3>2, <4>1 DEF Superseded
        <4>3. QED
          BY <1>i, <2>1, <3>2, <4>2
      <3>3. QED
        BY <2>1, <3>1, <3>2
    <2>3. ~RecordInjection(r)
      BY <1>t, <1>4 DEF RecordInjection
    <2>4. stage'[r] \notin {"new", "done"}
      BY <1>4
    <2>5. QED
      BY <2>1, <2>2, <2>3, <2>4, BehindStep
  <1>5. QED
    BY <1>1, <1>2, <1>3, <1>4 DEF AskedInv

(* The entry that gets the usage of q is q's own. *)
LEMMA OwnMatch ==
    ASSUME BookTypes, AskedInv, NEW q \in Requests, q \notin mixed, Attach(q),
           NEW i \in Matches(q)
    PROVE  log[i].id = q
  <1>t. log \in Seq(LogEntry)
    BY DEF BookTypes, BookTypeOK
  <1>2. Behind(q, asked[q], log)
    BY DEF AskedInv, Attach, BehindBoth
  <1>3. i \in DOMAIN log /\ i \in Fits(q) /\ \A j \in Fits(q) : j <= i
    BY DEF Matches, Fits
  <1>4. log[i].usage = Nil /\ SameSession(log[i].id, q)
    BY <1>3 DEF Fits
  <1>5. PICK j \in DOMAIN log : /\ i <= j /\ log[j].id = q /\ log[j].usage = Nil
                                /\ log[j].at <= asked[q] + Early
                                /\ asked[q] <= log[j].at + Late
    BY <1>2, <1>3, <1>4 DEF Behind, BehindAt
  <1>6. j \in Fits(q)
    BY <1>5 DEF Fits, SameSession
  <1>7. i = j
    <2>1. j <= i /\ i \in Int /\ j \in Int
      BY <1>t, <1>3, <1>6
    <2>2. QED
      BY <1>5, <2>1
  <1>8. QED
    BY <1>5, <1>7

-----------------------------------------------------------------------------
(* The rows after a step are rows from before, a new one without usage, or *)
(* the one that has got the usage of a request.                            *)
NewRow(e) == e.usage = Nil
Attached(q, e) == /\ Attach(q) /\ e.usage = q
                  /\ \E i \in Matches(q) : e.id = log[i].id

LEMMA LogRows ==
    ASSUME BookTypes, BookNext, NEW e \in RowsOf(log')
    PROVE  \/ e \in Rows
           \/ NewRow(e)
           \/ \E q \in Requests : Attached(q, e)
  <1>t. log \in Seq(LogEntry) /\ (disk # Nil => disk.log \in Seq(LogEntry))
    BY DEF BookTypes, BookTypeOK, File
  <1>p. PICK k \in DOMAIN log' : e = log'[k]
    BY DEF RowsOf
  <1>1. ASSUME NEW q \in Requests, RecordInjection(q) PROVE e \in Rows \/ NewRow(e)
    <2> DEFINE n == [id |-> q, at |-> now, usage |-> Nil]
    <2>1. log' = LastOf(Append(log, n), Limit)
      BY <1>1 DEF RecordInjection
    <2>2. n \in LogEntry /\ n.usage = Nil
      BY BookAssumption DEF BookTypes, BookTypeOK, LogEntry
    <2> HIDE DEF n
    <2>3. /\ log'[Len(log')] = n
          /\ \E d \in Int : \A i \in DOMAIN log' : i # Len(log') => GoesOn(log', i, log, d)
      BY <1>t, <2>1, <2>2, Recorded
    <2>4. QED
      BY <1>p, <2>2, <2>3 DEF GoesOn, NewRow, Rows, RowsOf
  <1>2. ASSUME NEW q \in Requests, Attach(q) PROVE e \in Rows \/ Attached(q, e)
    <2>1. k \in DOMAIN log /\ log'[k] = IF k \in Matches(q) THEN [log[k] EXCEPT !.usage = q] ELSE log[k]
      BY <1>2, <1>p DEF Attach
    <2>2. CASE k \in Matches(q)
      <3>1. log[k] \in LogEntry
        BY <1>t, <2>1
      <3>2. e.usage = q /\ e.id = log[k].id
        BY <1>p, <2>1, <2>2, <3>1 DEF LogEntry
      <3>3. QED
        BY <1>2, <2>2, <3>2 DEF Attached
    <2>3. CASE k \notin Matches(q)
      BY <1>p, <2>1, <2>3 DEF Rows, RowsOf
    <2>4. QED
      BY <2>2, <2>3
  <1>3. CASE RestoreFile
    <2> DEFINE t == disk.log
    <2>1. disk # Nil /\ t \in Seq(LogEntry) /\ log' = log \o LastOf(t, Limit)
      BY <1>t, <1>3 DEF RestoreFile
    <2>s. RowsOf(log) \subseteq Rows /\ RowsOf(t) \subseteq Rows
      BY <2>1 DEF Rows
    <2> HIDE DEF t
    <2>2. /\ log' \in Seq(LogEntry)
          /\ \A i \in DOMAIN log' : i <= Len(log) => GoesOn(log', i, log, 0)
          /\ \E d \in Int : \A i \in DOMAIN log' : i > Len(log) => GoesOn(log', i, t, d)
      BY <1>t, <2>1, Reloaded
    <2>3. k \in Int /\ Len(log) \in Int
      BY <1>t, <1>p, <2>2
    <2>4. CASE k <= Len(log)
      BY <1>p, <2>2, <2>4, <2>s DEF GoesOn, RowsOf
    <2>5. CASE k > Len(log)
      BY <1>p, <2>2, <2>5, <2>s DEF GoesOn, RowsOf
    <2>6. QED
      BY <2>3, <2>4, <2>5
  <1>4. CASE Crash
    BY <1>4, <1>p DEF Crash
  <1>5. CASE \/ \E q \in Requests : Lookup(q) \/ RecordBare(q) \/ Usage(q) \/ Abandon(q)
             \/ \E o \in Observers : Store(o) \/ StartCombo(o)
             \/ \E life \in Lives, empty \in BOOLEAN : Reconfigure(life, empty)
             \/ PutManual \/ Persist \/ PersistTorn \/ RestoreNothing \/ Tick
    <2>1. log' = log
      BY <1>5, Zenon DEF Lookup, RecordBare, Usage, Abandon, Store, StartCombo, PutManual,
         Persist, PersistTorn, Reconfigure, RestoreNothing, Tick, books
    <2>2. QED
      BY <2>1 DEF Rows
  <1>6. QED
    BY <1>1, <1>2, <1>3, <1>4, <1>5 DEF BookNext

LEMMA RowsStep ==
    ASSUME BookTypes, BookNext, NEW e \in Rows'
    PROVE  \/ e \in Rows
           \/ NewRow(e)
           \/ \E q \in Requests : Attached(q, e)
  <1>1. CASE e \in RowsOf(log')
    BY <1>1, LogRows
  <1>2. CASE disk' # Nil /\ e \in RowsOf(disk'.log)
    <2>1. CASE UNCHANGED disk
      BY <1>2, <2>1 DEF Rows
    <2>2. CASE disk'.log = log'
      BY <1>2, <2>2, LogRows
    <2>3. QED
      BY <1>2, <2>1, <2>2, DiskLog
  <1>3. QED
    BY <1>1, <1>2 DEF Rows

(* A step gives no entry the usage of another request that is not mixed.   *)
LEMMA OwnStep ==
    ASSUME BookTypes, AskedInv, OwnInv, BookNext PROVE OwnInv'
  <1>1. ASSUME NEW e \in Rows' PROVE e.usage \in {Nil, e.id} \cup mixed'
    <2>1. CASE e \in Rows
      BY <2>1, Times DEF OwnInv
    <2>2. CASE NewRow(e)
      BY <2>2 DEF NewRow
    <2>3. ASSUME NEW q \in Requests, Attached(q, e)
          PROVE  e.usage \in {Nil, e.id} \cup mixed'
      <3>1. CASE q \in mixed
        BY <2>3, <3>1, Times DEF Attached
      <3>2. CASE q \notin mixed
        BY <2>3, <3>2, OwnMatch DEF Attached
      <3>3. QED
        BY <3>1, <3>2
    <2>4. QED
      BY <1>1, <2>1, <2>2, <2>3, RowsStep
  <1>2. QED
    BY <1>1 DEF OwnInv

(* A request is done once, and done when its usage is in the log.          *)
LEMMA CreditStep ==
    ASSUME BookTypes, DownInv, CreditInv, BookNext PROVE CreditInv'
  <1>t. log \in Seq(LogEntry) /\ stage \in [Requests -> Stages]
    BY Times DEF BookTypes, BookTypeOK
  <1>r. \A e \in Rows : e.usage \in Requests \cup {Nil}
    <2>1. \A i \in DOMAIN log : log[i] \in LogEntry
      BY <1>t
    <2>2. disk # Nil => \A i \in DOMAIN disk.log : disk.log[i] \in LogEntry
      BY DEF BookTypes, BookTypeOK, File
    <2>3. QED
      BY <2>1, <2>2 DEF Rows, RowsOf, LogEntry
  <1>d. ASSUME NEW q \in Requests, stage[q] = "done" PROVE stage'[q] = "done"
    <2>1. CASE stage'[q] \in {"new", "done"}
      <3>1. CASE Crash
        BY <1>d, <3>1 DEF Crash
      <3>2. CASE ~Crash
        BY <1>d, <1>t, <2>1, <3>2 DEF BookNext, Lookup, RecordInjection, RecordBare, Usage,
           Attach, Abandon, Finish, Store, StartCombo, PutManual, Persist, PersistTorn,
           Reconfigure, RestoreFile, RestoreNothing, Tick
      <3>3. QED
        BY <3>1, <3>2
    <2>2. CASE stage'[q] \notin {"new", "done"}
      BY <1>d, <2>2, Requesting DEF Lookup, UnderWay
    <2>3. QED
      BY <2>1, <2>2
  <1>a. ASSUME NEW q \in Requests, NEW e, Attached(q, e)
        PROVE  /\ stage[q] # "done" /\ stage'[q] = "done" /\ e.usage = q
    BY <1>a, <1>t DEF Attached, Attach, Finish
  <1>1. ASSUME NEW e \in Rows', e.usage # Nil PROVE stage'[e.usage] = "done"
    <2>1. CASE e \in Rows
      BY <1>1, <1>d, <1>r, <2>1 DEF CreditInv
    <2>2. ASSUME NEW q \in Requests, Attached(q, e) PROVE stage'[e.usage] = "done"
      BY <1>a, <2>2
    <2>3. QED
      BY <1>1, <2>1, <2>2, RowsStep DEF NewRow
  <1>2. ASSUME NEW e \in Rows', NEW f \in Rows', e.usage = f.usage, e.usage # Nil
        PROVE  e.id = f.id
    <2>1. ASSUME NEW q \in Requests, Attached(q, e), f \in Rows PROVE FALSE
      BY <1>a, <1>2, <2>1 DEF CreditInv
    <2>2. ASSUME NEW q \in Requests, Attached(q, f), e \in Rows PROVE FALSE
      BY <1>a, <1>2, <2>2 DEF CreditInv
    <2>3. ASSUME NEW q \in Requests, NEW p \in Requests, Attached(q, e), Attached(p, f)
          PROVE  e.id = f.id
      <3>1. q = p
        BY <1>2, <2>3 DEF Attached
      <3>2. PICK i \in Matches(q) : e.id = log[i].id
        BY <2>3 DEF Attached
      <3>3. PICK j \in Matches(q) : f.id = log[j].id
        BY <2>3, <3>1 DEF Attached
      <3>4. i <= j /\ j <= i /\ i \in Int /\ j \in Int
        BY <1>t DEF Matches, Fits
      <3>5. QED
        BY <3>2, <3>3, <3>4
    <2>4. CASE e \in Rows /\ f \in Rows
      BY <1>2, <2>4 DEF CreditInv
    <2>5. QED
      BY <1>2, <2>1, <2>2, <2>3, <2>4, RowsStep DEF NewRow
  <1>3. QED
    BY <1>1, <1>2 DEF CreditInv

-----------------------------------------------------------------------------
(* The counters and the combos of a key: types, what the status page       *)
(* counts, and one sample for each ticket, whatever is stored, reloaded,   *)
(* torn or killed.                                                         *)
BookInv == BookTypes /\ DownInv /\ CountInv /\ SampleInv

LEMMA BookInvariant == BookSpec => []BookInv
  <1>1. BookInit => BookInv
    <2>1. BookInit => DownInv
      BY DEF BookInit, DownInv, UnderWay
    <2>2. QED
      BY <2>1, BookTypesInit, CountInit, SampleInit DEF BookInv
  <1>2. BookInv /\ [BookNext]_bookVars => BookInv'
    <2>1. ASSUME BookInv, BookNext PROVE BookInv'
      BY <2>1, BookTypesStep, DownStep, CountStep, SampleStep, Zenon DEF BookInv
    <2>2. ASSUME BookInv, UNCHANGED bookVars PROVE BookInv'
      BY <2>2 DEF BookInv, BookTypes, BookTypeOK, DownInv, CountInv, SampleInv, bookVars,
         books, config, ghosts, UnderWay, Total
    <2>3. QED
      BY <2>1, <2>2
  <1>3. QED
    BY <1>1, <1>2, PTL DEF BookSpec

(* The state of the bookkeeping has its types.                             *)
THEOREM BookTypeCorrect == BookSpec => []BookTypeOK
  <1>1. BookInv => BookTypeOK
    BY DEF BookInv, BookTypes
  <1>2. QED
    BY <1>1, BookInvariant, PTL

(* The counters agree with the requests recorded, for every set of them,   *)
(* through any reloads and crashes, unless a crash met a torn file.        *)
THEOREM CountersAreExact == BookSpec => []EveryRequestCounted
  <1>1. BookInv => EveryRequestCounted
    BY DEF BookInv, CountInv, EveryRequestCounted, Total
  <1>2. QED
    BY <1>1, BookInvariant, PTL

(* A combo closed by a bare request is never closed, and so never sampled, *)
(* a second time.                                                          *)
THEOREM TicketsSampledOnce == BookSpec => OneSamplePerTicket
  <1>1. BookInv => \A q \in Requests : RecordBare(q) /\ Open => combo.started \notin sampled
    BY DEF BookInv, SampleInv, Open
  <1>2. QED
    BY <1>1, BookInvariant, PTL DEF OneSamplePerTicket

(* Usage.                                                                  *)
UsageInv == OverlapInv /\ AskedInv /\ OwnInv /\ CreditInv

LEMMA UsageInvInit == BookInit => UsageInv
  <1> SUFFICES ASSUME BookInit PROVE UsageInv
    OBVIOUS
  <1>1. /\ stage = [q \in Requests |-> "new"] /\ log = <<>> /\ disk = Nil
    BY DEF BookInit
  <1>2. OverlapInv
    BY <1>1 DEF OverlapInv, UnderWay
  <1>3. AskedInv
    BY <1>1 DEF AskedInv
  <1>4. Rows = {}
    BY <1>1 DEF Rows, RowsOf
  <1>5. QED
    BY <1>2, <1>3, <1>4 DEF UsageInv, OwnInv, CreditInv

(* The usage of a request is put to the entry of that request, or to none, *)
(* and to one request's only, whatever the sessions of the requests are,   *)
(* unless requests of its session overlap with it or a ticket that was     *)
(* gone comes back meanwhile.                                              *)
THEOREM UsageIsAttachedRightly == BookSpec => []UsageReachesItsRequest
  <1>1. BookInit => UsageInv
    BY UsageInvInit
  <1>2. BookInv /\ UsageInv /\ [BookNext]_bookVars => UsageInv'
    <2>1. ASSUME BookInv, UsageInv, BookNext PROVE UsageInv'
      BY <2>1, OverlapStep, AskedStep, OwnStep, CreditStep, Zenon DEF BookInv, UsageInv
    <2>2. ASSUME UsageInv, UNCHANGED bookVars PROVE UsageInv'
      BY <2>2 DEF UsageInv, OverlapInv, AskedInv, OwnInv, CreditInv, bookVars, books, config,
         ghosts, UnderWay, Superseded, Alive, AliveFor, BehindBoth, Rows
    <2>3. QED
      BY <2>1, <2>2
  <1>3. UsageInv => UsageReachesItsRequest
    <2>1. \A i \in DOMAIN log : log[i] \in Rows
      BY DEF Rows, RowsOf
    <2>2. QED
      BY <2>1 DEF UsageInv, OwnInv, CreditInv, UsageReachesItsRequest
  <1>4. QED
    BY <1>1, <1>2, <1>3, BookInvariant, PTL DEF BookSpec

=============================================================================
