--------------------------- MODULE SettingsProofs ---------------------------
(***************************************************************************)
(* What an operator has saved, for any set of choices, YAMLs and savers:   *)
(* it is what the next process reads, and it is in force unless an         *)
(* applyConfig overlapped the save.                                        *)
(***************************************************************************)
EXTENDS Settings, TLAPS

(* As long as no save of a setting has gone wrong, the one under way is    *)
(* alone, saves the last choice, and has emptied the file if it is past    *)
(* the opening.                                                            *)
SaveInv ==
    \A k \in Kinds : ~torn[k] =>
      \A s \in Savers : job[s] # None /\ job[s].kind = k =>
        /\ job[s].value = chosen[k]
        /\ job[s].step = "write" => file[k] = Unset
        /\ \A t \in Savers : job[t] # None /\ job[t].kind = k => t = s

(* An applyConfig that no save overlaps has read, or will read, the last   *)
(* choice.                                                                 *)
LoadInv ==
    loading # None =>
      \A k \in Kinds :
        k \notin loading.overlaps /\ loading.yaml[k] = Unset /\ ~torn[k] =>
          /\ ~Saving(k)
          /\ loading.got[k] \in {None, chosen[k]}

MemoryInv ==
    \A k \in Kinds :
      up /\ ~stale[k] /\ ~pinned[k] /\ ~torn[k] => memory[k] = chosen[k]

IInv == SaveInv /\ SavedSurvives /\ LoadInv /\ MemoryInv

-----------------------------------------------------------------------------
LEMMA ChoiceFacts ==
    /\ \A k \in Kinds : Choices[k] \subseteq All
    /\ \A v \in All : v \notin {Unset, Marker, Garbled, None}
    /\ Yamls \subseteq [Kinds -> All \cup {Unset}]
  BY SettingsAssumption DEF All

(* What a save writes is read back as what was saved.                      *)
LEMMA RoundTrip == \A v \in All : Decode(Encode(v)) = v
  BY ChoiceFacts DEF Encode, Decode

LEMMA TypeInit == Init => TypeOK
<1> SUFFICES ASSUME Init PROVE TypeOK
  OBVIOUS
<1>1. memory \in [Kinds -> Values] /\ file \in [Kinds -> Lines]
  BY DEF Init, Each, Values, Lines
<1>2. chosen \in [Kinds -> All \cup {Unset}]
  BY DEF Init, Each
<1>3. \A flag \in {torn, stale, pinned} : flag \in [Kinds -> BOOLEAN]
  BY DEF Init, Each
<1>4. job \in [Savers -> Job \cup {None}]
  BY DEF Init
<1>5. QED
  BY <1>1, <1>2, <1>3, <1>4 DEF Init, TypeOK

LEMMA TypeStep == TypeOK /\ [Next]_vars => TypeOK'
<1> SUFFICES ASSUME TypeOK, [Next]_vars PROVE TypeOK'
  OBVIOUS
<1>1. ASSUME NEW s \in Savers, NEW k \in Kinds, NEW v \in Choices[k],
             Accept(s, k, v)
      PROVE  TypeOK'
  <2>1. v \in All /\ v \in Values
    BY ChoiceFacts DEF Values
  <2>2. [kind |-> k, value |-> v, step |-> "open"] \in Job
    BY <2>1 DEF Job
  <2>3. loading' \in Loading \cup {None}
    <3>1. CASE loading = None
      BY <1>1, <3>1 DEF Accept
    <3>2. CASE loading # None
      <4>1. loading \in Loading
        BY <3>2 DEF TypeOK
      <4>2. loading' = [loading EXCEPT !.overlaps = loading.overlaps \cup {k}]
        BY <1>1, <3>2 DEF Accept
      <4>3. loading.overlaps \cup {k} \in SUBSET Kinds
        BY <4>1 DEF Loading
      <4>4. QED
        BY <4>1, <4>2, <4>3 DEF Loading
    <3>3. QED
      BY <3>1, <3>2
  <2>4. Saving(k) \in BOOLEAN
    BY DEF Saving
  <2>5. /\ torn' \in [Kinds -> BOOLEAN] /\ stale' \in [Kinds -> BOOLEAN]
        /\ pinned' \in [Kinds -> BOOLEAN]
    BY <1>1, <2>4 DEF Accept, TypeOK
  <2>6. /\ memory' \in [Kinds -> Values]
        /\ job' \in [Savers -> Job \cup {None}]
        /\ chosen' \in [Kinds -> All \cup {Unset}]
    BY <1>1, <2>1, <2>2 DEF Accept, TypeOK
  <2>7. QED
    BY <1>1, <2>3, <2>5, <2>6 DEF Accept, TypeOK
<1>2. ASSUME NEW s \in Savers, Open(s) PROVE TypeOK'
  <2>1. job[s] \in Job /\ Unset \in Lines
    BY <1>2 DEF Open, TypeOK, Lines
  <2>2. [job[s] EXCEPT !.step = "write"] \in Job
    BY <2>1 DEF Job
  <2>3. job' = [job EXCEPT ![s] = [job[s] EXCEPT !.step = "write"]]
    BY <1>2 DEF Open
  <2>4. job' \in [Savers -> Job \cup {None}]
    BY <2>2, <2>3 DEF TypeOK
  <2>5. file' \in [Kinds -> Lines]
    BY <1>2, <2>1 DEF Open, TypeOK
  <2>6. QED
    BY <1>2, <2>4, <2>5 DEF Open, TypeOK
<1>3. ASSUME NEW s \in Savers, Write(s) PROVE TypeOK'
  <2>1. job[s] \in Job
    BY <1>3 DEF Write, TypeOK
  <2>2. Encode(job[s].value) \in Lines /\ Garbled \in Lines
    BY <2>1 DEF Job, Encode, Lines
  <2>3. \E out \in {Encode(job[s].value), Garbled} :
          file' = [file EXCEPT ![job[s].kind] = out]
    BY <1>3 DEF Write
  <2>4. file' \in [Kinds -> Lines]
    BY <2>2, <2>3 DEF TypeOK
  <2>5. QED
    BY <1>3, <2>4 DEF Write, TypeOK
<1>4. ASSUME NEW s \in Savers, SaveFails(s) PROVE TypeOK'
  <2>1. job[s] \in Job /\ job[s].kind \in Kinds /\ Garbled \in Lines
    BY <1>4 DEF SaveFails, TypeOK, Job, Lines
  <2>2. file' \in [Kinds -> Lines]
    BY <1>4, <2>1 DEF SaveFails, TypeOK
  <2>3. torn' \in [Kinds -> BOOLEAN]
    BY <1>4 DEF SaveFails, TypeOK
  <2>4. QED
    BY <1>4, <2>2, <2>3 DEF SaveFails, TypeOK
<1>5. ASSUME NEW yaml \in Yamls, Register(yaml) PROVE TypeOK'
  <2>1. loading' \in Loading
    BY <1>5 DEF Register, Loading, Each
  <2>2. QED
    BY <1>5, <2>1 DEF Register, TypeOK
<1>6. ASSUME NEW k \in Kinds, Read(k) PROVE TypeOK'
  <2>1. loading \in Loading
    BY <1>6 DEF Read, TypeOK
  <2>2. Decode(file[k]) \in Values
    BY DEF TypeOK, Lines, Values, Decode
  <2>3. Loaded(loading.yaml, k) \in Values
    BY <2>1, <2>2, ChoiceFacts DEF Loading, Loaded, Values
  <2>4. [loading.got EXCEPT ![k] = Loaded(loading.yaml, k)]
          \in [Kinds -> Values \cup {None}]
    BY <2>1, <2>3 DEF Loading
  <2>5. loading' = [loading EXCEPT !.got =
                      [loading.got EXCEPT ![k] = Loaded(loading.yaml, k)]]
    BY <1>6 DEF Read
  <2>6. loading' \in Loading
    BY <2>1, <2>4, <2>5 DEF Loading
  <2>7. QED
    BY <1>6, <2>6 DEF Read, TypeOK
<1>7. CASE Refuse
  BY <1>7 DEF Refuse, TypeOK
<1>8. CASE Install
  <2>1. loading \in Loading
    BY <1>8 DEF Install, HasRead, TypeOK
  <2>2. memory' \in [Kinds -> Values]
    BY <1>8, <2>1 DEF Install, HasRead, Loading
  <2>3. stale' \in [Kinds -> BOOLEAN] /\ pinned' \in [Kinds -> BOOLEAN]
    BY <1>8 DEF Install
  <2>4. QED
    BY <1>8, <2>2, <2>3 DEF Install, TypeOK
<1>9. CASE Crash
  <2>1. torn' \in [Kinds -> BOOLEAN]
    BY <1>9 DEF Crash, Saving
  <2>2. memory' \in [Kinds -> Values] /\ job' \in [Savers -> Job \cup {None}]
    BY <1>9 DEF Crash, Each, Values
  <2>3. QED
    BY <1>9, <2>1, <2>2 DEF Crash, TypeOK
<1>10. CASE UNCHANGED vars
  BY <1>10 DEF vars, TypeOK
<1>11. QED
  BY <1>1, <1>2, <1>3, <1>4, <1>5, <1>6, <1>7, <1>8, <1>9, <1>10 DEF Next

(* Memory, files, saves and reconfigurations keep their shapes, for any    *)
(* number of savers (r.config, account_store.go, proxy_store.go).          *)
THEOREM SettingsTypeCorrect == Spec => []TypeOK
  BY TypeInit, TypeStep, PTL DEF Spec

-----------------------------------------------------------------------------
(* What SaveInv and SavedSurvives say of one setting. *)
Alone(k) ==
    \A s \in Savers : job[s] # None /\ job[s].kind = k =>
      /\ job[s].value = chosen[k]
      /\ job[s].step = "write" => file[k] = Unset
      /\ \A t \in Savers : job[t] # None /\ job[t].kind = k => t = s

Kept(k) == ~torn[k] => Alone(k) /\ (~Saving(k) => Decode(file[k]) = chosen[k])

LEMMA KeptIsBoth == SaveInv /\ SavedSurvives <=> \A k \in Kinds : Kept(k)
  BY DEF SaveInv, SavedSurvives, Kept, Alone

LEMMA AcceptKeeps ==
    ASSUME TypeOK, NEW j \in Kinds, Kept(j), NEW s \in Savers, NEW k \in Kinds,
           NEW v \in Choices[k], Accept(s, k, v)
    PROVE  Kept(j)'
<1>1. /\ job[s] = None /\ file' = file
      /\ job'[s] = [kind |-> k, value |-> v, step |-> "open"]
      /\ \A t \in Savers \ {s} : job'[t] = job[t]
  BY DEF Accept, TypeOK
<1>2. job'[s] # None
  BY <1>1, ChoiceFacts, SettingsAssumption
<1>3. CASE j = k
  <2>1. chosen'[j] = v /\ (~torn'[j] => ~Saving(j))
    BY <1>3 DEF Accept, TypeOK
  <2>2. Saving(j)'
    BY <1>1, <1>2, <1>3 DEF Saving
  <2>3. ~torn'[j] => Alone(j)'
    BY <1>1, <1>3, <2>1 DEF Alone, Saving
  <2>4. QED
    BY <2>2, <2>3 DEF Kept
<1>4. CASE j # k
  <2>1. chosen'[j] = chosen[j] /\ torn'[j] = torn[j]
    BY <1>4 DEF Accept, TypeOK
  <2>2. \A t \in Savers : job'[t] # None /\ job'[t].kind = j
                          <=> job[t] # None /\ job[t].kind = j
    BY <1>1, <1>2, <1>4
  <2>3. \A t \in Savers : job[t] # None /\ job[t].kind = j => job'[t] = job[t]
    BY <1>1
  <2>4. Saving(j)' <=> Saving(j)
    BY <2>2 DEF Saving
  <2>5. ~torn[j] => Alone(j)'
    BY <1>1, <2>1, <2>2, <2>3 DEF Alone, Kept
  <2>6. QED
    BY <1>1, <2>1, <2>4, <2>5 DEF Kept
<1>5. QED
  BY <1>3, <1>4

LEMMA OpenKeeps ==
    ASSUME TypeOK, NEW j \in Kinds, Kept(j), NEW s \in Savers, Open(s)
    PROVE  Kept(j)'
<1>1. /\ job[s] \in Job /\ job[s].kind \in Kinds
      /\ chosen' = chosen /\ torn' = torn
      /\ \A t \in Savers \ {s} : job'[t] = job[t]
      /\ job'[s] = [job[s] EXCEPT !.step = "write"]
  BY DEF Open, TypeOK, Job
<1>2. job'[s] # None /\ job'[s].kind = job[s].kind /\ job'[s].value = job[s].value
  BY <1>1, SettingsAssumption DEF Job
<1>3. \A t \in Savers : /\ job'[t] # None <=> job[t] # None
                        /\ job[t] # None => /\ job'[t].kind = job[t].kind
                                            /\ job'[t].value = job[t].value
  BY <1>1, <1>2, SettingsAssumption DEF Job
<1>4. Saving(j)' <=> Saving(j)
  BY <1>3 DEF Saving
<1>5. CASE job[s].kind = j
  <2>1. file'[j] = Unset /\ Saving(j)
    BY <1>1, <1>5, SettingsAssumption DEF Open, TypeOK, Saving, Job
  <2>2. ~torn[j] => Alone(j)'
    BY <1>1, <1>3, <2>1 DEF Alone, Kept
  <2>3. QED
    BY <1>1, <1>4, <2>1, <2>2 DEF Kept
<1>6. CASE job[s].kind # j
  <2>1. file'[j] = file[j]
    BY <1>1, <1>6 DEF Open, TypeOK
  <2>2. \A t \in Savers : job[t] # None /\ job[t].kind = j => job'[t] = job[t]
    BY <1>1, <1>6
  <2>3. ~torn[j] => Alone(j)'
    BY <1>1, <1>3, <2>1, <2>2 DEF Alone, Kept
  <2>4. QED
    BY <1>1, <1>4, <2>1, <2>3 DEF Kept
<1>7. QED
  BY <1>5, <1>6

(* The end of a save of another setting leaves this one alone. *)
LEMMA OthersKeep ==
    ASSUME TypeOK, NEW j \in Kinds, Kept(j), NEW s \in Savers,
           job[s] # None, job[s].kind # j,
           job' = [job EXCEPT ![s] = None], chosen' = chosen,
           file'[j] = file[j], torn'[j] = torn[j]
    PROVE  Kept(j)'
<1>1. \A t \in Savers : job'[t] = IF t = s THEN None ELSE job[t]
  BY DEF TypeOK
<1>2. \A t \in Savers : job'[t] # None /\ job'[t].kind = j
                        <=> job[t] # None /\ job[t].kind = j
  BY <1>1
<1>3. Saving(j)' <=> Saving(j)
  BY <1>2 DEF Saving
<1>4. ~torn[j] => Alone(j)'
  BY <1>1, <1>2 DEF Alone, Kept
<1>5. QED
  BY <1>3, <1>4 DEF Kept

LEMMA WriteKeeps ==
    ASSUME TypeOK, NEW j \in Kinds, Kept(j), NEW s \in Savers, Write(s)
    PROVE  Kept(j)'
<1>1. /\ job[s] # None /\ job[s] \in Job /\ job[s].kind \in Kinds
      /\ job[s].value \in All /\ job[s].step = "write"
      /\ chosen' = chosen /\ torn' = torn /\ job' = [job EXCEPT ![s] = None]
  BY DEF Write, TypeOK, Job
<1>2. CASE job[s].kind = j
  <2>1. SUFFICES ASSUME ~torn[j] PROVE Alone(j)' /\ Decode(file'[j]) = chosen[j]
    BY <1>1 DEF Kept
  <2>2. /\ job[s].value = chosen[j] /\ file[j] = Unset
        /\ \A t \in Savers : job[t] # None /\ job[t].kind = j => t = s
    BY <1>1, <1>2, <2>1 DEF Kept, Alone
  <2>3. file' = [file EXCEPT ![j] = Encode(job[s].value)]
    BY <1>1, <1>2, <2>2 DEF Write
  <2>4. Decode(file'[j]) = chosen[j]
    BY <1>1, <2>2, <2>3, RoundTrip DEF TypeOK
  <2>5. \A t \in Savers : ~(job'[t] # None /\ job'[t].kind = j)
    BY <1>1, <2>2 DEF TypeOK
  <2>6. QED
    BY <2>4, <2>5 DEF Alone
<1>3. CASE job[s].kind # j
  <2>1. file'[j] = file[j]
    BY <1>1, <1>3 DEF Write, TypeOK
  <2>2. QED
    BY <1>1, <1>3, <2>1, OthersKeep
<1>4. QED
  BY <1>2, <1>3

LEMMA FailKeeps ==
    ASSUME TypeOK, NEW j \in Kinds, Kept(j), NEW s \in Savers, SaveFails(s)
    PROVE  Kept(j)'
<1>1. /\ job[s] # None /\ job[s].kind \in Kinds
      /\ chosen' = chosen /\ job' = [job EXCEPT ![s] = None]
  BY DEF SaveFails, TypeOK, Job
<1>2. CASE job[s].kind = j
  <2>1. torn'[j]
    BY <1>2 DEF SaveFails, TypeOK
  <2>2. QED
    BY <2>1 DEF Kept
<1>3. CASE job[s].kind # j
  <2>1. file'[j] = file[j] /\ torn'[j] = torn[j]
    BY <1>1, <1>3 DEF SaveFails, TypeOK
  <2>2. QED
    BY <1>1, <1>3, <2>1, OthersKeep
<1>4. QED
  BY <1>2, <1>3

LEMMA CrashKeeps ==
    ASSUME TypeOK, NEW j \in Kinds, Kept(j), Crash
    PROVE  Kept(j)'
<1>1. /\ file' = file /\ chosen' = chosen
      /\ \A t \in Savers : job'[t] = None
      /\ ~torn'[j] => ~torn[j] /\ ~Saving(j)
  BY DEF Crash
<1>2. QED
  BY <1>1 DEF Kept, Alone

LEMMA SaveStep ==
    ASSUME TypeOK, SaveInv, SavedSurvives, [Next]_vars
    PROVE  (SaveInv /\ SavedSurvives)'
<1>1. ASSUME NEW j \in Kinds PROVE Kept(j)'
  <2>1. Kept(j)
    BY KeptIsBoth
  <2>2. CASE UNCHANGED <<file, job, chosen, torn>>
    BY <2>1, <2>2 DEF Kept, Alone, Saving
  <2>3. QED
    BY <2>1, <2>2, AcceptKeeps, OpenKeeps, WriteKeeps, FailKeeps, CrashKeeps
       DEF Next, Register, Read, Refuse, Install, vars
<1>2. QED
  BY <1>1 DEF SaveInv, SavedSurvives, Kept, Alone

-----------------------------------------------------------------------------
(* What LoadInv says of one setting while an applyConfig is under way.     *)
Reads(k) ==
    k \notin loading.overlaps /\ loading.yaml[k] = Unset /\ ~torn[k] =>
      /\ ~Saving(k)
      /\ loading.got[k] \in {None, chosen[k]}

(* A save of a setting that starts now overlaps it; one that goes on or    *)
(* ends was under way before.                                              *)
LEMMA AcceptReads ==
    ASSUME TypeOK, loading # None, NEW j \in Kinds, Reads(j),
           NEW s \in Savers, NEW k \in Kinds, NEW v \in Choices[k],
           Accept(s, k, v)
    PROVE  Reads(j)'
<1>1. loading \in Loading
  BY DEF TypeOK
<1>2. /\ loading'.overlaps = loading.overlaps \cup {k}
      /\ loading'.yaml = loading.yaml /\ loading'.got = loading.got
  <2>1. loading' = [loading EXCEPT !.overlaps = loading.overlaps \cup {k}]
    BY DEF Accept
  <2>2. QED
    BY <1>1, <2>1 DEF Loading
<1>3. CASE j = k
  BY <1>2, <1>3 DEF Reads
<1>4. CASE j # k
  <2>1. chosen'[j] = chosen[j] /\ torn'[j] = torn[j]
    BY <1>4 DEF Accept, TypeOK
  <2>2. \A t \in Savers : job'[t] # None /\ job'[t].kind = j
                          => job[t] # None /\ job[t].kind = j
    BY <1>4 DEF Accept, TypeOK
  <2>3. Saving(j)' => Saving(j)
    BY <2>2 DEF Saving
  <2>4. QED
    BY <1>2, <2>1, <2>3 DEF Reads
<1>5. QED
  BY <1>3, <1>4

LEMMA SaversRead ==
    ASSUME TypeOK, NEW j \in Kinds, Reads(j), NEW s \in Savers,
           Open(s) \/ Write(s) \/ SaveFails(s)
    PROVE  Reads(j)' /\ loading' = loading
<1>1. loading' = loading /\ chosen' = chosen /\ job[s] \in Job
  BY DEF Open, Write, SaveFails, TypeOK
<1>2. torn[j] => torn'[j]
  BY DEF Open, Write, SaveFails, TypeOK
<1>3. \A t \in Savers : job'[t] # None => job[t] # None /\ job'[t].kind = job[t].kind
  <2>1. CASE Open(s)
    <3>1. job' = [job EXCEPT ![s] = [job[s] EXCEPT !.step = "write"]]
      BY <2>1 DEF Open
    <3>2. [job[s] EXCEPT !.step = "write"].kind = job[s].kind /\ job[s] # None
      BY <1>1, <2>1 DEF Job, Open
    <3>3. QED
      BY <3>1, <3>2 DEF TypeOK
  <2>2. CASE Write(s) \/ SaveFails(s)
    BY <2>2 DEF Write, SaveFails, TypeOK
  <2>3. QED
    BY <2>1, <2>2
<1>4. Saving(j)' => Saving(j)
  BY <1>3 DEF Saving
<1>5. QED
  BY <1>1, <1>2, <1>4 DEF Reads

LEMMA ReadReads ==
    ASSUME TypeOK, SavedSurvives, NEW j \in Kinds, Reads(j),
           NEW k \in Kinds, Read(k)
    PROVE  Reads(j)'
<1>1. loading \in Loading /\ torn' = torn /\ chosen' = chosen /\ job' = job
  BY DEF Read, TypeOK
<1>2. loading' = [loading EXCEPT !.got =
                    [loading.got EXCEPT ![k] = Loaded(loading.yaml, k)]]
  BY DEF Read
<1>3. /\ loading'.overlaps = loading.overlaps /\ loading'.yaml = loading.yaml
      /\ loading'.got[j] = IF j = k THEN Loaded(loading.yaml, k)
                           ELSE loading.got[j]
  BY <1>1, <1>2 DEF Loading
<1>4. SUFFICES ASSUME j \notin loading.overlaps, loading.yaml[j] = Unset, ~torn[j]
               PROVE  loading'.got[j] \in {None, chosen[j]} /\ ~Saving(j)'
  BY <1>1, <1>3 DEF Reads
<1>5. ~Saving(j) /\ ~Saving(j)' /\ loading.got[j] \in {None, chosen[j]}
  BY <1>1, <1>4 DEF Reads, Saving
<1>6. Decode(file[j]) = chosen[j]
  BY <1>4, <1>5 DEF SavedSurvives
<1>7. QED
  BY <1>3, <1>4, <1>5, <1>6 DEF Loaded

LEMMA LoadStep ==
    ASSUME TypeOK, SavedSurvives, LoadInv, [Next]_vars
    PROVE  LoadInv'
<1>1. SUFFICES ASSUME loading' # None, NEW j \in Kinds PROVE Reads(j)'
  BY DEF LoadInv, Reads
<1>2. loading # None => Reads(j)
  BY DEF LoadInv, Reads
<1>3. ASSUME NEW yaml \in Yamls, Register(yaml) PROVE Reads(j)'
  <2>1. /\ j \notin loading'.overlaps => ~Saving(j)
        /\ loading'.got[j] = None
        /\ job' = job
    BY <1>3 DEF Register, Each
  <2>2. QED
    BY <2>1 DEF Reads, Saving
<1>4. CASE UNCHANGED <<loading, job, torn, chosen>>
  BY <1>1, <1>2, <1>4 DEF Reads, Saving
<1>5. ASSUME NEW k \in Kinds, Read(k) PROVE Reads(j)'
  BY <1>2, <1>5, ReadReads DEF Read
<1>6. ASSUME NEW s \in Savers, NEW k \in Kinds, NEW v \in Choices[k], Accept(s, k, v)
      PROVE  Reads(j)'
  <2>1. loading # None
    BY <1>1, <1>6 DEF Accept
  <2>2. QED
    BY <1>2, <1>6, <2>1, AcceptReads
<1>7. ASSUME NEW s \in Savers, Open(s) \/ Write(s) \/ SaveFails(s) PROVE Reads(j)'
  <2>1. loading' = loading
    BY <1>7 DEF Open, Write, SaveFails
  <2>2. QED
    BY <1>1, <1>2, <1>7, <2>1, SaversRead
<1>8. CASE Refuse \/ Install \/ Crash
  BY <1>1, <1>8 DEF Refuse, Install, Crash
<1>9. QED
  BY <1>3, <1>4, <1>5, <1>6, <1>7, <1>8 DEF Next, vars

LEMMA MemoryStep ==
    ASSUME TypeOK, LoadInv, MemoryInv, [Next]_vars
    PROVE  MemoryInv'
<1>1. SUFFICES ASSUME NEW j \in Kinds, up', ~stale'[j], ~pinned'[j], ~torn'[j]
               PROVE  memory'[j] = chosen'[j]
  BY DEF MemoryInv
<1>2. ASSUME NEW s \in Savers, NEW k \in Kinds, NEW v \in Choices[k], Accept(s, k, v)
      PROVE  memory'[j] = chosen'[j]
  <2>1. CASE j = k
    BY <1>2, <2>1 DEF Accept, TypeOK
  <2>2. CASE j # k
    BY <1>1, <1>2, <2>2 DEF Accept, TypeOK, MemoryInv
  <2>3. QED
    BY <2>1, <2>2
<1>3. ASSUME NEW s \in Savers, Open(s) \/ Write(s) \/ SaveFails(s)
      PROVE  memory'[j] = chosen'[j]
  <2>1. torn[j] => torn'[j]
    BY <1>3 DEF Open, Write, SaveFails, TypeOK
  <2>2. QED
    BY <1>1, <1>3, <2>1 DEF Open, Write, SaveFails, MemoryInv
<1>4. CASE Install
  <2>1. /\ j \notin loading.overlaps /\ loading.yaml[j] = Unset /\ ~torn[j]
        /\ loading # None /\ loading.got[j] # None
    BY <1>1, <1>4 DEF Install, HasRead
  <2>2. loading.got[j] = chosen[j]
    BY <2>1 DEF LoadInv
  <2>3. QED
    BY <1>4, <2>2 DEF Install
<1>5. CASE Crash
  BY <1>1, <1>5 DEF Crash
<1>6. CASE UNCHANGED <<up, memory, chosen, torn, stale, pinned>>
  BY <1>1, <1>6 DEF MemoryInv
<1>7. QED
  BY <1>2, <1>3, <1>4, <1>5, <1>6 DEF Next, Register, Read, Refuse, vars

-----------------------------------------------------------------------------
LEMMA SettingsInit == Init => IInv
<1> SUFFICES ASSUME Init PROVE IInv
  OBVIOUS
<1>1. \A k \in Kinds : file[k] = Unset /\ chosen[k] = Unset
  BY DEF Init, Each
<1>2. \A k \in Kinds : Decode(file[k]) = chosen[k]
  BY <1>1, SettingsAssumption DEF Decode
<1>3. \A s \in Savers : job[s] = None
  BY DEF Init
<1>4. ~up /\ loading = None
  BY DEF Init
<1>5. QED
  BY <1>2, <1>3, <1>4 DEF IInv, SaveInv, SavedSurvives, LoadInv, MemoryInv

LEMMA SettingsInvariant == Spec => [](TypeOK /\ IInv)
<1>1. TypeOK /\ IInv /\ [Next]_vars => (TypeOK /\ IInv)'
  BY TypeStep, SaveStep, LoadStep, MemoryStep DEF IInv
<1>2. QED
  BY <1>1, TypeInit, SettingsInit, PTL DEF Spec

(* What was saved, neither failing nor overlapping another save, is what   *)
(* the next process reads (account_store.go, proxy_store.go).              *)
THEOREM SavesSurvive == Spec => []SavedSurvives
  BY SettingsInvariant, PTL DEF IInv

(* It is in force, at once and after any reconfiguration or restart, if no *)
(* applyConfig overlapped it (runtime.go).                                 *)
THEOREM UndisturbedSavesHold == Spec => []UndisturbedSaveHolds
<1>1. IInv => UndisturbedSaveHolds
  BY DEF IInv, MemoryInv, UndisturbedSaveHolds, InForce
<1>2. QED
  BY <1>1, SettingsInvariant, PTL

=============================================================================
