------------------------------ MODULE Settings ------------------------------
(***************************************************************************)
(* The two settings an operator saves on the status page, which accounts   *)
(* to probe and which proxies to use: in memory (r.config), in a file each *)
(* (account_store.go, proxy_store.go), and in the host's YAML, which wins. *)
(* Saves run in management calls, applyConfig in the host's; nothing keeps *)
(* them apart but r.mu, and no file is touched under r.mu.                 *)
(***************************************************************************)
CONSTANTS Choices,    \* what an operator may save, for each setting
          Yamls,      \* what the host's YAML says of them: a choice or Unset
          Savers,     \* management calls
          Unset,      \* no setting: all accounts, no proxy
          Nobody,     \* the selection of no account ("__none__")
          Marker,     \* the line "# none"
          Garbled,    \* two writes over each other
          None

Kinds == DOMAIN Choices
All == UNION {Choices[k] : k \in Kinds}

ASSUME SettingsAssumption ==
    /\ Kinds = {"accounts", "proxies"}
    /\ \A k \in Kinds : Choices[k] \cap {Unset, Marker, Garbled, None} = {}
    /\ Nobody \notin Choices["proxies"]
    /\ Yamls \subseteq [Kinds -> All \cup {Unset}]
    /\ Unset # Nobody /\ Marker \notin {Unset, Nobody}
    /\ Garbled \notin {Unset, Nobody, Marker}
    /\ None \notin {Unset, Nobody, Marker, Garbled}
    /\ None \notin [kind : Kinds, value : All, step : {"open", "write"}]

VARIABLES
    up,       \* a configuration has been applied
    memory,   \* r.config.ProbeAuthIDs and r.config.Proxy
    file,     \* the lines in probe-auths.txt and proxies.txt
    job,      \* what a saver is saving, and its next step
    loading,  \* applyConfig before its second lock: YAML, what it has read;
              \* ghost: the settings that a save overlaps
    chosen,   \* ghost: what an operator last saved
    torn,     \* ghost: that save failed, died or overlapped another
    stale,    \* ghost: an applyConfig that a save overlapped was installed
    pinned    \* ghost: the YAML has overridden it

vars == <<up, memory, file, job, loading, chosen, torn, stale, pinned>>

Values == All \cup {Unset, Nobody, Garbled}
Lines == (All \ {Nobody}) \cup {Unset, Marker, Garbled}   \* Unset: none
Job == [kind : Kinds, value : All, step : {"open", "write"}]
Loading == [yaml : Yamls, got : [Kinds -> Values \cup {None}],
            overlaps : SUBSET Kinds]

TypeOK ==
    /\ up \in BOOLEAN
    /\ memory \in [Kinds -> Values]
    /\ file \in [Kinds -> Lines]
    /\ job \in [Savers -> Job \cup {None}]
    /\ loading \in Loading \cup {None}
    /\ chosen \in [Kinds -> All \cup {Unset}]
    /\ \A flag \in {torn, stale, pinned} : flag \in [Kinds -> BOOLEAN]

Each(x) == [k \in Kinds |-> x]
Init ==
    /\ up = FALSE /\ memory = Each(Unset) /\ file = Each(Unset)
    /\ job = [s \in Savers |-> None] /\ loading = None
    /\ chosen = Each(Unset)
    /\ torn = Each(FALSE) /\ stale = Each(FALSE) /\ pinned = Each(FALSE)

Saving(k) == \E s \in Savers : job[s] # None /\ job[s].kind = k

-----------------------------------------------------------------------------
(* What a save writes, and what reading it back gives.  An empty selection *)
(* is "__none__" in memory and "# none" on file; an empty or absent file   *)
(* sets nothing.                                                           *)
EncodeWithoutMarker(v) == IF v = Nobody THEN Unset ELSE v
Encode(v) == IF v = Nobody THEN Marker ELSE v
Decode(l) == IF l = Marker THEN Nobody ELSE l

(* loadPersistedProbeAuthIDs and loadPersistedProxyLines read the file     *)
(* unless the YAML sets the setting itself.                                *)
LoadedFromYaml(yaml, k) == yaml[k]
Loaded(yaml, k) == IF yaml[k] # Unset THEN yaml[k] ELSE Decode(file[k])

(* applyProbeAuthIDs, applyProxyLines: the new value goes into r.config    *)
(* under r.mu; the file comes after.                                       *)
Accept(s, k, v) ==
    /\ up /\ job[s] = None
    /\ memory' = [memory EXCEPT ![k] = v]
    /\ job' = [job EXCEPT ![s] = [kind |-> k, value |-> v, step |-> "open"]]
    /\ chosen' = [chosen EXCEPT ![k] = v]
    /\ torn' = [torn EXCEPT ![k] = Saving(k)]
    /\ stale' = [stale EXCEPT ![k] = FALSE]
    /\ pinned' = [pinned EXCEPT ![k] = FALSE]
    /\ loading' = IF loading = None THEN None
                  ELSE [loading EXCEPT !.overlaps = @ \cup {k}]
    /\ UNCHANGED <<up, file>>

(* os.WriteFile opens the file, which empties it, and then writes.  Either *)
(* may fail (a write half-way): the save reports an error and the memory   *)
(* stays as it is.                                                         *)
Open(s) ==
    /\ job[s] # None /\ job[s].step = "open"
    /\ file' = [file EXCEPT ![job[s].kind] = Unset]
    /\ job' = [job EXCEPT ![s].step = "write"]
    /\ UNCHANGED <<up, memory, loading, chosen, torn, stale, pinned>>

Write(s) ==
    /\ job[s] # None /\ job[s].step = "write"
    /\ LET k == job[s].kind
           l == Encode(job[s].value)
       IN  \E out \in IF file[k] = Unset THEN {l} ELSE {l, Garbled} :
             file' = [file EXCEPT ![k] = out]
    /\ job' = [job EXCEPT ![s] = None]
    /\ UNCHANGED <<up, memory, loading, chosen, torn, stale, pinned>>

SaveFails(s) ==
    /\ job[s] # None
    /\ \E out \in IF job[s].step = "write" THEN {file[job[s].kind], Garbled}
                 ELSE {file[job[s].kind]} :
         file' = [file EXCEPT ![job[s].kind] = out]
    /\ job' = [job EXCEPT ![s] = None]
    /\ torn' = [torn EXCEPT ![job[s].kind] = TRUE]
    /\ UNCHANGED <<up, memory, loading, chosen, stale, pinned>>

-----------------------------------------------------------------------------
(* applyConfig reads the two files, with no lock; refuses proxies it       *)
(* cannot parse; waits for the worker; and takes r.mu to install.          *)
Register(yaml) ==
    /\ loading = None
    /\ loading' = [yaml |-> yaml, got |-> Each(None),
                   overlaps |-> {k \in Kinds : Saving(k)}]
    /\ UNCHANGED <<up, memory, file, job, chosen, torn, stale, pinned>>

Read(k) ==
    /\ loading # None /\ loading.got[k] = None
    /\ k = "accounts" => loading.got["proxies"] # None
    /\ loading' = [loading EXCEPT !.got[k] = Loaded(loading.yaml, k)]
    /\ UNCHANGED <<up, memory, file, job, chosen, torn, stale, pinned>>

HasRead == loading # None /\ \A k \in Kinds : loading.got[k] # None

Refuse ==
    /\ HasRead /\ loading.got["proxies"] = Garbled
    /\ loading' = None
    /\ UNCHANGED <<up, memory, file, job, chosen, torn, stale, pinned>>

Install ==
    /\ HasRead
    /\ memory' = loading.got
    /\ pinned' = [k \in Kinds |-> loading.yaml[k] # Unset]
    /\ stale' = [k \in Kinds |-> k \in loading.overlaps]
    /\ up' = TRUE
    /\ loading' = None
    /\ UNCHANGED <<file, job, chosen, torn>>

(* The process dies, and the saves under way with it. *)
Crash ==
    /\ up' = FALSE
    /\ memory' = Each(Unset)
    /\ job' = [s \in Savers |-> None]
    /\ loading' = None
    /\ torn' = [k \in Kinds |-> torn[k] \/ Saving(k)]
    /\ UNCHANGED <<file, chosen, stale, pinned>>

Next ==
    \/ \E s \in Savers : \/ \E k \in Kinds : \E v \in Choices[k] : Accept(s, k, v)
                         \/ Open(s) \/ Write(s) \/ SaveFails(s)
    \/ \E yaml \in Yamls : Register(yaml)
    \/ \E k \in Kinds : Read(k)
    \/ Refuse \/ Install \/ Crash

Spec == Init /\ [][Next]_vars

-----------------------------------------------------------------------------
(* A save that neither failed nor overlapped another is in its file: what  *)
(* a new process reads is what the operator chose, the empty selection     *)
(* included, whatever saves went wrong before it.                          *)
SavedSurvives ==
    \A k \in Kinds : ~torn[k] /\ ~Saving(k) => Decode(file[k]) = chosen[k]

InForce(k) ==
    up /\ loading = None /\ ~pinned[k] /\ ~torn[k] /\ ~Saving(k)
    => memory[k] = chosen[k]

(* If no applyConfig overlapped it either, it is in force: at once, after  *)
(* any number of reconfigurations, and after a restart.                    *)
UndisturbedSaveHolds == \A k \in Kinds : ~stale[k] => InForce(k)

(* The status page says "saved, probing starts" (management.go): a save    *)
(* that has succeeded is in force.                                         *)
SavedIsInForce == \A k \in Kinds : InForce(k)

=============================================================================
