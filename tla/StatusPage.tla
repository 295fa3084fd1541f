----------------------------- MODULE StatusPage -----------------------------
(***************************************************************************)
(* The status page: the script of the login page, which holds the          *)
(* management key and shows the page in a frame (status_security.go),      *)
(* and the operations the buttons in the frame ask for (management.go),    *)
(* with answers that come late and in any order.  An account is named by   *)
(* its id or, unless show_account_details is on, by an alias that each     *)
(* operation looks up again in the host's list.  What a save writes and    *)
(* what becomes of it is in Settings, a triggered sweep in Schedule.       *)
(***************************************************************************)
EXTENDS Naturals, FiniteSets

CONSTANTS Accounts,       \* Codex accounts the host may have
          Alias(_),       \* accountAlias
          UserKeys,       \* what may be typed or stored as a key
          NoKey,          \* the empty string
          NoPage,         \* no srcdoc
          None,           \* no target
          Nobody,         \* "__none__", a selection that matches no account
          MaxFlight,      \* bound: requests not yet answered
          MaxGeneration   \* bound: logins and logouts

Aliases == {Alias(a) : a \in Accounts}
Names == Accounts \cup Aliases
Page == [session : 0..MaxGeneration, names : SUBSET Names]

ASSUME StatusPageAssumption ==
    /\ IsFiniteSet(Accounts)
    /\ \A a, b \in Accounts : Alias(a) = Alias(b) => a = b
    /\ Accounts \cap Aliases = {}
    /\ NoKey \notin UserKeys
    /\ {Nobody, None} \cap Names = {}
    /\ NoPage \notin Page
    /\ MaxFlight \in Nat \ {0} /\ MaxGeneration \in Nat \ {0}

VARIABLES
    \* the login page
    key, generation,   \* the closure
    form, logout,      \* whether the form and the button are visible
    frame,             \* the page in the frame: what it offers, see Page
    flight,            \* requests sent and answers not yet received
    \* the plugin
    selected,          \* r.config.ProbeAuthIDs; {} is no restriction
    target,            \* whose key was last queued for a probe, or given a
                       \* ticket by hand
    \* ghosts
    session,           \* how often the user has logged in or out
    wanted,            \* the accounts checked when a selection was last saved
    missed,            \* those of them whose alias was looked up in vain then
    blind              \* the alias of target was looked up in vain

browserVars == <<key, generation, form, logout, frame>>
pluginVars == <<selected, target>>
ghostVars == <<session, wanted, missed, blind>>
vars == <<browserVars, flight, pluginVars, ghostVars>>

Loads == {"reload", "hosted"}
Operations == {"select", "probe_target", "manual"}
Answers == {"none", "done", "refused", "failed"}
Request == [op : Loads \cup Operations, key : UserKeys \cup {NoKey},
            generation : 0..MaxGeneration, session : 0..MaxGeneration,
            names : SUBSET Names, answer : Answers]

TypeOK ==
    /\ key \in UserKeys \cup {NoKey} /\ generation \in 0..MaxGeneration
    /\ form \in BOOLEAN /\ logout \in BOOLEAN
    /\ frame \in Page \cup {NoPage}
    /\ flight \subseteq Request /\ Cardinality(flight) <= MaxFlight
    /\ selected \subseteq Names \cup {Nobody} /\ target \in Names \cup {None}
    /\ session \in 0..MaxGeneration
    /\ wanted \subseteq Accounts /\ missed \subseteq Accounts
    /\ blind \in BOOLEAN

-----------------------------------------------------------------------------
(* The script. *)

Sent(op, names, k, g, s) ==
    [op |-> op, key |-> k, generation |-> g, session |-> s,
     names |-> names, answer |-> "none"]

(* The page is opened; a key that the host's own panel has stored is tried *)
(* at once (tryHostedLogin), with the form visible meanwhile.              *)
Init ==
    /\ \/ /\ key = NoKey /\ generation = 0 /\ session = 0
          /\ flight = {}
       \/ /\ key \in UserKeys /\ generation = 1 /\ session = 1
          /\ flight = {Sent("hosted", {}, key, 1, 1)}
    /\ form = TRUE /\ logout = FALSE /\ frame = NoPage
    /\ selected = {} /\ target = None
    /\ wanted = Accounts /\ missed = {} /\ blind = FALSE

Room == Cardinality(flight) < MaxFlight

(* The form is submitted: a new key, and the page is asked for with it. *)
Submit(k) ==
    /\ form /\ Room
    /\ generation < MaxGeneration
    /\ key' = k /\ generation' = generation + 1 /\ session' = session + 1
    /\ flight' = flight \cup {Sent("reload", {}, k, generation', session')}
    /\ UNCHANGED <<form, logout, frame, pluginVars, wanted, missed,
                   blind>>

(* clear *)
ClearHalf ==
    /\ generation' = generation + 1
    /\ key' = NoKey /\ frame' = NoPage /\ logout' = FALSE
    /\ UNCHANGED form
Clear ==
    /\ generation' = generation + 1
    /\ key' = NoKey /\ frame' = NoPage /\ form' = TRUE /\ logout' = FALSE

Logout ==
    /\ logout
    /\ generation < MaxGeneration /\ session < MaxGeneration
    /\ Clear
    /\ session' = session + 1
    /\ UNCHANGED <<flight, pluginVars, wanted, missed,
                   blind>>

(* A button in the frame: ctsReload, or ctsFetch for an operation on       *)
(* accounts the page shows.                                                *)
Click(op, names) ==
    /\ frame # NoPage /\ Room
    /\ flight' = flight \cup {Sent(op, names, key, generation, session)}
    /\ UNCHANGED <<browserVars, pluginVars, ghostVars>>
Refresh == Click("reload", {})
Operate ==
    frame # NoPage /\ \E names \in SUBSET frame.names :
        \/ Click("select", names)
        \/ \E op \in {"probe_target", "manual"} :
             Cardinality(names) = 1 /\ Click(op, names)

(* The page comes: ctsReload drops it if the generation has moved on. *)
ShowWhenever(r) ==
    /\ frame' = [session |-> r.session, names |-> r.names]
    /\ form' = FALSE /\ logout' = TRUE
    /\ UNCHANGED <<key, generation>>
Show(r) ==
    IF r.generation = generation
    THEN /\ frame' = [session |-> r.session, names |-> r.names]
         /\ form' = FALSE /\ logout' = TRUE
         /\ UNCHANGED <<key, generation>>
    ELSE UNCHANGED browserVars

(* ctsFetch clears on 401 or 403, whichever login the request was of; the  *)
(* catch of tryHostedLogin drops the key after any failure.                *)
Receive(r) ==
    /\ r \in flight /\ r.answer # "none"
    /\ flight' = flight \ {r}
    /\ CASE r.answer = "refused" -> generation < MaxGeneration /\ Clear
         [] r.answer = "failed" ->
              /\ key' = NoKey /\ form' = TRUE /\ logout' = FALSE
              /\ UNCHANGED <<generation, frame>>
         [] r.answer = "done" -> Show(r)
    /\ UNCHANGED <<pluginVars, ghostVars>>

-----------------------------------------------------------------------------
(* handleManagement, behind the host's check of the key. *)

Allowed(r) == r \in flight /\ r.answer = "none" /\ r.key # NoKey
Answered(r, answer, names) ==
    flight' = (flight \ {r}) \cup {[r EXCEPT !.answer = answer, !.names = names]}
(* The answer to an operation, other than a refusal, only words a message. *)
Dismissed(r) == flight' = flight \ {r}

(* The host refuses the key, which it may have changed, or the request or  *)
(* its answer is lost.                                                     *)
Turn(r) ==
    /\ r \in flight /\ r.answer = "none"
    /\ \/ Answered(r, "refused", {})
       \/ IF r.op = "hosted" THEN Answered(r, "failed", {}) ELSE Dismissed(r)
    /\ UNCHANGED <<browserVars, pluginVars, ghostVars>>

(* buildStatusView with redactStatusIdentities: a row for every account    *)
(* the host lists, none if its list fails, under ids or aliases as         *)
(* show_account_details has it at the moment.                              *)
Render(r) ==
    /\ Allowed(r) /\ r.op \in Loads
    /\ \E rows \in SUBSET Accounts :
         \/ Answered(r, "done", rows)
         \/ Answered(r, "done", {Alias(a) : a \in rows})
    /\ UNCHANGED <<browserVars, pluginVars, ghostVars>>

(* resolveStatusAuthID lists the accounts each time it is called: a name   *)
(* that is no alias of an account found then is returned as it is.         *)
Unresolved(n, found) == n
Resolved(n, found) ==
    IF \E a \in found : Alias(a) = n
    THEN CHOOSE a \in found : Alias(a) = n
    ELSE n

(* applyProbeAuthIDs: no names at all are stored as one that matches none. *)
EmptyIsEverybody(names) == names
Selection(names) == IF names = {} THEN {Nobody} ELSE names

Named(a, names) == {a, Alias(a)} \cap names # {}

(* save_probe_accounts.  An alias is found if its account is in the list   *)
(* its own call gets; the configuration in memory changes also if the file *)
(* cannot be written and the answer is an error.                           *)
SaveSelection(r) ==
    /\ Allowed(r) /\ r.op = "select"
    /\ \E found \in SUBSET Accounts :
         /\ selected' = Selection({Resolved(n, found) : n \in r.names})
         /\ missed' = {a \in Accounts \ found : Alias(a) \in r.names}
    /\ wanted' = {a \in Accounts : Named(a, r.names)}
    /\ Dismissed(r)
    /\ UNCHANGED <<browserVars, target, session, blind>>

(* probe_target and save_manual_state, unless the key is out of quota, the *)
(* queue full, or the account out of the configuration's range.            *)
OnAccount(r) ==
    /\ Allowed(r) /\ r.op \in {"probe_target", "manual"}
    /\ \/ UNCHANGED <<target, blind>>
       \/ \E n \in r.names, found \in SUBSET Accounts :
            /\ target' = Resolved(n, found)
            /\ blind' = (\E a \in Accounts \ found : Alias(a) = n)
    /\ Dismissed(r)
    /\ UNCHANGED <<browserVars, selected, session, wanted, missed>>

-----------------------------------------------------------------------------
Next ==
    \/ Logout \/ Refresh \/ Operate
    \/ \E k \in UserKeys : Submit(k)
    \/ \E r \in flight :
         Receive(r) \/ Turn(r) \/ Render(r) \/ SaveSelection(r) \/ OnAccount(r)

Spec == Init /\ [][Next]_vars

-----------------------------------------------------------------------------
(* A page that is put up was asked for in the present login: an answer     *)
(* that comes after a logout, or after another key was submitted, is not   *)
(* shown.                                                                  *)
LatePagesDropped ==
    [][frame' # frame /\ frame' # NoPage => frame'.session = session]_vars

(* The user always has a way on, whatever answers come late: the form or a *)
(* page, a page with the button to log out when the form is hidden, and    *)
(* that button with nothing but a page.                                    *)
AlwaysAWayOn ==
    /\ ~form => frame # NoPage /\ logout
    /\ logout => frame # NoPage

(* probeAuthEnabled *)
Enabled(a) == selected = {} \/ a \in selected
(* The accounts that are probed are those that were checked when the       *)
(* selection was last saved, less those whose alias was looked up in vain  *)
(* then, whatever the page showed and whatever the list has become since:  *)
(* an empty selection disables all accounts and does not enable all.       *)
SelectionIsWhatWasChecked ==
    \A a \in Accounts : Enabled(a) <=> a \in wanted \ missed

(* No operation leaves an alias behind as if it were an account, unless    *)
(* the host's list failed or had lost the account when it was looked up.   *)
AliasesResolve ==
    /\ selected \cap Aliases \subseteq {Alias(a) : a \in missed}
    /\ target \in Aliases => blind

=============================================================================
