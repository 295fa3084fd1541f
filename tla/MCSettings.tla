----------------------------- MODULE MCSettings -----------------------------
(* Small instances of Settings: one account to select or none, a proxy. *)
EXTENDS Settings

CONSTANTS a1, p1

MCChoices == [k \in {"accounts", "proxies"} |->
                IF k = "accounts" THEN {Nobody, a1} ELSE {p1}]
NoYaml == [k \in {"accounts", "proxies"} |-> Unset]
MCYamls == {NoYaml, [NoYaml EXCEPT !["accounts"] = a1]}
MCNoYaml == {NoYaml}
=============================================================================
