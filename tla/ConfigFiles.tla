------------------------------ MODULE ConfigFiles ------------------------------
(***************************************************************************)
(* The three configuration files, the copy the ConfigManager holds in      *)
(* memory, and the browsers that edit it.  The editor reads and compares   *)
(* the copy, never the files, and writes server.yaml and                   *)
(* authentication.yaml one after the other, each in place.  A form shows   *)
(* a stored secret as a mask and leaves out the keys it has no field for;  *)
(* a save puts both back.                                                  *)
(*                                                                         *)
(* No handler suspends between its reads and its writes, so each is one    *)
(* step; the write that fails half-way is a choice inside it.              *)
(***************************************************************************)
EXTENDS Naturals

CONSTANTS Editors,
          HandMade,    \* what is edited by hand: a subset of Sections \cup {"policy"}
          MaxHands,    \* bound: edits by hand
          MaxTyped,    \* bound: changes typed into forms
          MaxFails     \* bound: saves that fail or end in a crash

\* "meta" is the required section server; "locked" is one the strict policy
\* keeps from the editor; "page" has a key the editor has no field for, "kept";
\* "secret" stands for a user's row in authentication.yaml.
Sections == {"meta", "plain", "locked", "page", "secret"}
Keys == Sections \cup {"kept"}
Ours == Keys \ {"secret"}
Values == {"none", "v", "w"}
mask == "mask"
empty == "empty"
removed == "removed"     \* the row was taken out of the form

VARIABLES
  server, auth,    \* the two files: readable or torn, and what they hold
  policy,          \* security.yaml: "open", "strict", or "bad"
  up,              \* the server runs
  memory,          \* ConfigManager.config
  cached,          \* ConfigManager._security_policy
  form,            \* form[e]: what e's page would submit
  answer,          \* answer[e]: what e's last save was told
  hands, typed, fails

bounds == <<hands, typed, fails>>
vars == <<server, auth, policy, up, memory, cached, form, answer, bounds>>

Contents == [Keys -> Values]
Forms == [Keys -> Values \cup {mask, removed}]
noForm == [k \in Keys |-> "none"]

TypeOK ==
    /\ server \in [readable : BOOLEAN, holds : [Ours -> Values]]
    /\ auth \in [readable : BOOLEAN, holds : Values]
    /\ policy \in {"open", "strict", "bad"} /\ up \in BOOLEAN
    /\ memory \in Contents /\ cached \in {"none", "open", "strict"}
    /\ form \in [Editors -> Forms]
    /\ answer \in [Editors -> {"none", "saved", "not saved", "refused"}]
    /\ hands \in 0..MaxHands /\ typed \in 0..MaxTyped /\ fails \in 0..MaxFails

OnDisk == [k \in Keys |-> IF k = "secret" THEN auth.holds ELSE server.holds[k]]
InStep == server.readable /\ auth.readable /\ memory = OnDisk

Init ==
    /\ server = [readable |-> TRUE, holds |-> [k \in Ours |-> "v"]]
    /\ auth = [readable |-> TRUE, holds |-> "v"]
    /\ policy \in {"open", "strict"} /\ up = TRUE
    /\ memory = OnDisk /\ cached = policy
    /\ form = [e \in Editors |-> noForm] /\ answer = [e \in Editors |-> "none"]
    /\ hands = 0 /\ typed = 0 /\ fails = 0

-----------------------------------------------------------------------------
(* Loading *)

Loads == server.readable /\ server.holds["meta"] # "none" /\ auth.readable

\* What a load leaves in memory.  A file that does not parse leaves it alone;
\* one that parses is taken over before it is judged, and the users come last.
Parsed == IF Loads THEN OnDisk
          ELSE IF server.readable
               THEN [k \in Keys |-> IF k = "secret" THEN "none" ELSE server.holds[k]]
               ELSE memory

\* A bad security.yaml raises at every look, until it is mended.
Policy == IF cached # "none" THEN cached ELSE policy
Looked == IF Policy = "bad" THEN "none" ELSE Policy

Reload ==
    /\ up /\ memory' = Parsed
    /\ cached' = IF ~Loads THEN cached ELSE IF policy = "bad" THEN "none" ELSE policy
    /\ UNCHANGED <<server, auth, policy, up, form, answer, bounds>>

Start ==
    /\ ~up /\ Loads /\ policy # "bad"
    /\ up' = TRUE /\ memory' = OnDisk /\ cached' = policy
    /\ UNCHANGED <<server, auth, policy, form, answer, bounds>>

-----------------------------------------------------------------------------
(* Editing *)

Masked(c) == [k \in Keys |-> CASE k = "kept" -> "none"
                               [] k = "secret" /\ c[k] # "none" -> mask
                               [] OTHER -> c[k]]

Open(e) ==
    /\ up /\ form' = [form EXCEPT ![e] = Masked(memory)]
    /\ answer' = [answer EXCEPT ![e] = "none"]
    /\ cached' = Looked
    /\ UNCHANGED <<server, auth, policy, up, memory, bounds>>

Fields(k) == IF k = "secret" THEN {"v", "w", removed} ELSE Values

Type(e, k, v) ==
    /\ form[e] # noForm /\ form[e][k] # v
    /\ typed < MaxTyped /\ typed' = typed + 1
    /\ form' = [form EXCEPT ![e][k] = v]
    /\ UNCHANGED <<server, auth, policy, up, memory, cached, answer, hands, fails>>

\* What a save would write for the form: the stored secret for its mask, and
\* the stored value of the key without a field, if its section is still there.
Prepared(f) ==
    [k \in Keys |-> CASE k = "secret" /\ f[k] = mask ->
                           IF memory[k] = "none" THEN empty ELSE memory[k]
                      [] k = "secret" /\ f[k] = removed -> "none"
                      [] k = "kept" /\ f["page"] # "none" /\ memory["page"] # "none" ->
                           memory[k]
                      [] OTHER -> f[k]]

(* Mutant: only what the form sends is compared.                           *)
ModifiedIfSent(c) == {k \in Sections : c[k] # memory[k] /\ c[k] # "none"}

Modified(c) == {k \in Sections : c[k] # memory[k]}

Valid(c) == c["meta"] # "none" /\ c["secret"] # empty
Disallowed(c) == Policy = "strict" /\ "locked" \in Modified(c)

Told(e, what) == answer' = [answer EXCEPT ![e] = what]

Wrote(c) == server' = [readable |-> TRUE, holds |-> [k \in Ours |-> c[k]]]

\* save_config: the copy in memory is replaced when both files are written.
Written(e, c) ==
    /\ Wrote(c) /\ auth' = [readable |-> TRUE, holds |-> c["secret"]]
    /\ memory' = c /\ Told(e, "saved") /\ UNCHANGED <<up, fails>>

\* A write fails, or the server dies: before the first file, in it, between the
\* two or in the second.
Breaks(e, c) ==
    /\ fails < MaxFails /\ fails' = fails + 1
    /\ \/ UNCHANGED <<server, auth>>
       \/ server' = [server EXCEPT !.readable = FALSE] /\ UNCHANGED auth
       \/ Wrote(c) /\ UNCHANGED auth
       \/ Wrote(c) /\ auth' = [auth EXCEPT !.readable = FALSE]
    /\ \/ UNCHANGED up /\ Told(e, "not saved")
       \/ up' = FALSE /\ UNCHANGED answer
    /\ UNCHANGED memory

Save(e) ==
    LET c == Prepared(form[e]) IN
    /\ up /\ form[e] # noForm
    /\ cached' = IF Valid(c) THEN Looked ELSE cached
    /\ \/ /\ Valid(c) /\ ~Disallowed(c) /\ (Written(e, c) \/ Breaks(e, c))
       \/ /\ ~Valid(c) \/ Disallowed(c)
          /\ Told(e, "refused") /\ UNCHANGED <<server, auth, up, memory, fails>>
    /\ UNCHANGED <<policy, form, hands, typed>>

-----------------------------------------------------------------------------
(* By hand, in any order with the rest *)

ByHand(k, v) ==
    /\ hands < MaxHands /\ hands' = hands + 1
    /\ IF k = "secret"
       THEN /\ auth' = [readable |-> TRUE, holds |-> v] /\ UNCHANGED server
       ELSE /\ server' = [readable |-> TRUE, holds |-> [server.holds EXCEPT ![k] = v]]
            /\ UNCHANGED auth
    /\ <<server, auth>>' # <<server, auth>>
    /\ UNCHANGED <<policy, up, memory, cached, form, answer, typed, fails>>

Slip ==
    /\ hands < MaxHands /\ hands' = hands + 1
    /\ \/ "secret" \in HandMade /\ auth' = [auth EXCEPT !.readable = FALSE]
          /\ UNCHANGED server
       \/ "plain" \in HandMade /\ server' = [server EXCEPT !.readable = FALSE]
          /\ UNCHANGED auth
    /\ <<server, auth>>' # <<server, auth>>
    /\ UNCHANGED <<policy, up, memory, cached, form, answer, typed, fails>>

PolicyChanges(p) ==
    /\ "policy" \in HandMade /\ p # policy /\ policy' = p
    /\ hands < MaxHands /\ hands' = hands + 1
    /\ UNCHANGED <<server, auth, up, memory, cached, form, answer, typed, fails>>

Next == \/ Reload \/ Start \/ Slip
        \/ \E e \in Editors : \/ Open(e) \/ Save(e)
                              \/ \E k \in Sections : \E v \in Fields(k) : Type(e, k, v)
        \/ \E k \in HandMade \cap Keys, v \in Values : ByHand(k, v)
        \/ \E p \in {"open", "strict", "bad"} : PolicyChanges(p)

Spec == Init /\ [][Next]_vars

-----------------------------------------------------------------------------
(* Properties *)

\* _prepare_payload_for_save and _enforce_writable_sections: however old its
\* form is, a save changes neither a secret the form shows as a mask, nor the
\* key it has no field for, nor, under the strict policy, the section that is
\* kept from the editor, as long as the server's copy is what the files hold.
SavesKeepTheRest ==
    [][\A e \in Editors :
         Save(e) /\ InStep =>
            /\ answer'[e] = "saved" /\ form[e]["secret"] = mask =>
                  auth'.holds = auth.holds
            /\ answer'[e] = "saved" /\ form[e]["page"] # "none"
                 /\ server.holds["page"] # "none" =>
                  server'.holds["kept"] = server.holds["kept"]
            /\ Policy = "strict" => server'.holds["locked"] = server.holds["locked"]]_vars

\* docs/CONFIG_INVARIANTS.md: the editor "restores the stored value on save
\* unless the admin submits a new value".  After a load that failed the copy has
\* no users, so the form shows none; a save from it must leave them alone.
SecretsRestored ==
    [][\A e \in Editors :
         Save(e) /\ form[e]["secret"] = "none" /\ memory["secret"] = "none" =>
            auth'.holds = auth.holds]_vars

\* config_editor.py: "Config save failed (no changes written)".
NotSavedMeansUnwritten ==
    [][\A e \in Editors :
         answer'[e] = "not saved" /\ answer[e] # "not saved"
         => UNCHANGED <<server, auth>>]_vars
=============================================================================
