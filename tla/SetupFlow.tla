------------------------------- MODULE SetupFlow -------------------------------
(***************************************************************************)
(* The setup dialog of config_flow.py (token, account, Rule List, source   *)
(* entity) and the reauth dialog.  Every step asks Cloudflare again before *)
(* it goes on, so a submission and what becomes of it are two steps, with  *)
(* other dialogs, revoked tokens and vanished lists between them.  A token *)
(* may lack a permission from the beginning or lose it on the way.         *)
(*                                                                         *)
(* What accounts, lists and entities there are is chosen anew for every    *)
(* answer.  The flow manager, with the unique ids of the flows in          *)
(* progress, is Home Assistant's.                                          *)
(***************************************************************************)
EXTENDS ApiErrors, FiniteSets, Sequences

CONSTANTS
  Flows,         \* setup and reauth dialogs that may be open at once (a bound)
  Tokens,        \* what users may type
  Genuine,       \* those Cloudflare ever issued
  AccountOwned,  \* of these, the ones that belong to an account
  Accounts,
  Lists,         \* IP lists
  MaxEntries,    \* (a bound)
  Nothing

ASSUME DialogAssumption ==
  /\ AccountOwned \subseteq Genuine /\ Genuine \subseteq Tokens
  /\ Nothing \notin Tokens \cup Accounts \cup Lists
  /\ MaxEntries \in Nat

\* What a token may be good for: to be accepted at all, to list the accounts, and to
\* list the Rule Lists of an account.
Rights == {"active", "accounts"} \cup Accounts

VARIABLES
  flows,      \* per dialog where it is, and its _data
  entries,    \* the config entries
  granted     \* per token, the rights it has by now

fvars == <<flows, entries, granted>>

Forms == {"token", "account", "rule_list", "entity"}
Waiting == {"verify", "fallback", "accounts", "lists"}

\* Why dialogs are aborted, besides errors.
Reasons == {"no_accounts", "no_rule_lists", "already_in_progress", "already_configured",
            "no_ip_entities"}

Closed == [kind |-> "none", at |-> "closed", token |-> Nothing, account |-> Nothing,
           list |-> Nothing, offered |-> {}, error |-> "none", entry |-> 0]

FInit ==
  /\ flows = [f \in Flows |-> Closed]
  /\ entries = <<>>
  /\ granted = [t \in Tokens |-> IF t \in Genuine THEN Rights ELSE {}]

--------------------------------------------------------------------------------
\* Helpers.

Of(kind) == {f \in Flows : flows[f].kind = kind}

Standing(t, right) ==
  CASE "active" \notin granted[t] -> "rejected"
    [] "active" \in granted[t] /\ right \notin granted[t] -> "limited"
    [] OTHER -> "allowed"

\* async_abort: the dialog is closed, and the reason is the last the user sees of it.
Aborts(f, reason) ==
  /\ flows' = [flows EXCEPT ![f] = [Closed EXCEPT !.error = reason]]
  /\ UNCHANGED entries

\* Slip: the form is shown with nothing to choose from.
ShowsUnchecked(f, form, offered, reason) ==
  /\ flows' = [flows EXCEPT ![f].at = form, ![f].offered = offered]
  /\ UNCHANGED entries

\* A form with a dropdown; without options the dialog is aborted.
Shows(f, form, offered, reason) ==
  IF offered = {} THEN Aborts(f, reason)
  ELSE /\ flows' = [flows EXCEPT ![f].at = form, ![f].offered = offered]
       /\ UNCHANGED entries

--------------------------------------------------------------------------------
\* The token, of a setup or of a reauth.

SetupOpens(f) ==
  /\ flows[f].at = "closed"
  /\ Len(entries) + Cardinality(Of("setup")) < MaxEntries
  /\ flows' = [flows EXCEPT ![f] = [Closed EXCEPT !.kind = "setup", !.at = "token"]]
  /\ UNCHANGED <<entries, granted>>

\* The coordinator found its token rejected, or short of a permission; one reauth
\* dialog per entry.
ReauthOpens(f) ==
  /\ flows[f].at = "closed"
  /\ \E e \in DOMAIN entries :
       /\ Standing(entries[e].token, entries[e].account) # "allowed"
       /\ \A g \in Of("reauth") : flows[g].entry # e
       /\ flows' = [flows EXCEPT ![f] =
                      [Closed EXCEPT !.kind = "reauth", !.at = "token", !.entry = e]]
  /\ UNCHANGED <<entries, granted>>

\* The client of the step is built with the token and asks Cloudflare to verify it.
TokenSubmitted(f) ==
  /\ flows[f].at = "token"
  /\ \E t \in Tokens :
       flows' = [flows EXCEPT ![f].at = "verify", ![f].token = t, ![f].error = "none"]
  /\ UNCHANGED <<entries, granted>>

\* A setup goes on with the accounts; a reauth updates its entry and ends.
TokenAccepted(f) ==
  IF flows[f].kind = "setup"
  THEN flows' = [flows EXCEPT ![f].at = "accounts"] /\ UNCHANGED entries
  ELSE /\ entries' = [entries EXCEPT ![flows[f].entry].token = flows[f].token]
       /\ flows' = [flows EXCEPT ![f] = Closed]

\* The form again, with an error; the token is kept here as history.
TokenRefused(f, class) ==
  /\ flows' = [flows EXCEPT ![f].at = "token", ![f].error = ErrorKey(class)]
  /\ UNCHANGED entries

\* The verify endpoint rejects account-owned tokens, and asks for no permission.
VerifyClasses(t) ==
  ClassesTo[IF t \in AccountOwned THEN "rejected" ELSE Standing(t, "active")]

\* Slip: an API error of the verification is passed over.
VerifiedLeniently(f) ==
  /\ flows[f].at = "verify"
  /\ \E class \in VerifyClasses(flows[f].token) :
       CASE class \in {"ok", "api"} -> TokenAccepted(f)
         [] class = "auth" ->
              flows' = [flows EXCEPT ![f].at = "fallback"] /\ UNCHANGED entries
         [] OTHER -> TokenRefused(f, class)
  /\ UNCHANGED granted

\* Slip: a token the verification rejects gets no second chance.
VerifiedStrictly(f) ==
  /\ flows[f].at = "verify"
  /\ \E class \in VerifyClasses(flows[f].token) :
       CASE class = "ok" -> TokenAccepted(f)
         [] class = "api" ->
              flows' = [flows EXCEPT ![f].at = "fallback"] /\ UNCHANGED entries
         [] OTHER -> TokenRefused(f, class)
  /\ UNCHANGED granted

\* _async_validate_token: a token the verification rejects may still be able to list
\* accounts.  (A token that is not active is an error of class "auth" too.)
Verified(f) ==
  /\ flows[f].at = "verify"
  /\ \E class \in VerifyClasses(flows[f].token) :
       CASE class = "ok" -> TokenAccepted(f)
         [] class \in {"api", "auth"} ->
              flows' = [flows EXCEPT ![f].at = "fallback"] /\ UNCHANGED entries
         [] OTHER -> TokenRefused(f, class)
  /\ UNCHANGED granted

FallbackAnswered(f) ==
  /\ flows[f].at = "fallback"
  /\ \E class \in ClassesTo[Standing(flows[f].token, "accounts")] :
       IF class = "ok" THEN TokenAccepted(f) ELSE TokenRefused(f, class)
  /\ UNCHANGED granted

--------------------------------------------------------------------------------
\* Account, Rule List, entity.

\* The accounts, for the form, or to check what was chosen, which is taken even if it
\* is not among them any more.
AccountsAnswered(f) ==
  /\ flows[f].at = "accounts"
  /\ \E class \in ClassesTo[Standing(flows[f].token, "accounts")], offered \in SUBSET Accounts :
       CASE class # "ok" -> Aborts(f, ErrorKey(class))
         [] class = "ok" /\ (flows[f].account = Nothing \/ offered = {}) ->
              Shows(f, "account", offered, "no_accounts")
         [] OTHER -> flows' = [flows EXCEPT ![f].at = "lists"] /\ UNCHANGED entries
  /\ UNCHANGED granted

AccountSubmitted(f) ==
  /\ flows[f].at = "account"
  /\ \E c \in flows[f].offered :
       flows' = [flows EXCEPT ![f].at = "accounts", ![f].account = c, ![f].offered = {}]
  /\ UNCHANGED <<entries, granted>>

Same(x, f) == x.account = flows[f].account /\ x.list = flows[f].list

\* async_set_unique_id: another dialog in progress has the unique id, which a dialog
\* gets with its Rule List, after the lists were checked.
InProgress(f) == \E g \in Flows \ {f} : flows[g].at = "entity" /\ Same(flows[g], f)

\* _abort_if_unique_id_configured
Configured(f) == \E e \in DOMAIN entries : Same(entries[e], f)

\* _ip_entity_options: whether any entity shows an address just now.
IpEntities == BOOLEAN

\* async_step_entity: the entities there are decide, not those that were offered.
EntityStep(f) ==
  \E found \in IpEntities :
    IF found
    THEN flows' = [flows EXCEPT ![f].at = "entity"] /\ UNCHANGED entries
    ELSE Aborts(f, "no_ip_entities")

\* Slip: the configured entries are not looked at.
ListChosenUnconfigured(f) ==
  IF InProgress(f) THEN Aborts(f, "already_in_progress") ELSE EntityStep(f)

\* The unique id of the chosen list is claimed, and the next step begins.
ListChosen(f) ==
  IF InProgress(f) THEN Aborts(f, "already_in_progress")
  ELSE IF Configured(f) THEN Aborts(f, "already_configured")
  ELSE EntityStep(f)

\* The IP lists, for the form or to check the chosen one.
ListsAnswered(f) ==
  /\ flows[f].at = "lists"
  /\ \E class \in ClassesTo[Standing(flows[f].token, flows[f].account)],
        offered \in SUBSET Lists :
       CASE class # "ok" -> Aborts(f, ErrorKey(class))
         [] class = "ok" /\ (flows[f].list = Nothing \/ offered = {}) ->
              Shows(f, "rule_list", offered, "no_rule_lists")
         [] OTHER -> ListChosen(f)
  /\ UNCHANGED granted

ListSubmitted(f) ==
  /\ flows[f].at = "rule_list"
  /\ \E l \in flows[f].offered :
       flows' = [flows EXCEPT ![f].at = "lists", ![f].list = l, ![f].offered = {}]
  /\ UNCHANGED <<entries, granted>>

\* async_create_entry, unless the entities with an address are gone.
EntitySubmitted(f) ==
  /\ flows[f].at = "entity"
  /\ \E found \in IpEntities :
       IF found
       THEN /\ entries' = Append(entries, [account |-> flows[f].account,
                                           list |-> flows[f].list,
                                           token |-> flows[f].token])
            /\ flows' = [flows EXCEPT ![f] = Closed]
       ELSE Aborts(f, "no_ip_entities")
  /\ UNCHANGED granted

\* The user closes the dialog while it shows a form.
Abandoned(f) ==
  /\ flows[f].at \in Forms
  /\ flows' = [flows EXCEPT ![f] = Closed]
  /\ UNCHANGED <<entries, granted>>

\* A token is revoked, or a permission of it withdrawn.
TokenRevoked ==
  /\ \E t \in Tokens : \E right \in granted[t] :
       granted' = [granted EXCEPT ![t] = IF right = "active" THEN {} ELSE @ \ {right}]
  /\ UNCHANGED <<flows, entries>>

--------------------------------------------------------------------------------
Setup(f) ==
  \/ SetupOpens(f) \/ ReauthOpens(f)
  \/ TokenSubmitted(f) \/ Verified(f) \/ FallbackAnswered(f)
  \/ AccountsAnswered(f) \/ AccountSubmitted(f)
  \/ ListsAnswered(f) \/ ListSubmitted(f) \/ EntitySubmitted(f) \/ Abandoned(f)

FNext == TokenRevoked \/ \E f \in Flows : Setup(f)

FSpec == FInit /\ [][FNext]_fvars

--------------------------------------------------------------------------------
\* Properties.

\* Types, and what a dialog has by the time it gets somewhere: a form with a dropdown
\* always has something in it.
FTypeOK ==
  /\ granted \in [Tokens -> SUBSET Rights]
  /\ \A f \in Flows : LET d == flows[f] IN
       /\ d.kind \in {"none", "setup", "reauth"}
       /\ d.at \in {"closed"} \cup Forms \cup Waiting
       /\ d.error \in Keys \cup Reasons
       /\ d.at = "closed" => d = [Closed EXCEPT !.error = d.error]
       /\ d.at \in {"account", "rule_list"} => d.offered # {}
       /\ d.at \in {"account", "rule_list", "accounts", "lists", "entity"} => d.token \in Tokens
       /\ d.at \in {"rule_list", "lists", "entity"} => d.account \in Accounts
       /\ d.at = "entity" => d.list \in Lists
       /\ d.kind = "reauth" => d.entry \in DOMAIN entries

\* No two entries write the same Rule List, though two dialogs may have passed the
\* same steps side by side.
OneEntryPerList ==
  \A d, e \in DOMAIN entries :
    d # e => <<entries[d].account, entries[d].list>> # <<entries[e].account, entries[e].list>>

\* No entry has a token Cloudflare never issued, neither from its setup nor from a
\* reauth, whatever the two requests of the validation are answered.
OnlyGenuineTokens == \A e \in DOMAIN entries : entries[e].token \in Genuine

\* A dialog says "invalid_auth", on its form or as it is aborted, only of a token that
\* Cloudflare rejects, or that lacks the permission for what was asked: to list the
\* accounts, or the Rule Lists of the chosen one.  So also of one that belongs to an
\* account, which the first request of the validation rejects.
AllowedNotRefused ==
  [][\A f \in Flows :
       flows[f].at \in Waiting /\ flows'[f].error = "invalid_auth" =>
         LET needed == IF flows[f].at = "lists" THEN flows[f].account ELSE "accounts"
         IN  Standing(flows[f].token, needed) # "allowed"]_fvars

================================================================================
