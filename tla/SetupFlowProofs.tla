---------------------------- MODULE SetupFlowProofs ----------------------------
(***************************************************************************)
(* The dialogs keep their types, create one entry per Rule List, and store *)
(* no token that Cloudflare did not accept, for any number of dialogs side *)
(* by side, of tokens, accounts and lists.                                 *)
(*                                                                         *)
(* The inductive invariant IInv adds what a dialog carries from step to    *)
(* step: past the validation its token is genuine, and in its last step no *)
(* other dialog and no entry has its account and list (LastAlone).  An     *)
(* error is only on the token form or told as the dialog closes, so one    *)
(* that shows after an answer is the answer's.                             *)
(***************************************************************************)
EXTENDS SetupFlow, SequenceTheorems, TLAPS

Proven == {"accounts", "account", "lists", "rule_list", "entity"}

Dialog == [kind : {"none", "setup", "reauth"}, at : {"closed"} \cup Forms \cup Waiting,
           token : Tokens \cup {Nothing}, account : Accounts \cup {Nothing},
           list : Lists \cup {Nothing}, offered : SUBSET (Accounts \cup Lists),
           error : Keys \cup Reasons, entry : Nat]

Entry == [account : Accounts, list : Lists, token : Genuine]

\* What a dialog has by the time it gets somewhere.
Fits(d) ==
  /\ d.at = "closed" => d = [Closed EXCEPT !.error = d.error]
  /\ d.at \notin {"closed", "token"} => d.error = "none"
  /\ d.at # "closed" => d.kind \in {"setup", "reauth"}
  /\ d.at \in {"verify", "fallback"} => d.token \in Tokens
  /\ d.at \in Proven => d.kind = "setup" /\ d.token \in Genuine
  /\ d.at = "account" => d.offered # {} /\ d.offered \subseteq Accounts
  /\ d.at = "rule_list" => d.offered # {} /\ d.offered \subseteq Lists
  /\ d.at \in {"rule_list", "lists", "entity"} => d.account \in Accounts
  /\ d.at = "entity" => d.list \in Lists
  /\ d.kind = "reauth" => d.entry \in DOMAIN entries

FlowsOK == flows \in [Flows -> Dialog] /\ \A f \in Flows : Fits(flows[f])

LastAlone ==
  \A f \in Flows : flows[f].at = "entity" =>
    /\ \A g \in Flows \ {f} :
         flows[g].at = "entity" => ~(flows[g].account = flows[f].account
                                     /\ flows[g].list = flows[f].list)
    /\ \A e \in DOMAIN entries : ~(entries[e].account = flows[f].account
                                   /\ entries[e].list = flows[f].list)

EntriesOK == entries \in Seq(Entry)

GrantedOK ==
  granted \in [Tokens -> SUBSET Rights] /\ \A t \in Tokens \ Genuine : granted[t] = {}

IInv == FlowsOK /\ EntriesOK /\ GrantedOK /\ LastAlone /\ OneEntryPerList

USE DialogAssumption

\* What the class of an answer says of the token.
LEMMA Answers ==
  ASSUME NEW standing \in Standings, NEW class \in ClassesTo[standing]
  PROVE  /\ class = "ok" => standing # "rejected"
         /\ class = "auth" => standing # "allowed"
<1>1. PICK a \in AnswersTo(standing) : class = ClassOf(a)
    BY DEF ClassesTo
<1>2. /\ a.status \in Statuses /\ a.body \in Bodies
      /\ standing = "rejected" => a.status # 200
      /\ standing = "allowed" => a.status \notin {401, 403}
    BY <1>1 DEF AnswersTo, HttpAnswer
<1> QED
    BY <1>1, <1>2 DEF ClassOf, Statuses, Bodies, NoAnswer

LEMMA ErrorsAreKeys ==
  /\ \A standing \in Standings : \A class \in ClassesTo[standing] : ErrorKey(class) \in Keys
  /\ "none" \in Keys
  /\ \A class : ErrorKey(class) = "invalid_auth" => class = "auth"
BY DEF ClassesTo, AnswersTo, HttpAnswer, Statuses, Bodies, NoAnswer, ClassOf, ErrorKey, Keys, ErrorClasses

LEMMA StandingSays ==
  ASSUME IInv, NEW t \in Tokens, NEW right
  PROVE  Standing(t, right) \in Standings /\ (Standing(t, right) # "rejected" => t \in Genuine)
BY DEF IInv, GrantedOK, Standing, Standings

LEMMA ClosedType ==
  /\ Closed.at = "closed" /\ Closed.error = "none" /\ Closed = [Closed EXCEPT !.error = "none"]
  /\ Closed \in Dialog /\ Fits(Closed)
  /\ \A e \in Keys \cup Reasons :
       [Closed EXCEPT !.error = e] \in Dialog /\ Fits([Closed EXCEPT !.error = e])
BY ErrorsAreKeys DEF Closed, Dialog, Fits, Proven

LEMMA InitHolds == FInit => IInv
<1> SUFFICES ASSUME FInit PROVE IInv
    OBVIOUS
<1>1. /\ flows = [f \in Flows |-> Closed]
      /\ \A f \in Flows : flows[f] = Closed
      /\ entries \in Seq(Entry) /\ DOMAIN entries = {}
      /\ GrantedOK
    BY DEF FInit, GrantedOK
<1>2. FlowsOK
    BY <1>1, ClosedType DEF FlowsOK
<1>3. \A f \in Flows : flows[f].at # "entity"
    BY <1>1 DEF Closed
<1> QED
    BY <1>1, <1>2, <1>3 DEF IInv, EntriesOK, LastAlone, OneEntryPerList

\* One dialog moves on, short of its last step.
LEMMA MoveKeeps ==
  ASSUME IInv, NEW f \in Flows, NEW d \in Dialog, Fits(d),
         d.at = "entity" => ~InProgress(f) /\ ~Configured(f)
                            /\ d.account = flows[f].account /\ d.list = flows[f].list,
         flows' = [flows EXCEPT ![f] = d], UNCHANGED <<entries, granted>>
  PROVE  IInv'
<1>1. FlowsOK'
    BY DEF IInv, FlowsOK, Fits
<1>2. flows'[f] = d /\ \A g \in Flows \ {f} : flows'[g] = flows[g]
    BY DEF IInv, FlowsOK
<1>3. LastAlone'
    BY <1>2 DEF IInv, LastAlone, InProgress, Configured, Same
<1> QED
    BY <1>1, <1>3 DEF IInv, EntriesOK, GrantedOK, OneEntryPerList

\* A dialog is aborted.
LEMMA AbortKeeps ==
  ASSUME IInv, NEW f \in Flows, NEW reason \in Keys \cup Reasons, Aborts(f, reason),
         UNCHANGED granted
  PROVE  IInv'
<1> DEFINE d == [Closed EXCEPT !.error = reason]
<1>1. d \in Dialog /\ Fits(d)
    BY ClosedType
<1>2. d.at # "entity"
    BY DEF Closed
<1>3. flows' = [flows EXCEPT ![f] = d] /\ UNCHANGED <<entries, granted>>
    BY DEF Aborts
<1> HIDE DEF d
<1> QED
    BY <1>1, <1>2, <1>3, MoveKeeps

--------------------------------------------------------------------------------
\* The steps of one dialog.

\* It is opened, or abandoned.
LEMMA OpenSteps ==
  ASSUME IInv, NEW f \in Flows, SetupOpens(f) \/ ReauthOpens(f) \/ Abandoned(f) PROVE IInv'
<1>1. CASE SetupOpens(f)
  <2> DEFINE d == [Closed EXCEPT !.kind = "setup", !.at = "token"]
  <2>1. flows' = [flows EXCEPT ![f] = d] /\ UNCHANGED <<entries, granted>>
      BY <1>1 DEF SetupOpens
  <2>2. d \in Dialog /\ Fits(d) /\ d.at # "entity"
      BY ErrorsAreKeys DEF Closed, Dialog, Fits, Proven, Forms
  <2> QED
      BY <2>1, <2>2, MoveKeeps
<1>2. CASE ReauthOpens(f)
  <2>1. PICK e \in DOMAIN entries :
          flows' = [flows EXCEPT ![f] =
                      [Closed EXCEPT !.kind = "reauth", !.at = "token", !.entry = e]]
      BY <1>2 DEF ReauthOpens
  <2> DEFINE d == [Closed EXCEPT !.kind = "reauth", !.at = "token", !.entry = e]
  <2>2. flows' = [flows EXCEPT ![f] = d] /\ UNCHANGED <<entries, granted>>
      BY <1>2, <2>1 DEF ReauthOpens
  <2>3. e \in Nat
      BY DEF IInv, EntriesOK
  <2>4. d \in Dialog /\ Fits(d) /\ d.at # "entity"
      BY <2>3, ErrorsAreKeys DEF Closed, Dialog, Fits, Proven, Forms
  <2> QED
      BY <2>2, <2>4, MoveKeeps
<1>3. CASE Abandoned(f)
    BY <1>3, ClosedType, MoveKeeps DEF Abandoned
<1> QED
    BY <1>1, <1>2, <1>3

LEMMA SubmitSteps ==
  ASSUME IInv, NEW f \in Flows,
         TokenSubmitted(f) \/ AccountSubmitted(f) \/ ListSubmitted(f)
  PROVE  IInv'
<1>1. flows[f] \in Dialog /\ Fits(flows[f])
    BY DEF IInv, FlowsOK
<1>2. CASE TokenSubmitted(f)
  <2>1. PICK t \in Tokens :
          flows' = [flows EXCEPT ![f].at = "verify", ![f].token = t, ![f].error = "none"]
      BY <1>2 DEF TokenSubmitted
  <2> DEFINE d == [flows[f] EXCEPT !.at = "verify", !.token = t, !.error = "none"]
  <2>2. flows' = [flows EXCEPT ![f] = d] /\ UNCHANGED <<entries, granted>> /\ flows[f].at = "token"
      BY <1>2, <2>1 DEF TokenSubmitted
  <2>3. d \in Dialog /\ Fits(d) /\ d.at # "entity"
      BY <1>1, <2>2, ErrorsAreKeys DEF Dialog, Fits, Proven, Waiting
  <2> QED
      BY <2>2, <2>3, MoveKeeps
<1>3. CASE AccountSubmitted(f)
  <2>1. PICK c \in flows[f].offered :
          flows' = [flows EXCEPT ![f].at = "accounts", ![f].account = c, ![f].offered = {}]
      BY <1>3 DEF AccountSubmitted
  <2> DEFINE d == [flows[f] EXCEPT !.at = "accounts", !.account = c, !.offered = {}]
  <2>2. flows' = [flows EXCEPT ![f] = d] /\ UNCHANGED <<entries, granted>> /\ flows[f].at = "account"
      BY <1>3, <2>1 DEF AccountSubmitted
  <2>3. c \in Accounts
      BY <1>1, <2>2 DEF Fits
  <2>4. d \in Dialog /\ Fits(d) /\ d.at # "entity"
      BY <1>1, <2>2, <2>3 DEF Dialog, Fits, Proven, Waiting
  <2> QED
      BY <2>2, <2>4, MoveKeeps
<1>4. CASE ListSubmitted(f)
  <2>1. PICK l \in flows[f].offered :
          flows' = [flows EXCEPT ![f].at = "lists", ![f].list = l, ![f].offered = {}]
      BY <1>4 DEF ListSubmitted
  <2> DEFINE d == [flows[f] EXCEPT !.at = "lists", !.list = l, !.offered = {}]
  <2>2. flows' = [flows EXCEPT ![f] = d] /\ UNCHANGED <<entries, granted>> /\ flows[f].at = "rule_list"
      BY <1>4, <2>1 DEF ListSubmitted
  <2>3. l \in Lists
      BY <1>1, <2>2 DEF Fits
  <2>4. d \in Dialog /\ Fits(d) /\ d.at # "entity"
      BY <1>1, <2>2, <2>3 DEF Dialog, Fits, Proven, Waiting
  <2> QED
      BY <2>2, <2>4, MoveKeeps
<1> QED
    BY <1>2, <1>3, <1>4

LEMMA RefusedKeeps ==
  ASSUME IInv, NEW f \in Flows, flows[f].at \in {"verify", "fallback"},
         NEW class, ErrorKey(class) \in Keys, TokenRefused(f, class), UNCHANGED granted
  PROVE  IInv'
<1>1. flows[f] \in Dialog /\ Fits(flows[f])
    BY DEF IInv, FlowsOK
<1> DEFINE d == [flows[f] EXCEPT !.at = "token", !.error = ErrorKey(class)]
<1>2. flows' = [flows EXCEPT ![f] = d] /\ UNCHANGED <<entries, granted>>
    BY DEF TokenRefused
<1>3. d \in Dialog /\ Fits(d) /\ d.at # "entity"
    BY <1>1 DEF Dialog, Fits, Proven, Forms
<1> QED
    BY <1>2, <1>3, MoveKeeps

\* A reauth writes its token to its entry: account and list stay.
LEMMA ReauthKeeps ==
  ASSUME IInv, NEW f \in Flows, NEW i \in DOMAIN entries, NEW t \in Genuine,
         entries' = [entries EXCEPT ![i].token = t],
         flows' = [flows EXCEPT ![f] = Closed], UNCHANGED granted
  PROVE  IInv'
<1>1. entries \in Seq(Entry) /\ entries[i] \in Entry
    BY DEF IInv, EntriesOK
<1> DEFINE e == [entries[i] EXCEPT !.token = t]
<1>2. e \in Entry /\ e.account = entries[i].account /\ e.list = entries[i].list
    BY <1>1 DEF Entry
<1>3. entries' = [entries EXCEPT ![i] = e]
    OBVIOUS
<1>4. /\ entries' \in Seq(Entry) /\ DOMAIN entries' = DOMAIN entries
      /\ \A j \in DOMAIN entries : entries'[j].account = entries[j].account
                                   /\ entries'[j].list = entries[j].list
    BY <1>1, <1>2, <1>3, ExceptSeq
<1>5. /\ Closed.at = "closed" /\ flows'[f] = Closed
      /\ \A g \in Flows \ {f} : flows'[g] = flows[g]
    BY DEF IInv, FlowsOK, Closed
<1>6. FlowsOK'
    BY <1>4, ClosedType DEF IInv, FlowsOK, Fits
<1>7. LastAlone'
    BY <1>4, <1>5 DEF IInv, LastAlone
<1>8. OneEntryPerList'
    BY <1>4 DEF IInv, OneEntryPerList
<1> QED
    BY <1>4, <1>6, <1>7, <1>8 DEF IInv, EntriesOK, GrantedOK

LEMMA AcceptedKeeps ==
  ASSUME IInv, NEW f \in Flows, flows[f].at \in {"verify", "fallback"},
         flows[f].token \in Genuine, TokenAccepted(f), UNCHANGED granted
  PROVE  IInv'
<1>1. flows[f] \in Dialog /\ Fits(flows[f]) /\ flows[f].kind \in {"setup", "reauth"}
    BY DEF IInv, FlowsOK, Fits
<1>2. CASE flows[f].kind = "setup"
  <2> DEFINE d == [flows[f] EXCEPT !.at = "accounts"]
  <2>1. flows' = [flows EXCEPT ![f] = d] /\ UNCHANGED <<entries, granted>>
      BY <1>2 DEF TokenAccepted
  <2>2. d \in Dialog /\ Fits(d) /\ d.at # "entity"
      BY <1>1, <1>2 DEF Dialog, Fits, Proven, Waiting
  <2> QED
      BY <2>1, <2>2, MoveKeeps
<1>3. CASE flows[f].kind = "reauth"
  <2>1. flows[f].entry \in DOMAIN entries
      BY <1>1, <1>3 DEF Fits
  <2>2. /\ entries' = [entries EXCEPT ![flows[f].entry].token = flows[f].token]
        /\ flows' = [flows EXCEPT ![f] = Closed]
      BY <1>3 DEF TokenAccepted
  <2> QED
      BY <2>1, <2>2, ReauthKeeps
<1> QED
    BY <1>1, <1>2, <1>3

LEMMA ValidationSteps ==
  ASSUME IInv, NEW f \in Flows, Verified(f) \/ FallbackAnswered(f) PROVE IInv'
<1>1. flows[f] \in Dialog /\ Fits(flows[f])
    BY DEF IInv, FlowsOK
<1>2. flows[f].at \in {"verify", "fallback"} /\ flows[f].token \in Tokens /\ UNCHANGED granted
    BY <1>1 DEF Verified, FallbackAnswered, Fits
<1> DEFINE t == flows[f].token
           verified == IF t \in AccountOwned THEN "rejected" ELSE Standing(t, "active")
           listed == Standing(t, "accounts")
<1>3. /\ verified \in Standings /\ (verified # "rejected" => t \in Genuine)
      /\ listed \in Standings /\ (listed # "rejected" => t \in Genuine)
    BY <1>2, StandingSays DEF Standings
<1>4. CASE Verified(f)
  <2>1. PICK class \in ClassesTo[verified] :
          CASE class = "ok" -> TokenAccepted(f)
            [] class \in {"api", "auth"} ->
                 flows' = [flows EXCEPT ![f].at = "fallback"] /\ UNCHANGED entries
            [] OTHER -> TokenRefused(f, class)
      BY <1>4 DEF Verified, VerifyClasses
  <2> HIDE DEF verified
  <2>2. (class = "ok" => t \in Genuine) /\ ErrorKey(class) \in Keys
      BY <1>3, <2>1, Answers, ErrorsAreKeys
  <2>3. CASE class = "ok"
      BY <1>2, <2>1, <2>2, <2>3, AcceptedKeeps
  <2>4. CASE class \in {"api", "auth"}
    <3> DEFINE d == [flows[f] EXCEPT !.at = "fallback"]
    <3>1. flows' = [flows EXCEPT ![f] = d] /\ UNCHANGED <<entries, granted>>
        BY <1>2, <2>1, <2>4
    <3>2. d \in Dialog /\ Fits(d) /\ d.at # "entity"
        BY <1>1, <1>2 DEF Dialog, Fits, Proven, Waiting
    <3> QED
        BY <3>1, <3>2, MoveKeeps
  <2>5. CASE class \notin {"ok", "api", "auth"}
      BY <1>2, <2>1, <2>2, <2>5, RefusedKeeps
  <2> QED
      BY <2>3, <2>4, <2>5
<1>5. CASE FallbackAnswered(f)
  <2>1. PICK class \in ClassesTo[listed] :
          IF class = "ok" THEN TokenAccepted(f) ELSE TokenRefused(f, class)
      BY <1>5 DEF FallbackAnswered
  <2> HIDE DEF listed
  <2>2. (class = "ok" => t \in Genuine) /\ ErrorKey(class) \in Keys
      BY <1>3, <2>1, Answers, ErrorsAreKeys
  <2> QED
      BY <1>2, <2>1, <2>2, AcceptedKeeps, RefusedKeeps
<1> QED
    BY <1>4, <1>5

LEMMA AccountStep == ASSUME IInv, NEW f \in Flows, AccountsAnswered(f) PROVE IInv'
<1>1. /\ flows[f] \in Dialog /\ Fits(flows[f]) /\ flows[f].at = "accounts" /\ UNCHANGED granted
      /\ flows[f].token \in Tokens
    BY DEF IInv, FlowsOK, AccountsAnswered, Fits, Proven
<1> DEFINE listed == Standing(flows[f].token, "accounts")
<1>2. PICK class \in ClassesTo[listed], offered \in SUBSET Accounts :
        CASE class # "ok" -> Aborts(f, ErrorKey(class))
          [] class = "ok" /\ (flows[f].account = Nothing \/ offered = {}) ->
               Shows(f, "account", offered, "no_accounts")
          [] OTHER -> flows' = [flows EXCEPT ![f].at = "lists"] /\ UNCHANGED entries
    BY DEF AccountsAnswered
<1>3. ErrorKey(class) \in Keys /\ "no_accounts" \in Reasons
    BY <1>1, <1>2, StandingSays, ErrorsAreKeys DEF Reasons
<1> HIDE DEF listed
<1>4. CASE offered # {} /\ Shows(f, "account", offered, "no_accounts")
  <2> DEFINE d == [flows[f] EXCEPT !.at = "account", !.offered = offered]
  <2>1. flows' = [flows EXCEPT ![f] = d] /\ UNCHANGED <<entries, granted>>
      BY <1>1, <1>4 DEF Shows
  <2>2. d \in Dialog /\ Fits(d) /\ d.at # "entity"
      BY <1>1, <1>4 DEF Dialog, Fits, Proven, Forms
  <2> QED
      BY <2>1, <2>2, MoveKeeps
<1>5. CASE flows[f].account # Nothing
           /\ flows' = [flows EXCEPT ![f].at = "lists"] /\ UNCHANGED entries
  <2> DEFINE d == [flows[f] EXCEPT !.at = "lists"]
  <2>1. flows' = [flows EXCEPT ![f] = d] /\ UNCHANGED <<entries, granted>>
      BY <1>1, <1>5
  <2>2. d \in Dialog /\ Fits(d) /\ d.at # "entity"
      BY <1>1, <1>5 DEF Dialog, Fits, Proven, Waiting
  <2> QED
      BY <2>1, <2>2, MoveKeeps
<1>6. CASE class # "ok"
    BY <1>1, <1>2, <1>3, <1>6, AbortKeeps
<1>7. CASE class = "ok" /\ (flows[f].account = Nothing \/ offered = {})
  <2>1. Shows(f, "account", offered, "no_accounts")
      BY <1>2, <1>7
  <2>2. CASE offered = {}
      BY <1>1, <1>3, <2>1, <2>2, AbortKeeps DEF Shows
  <2> QED
      BY <1>4, <2>1, <2>2
<1>8. CASE class = "ok" /\ ~(flows[f].account = Nothing \/ offered = {})
    BY <1>2, <1>5, <1>8
<1> QED
    BY <1>6, <1>7, <1>8

LEMMA ListStep == ASSUME IInv, NEW f \in Flows, ListsAnswered(f) PROVE IInv'
<1>1. /\ flows[f] \in Dialog /\ Fits(flows[f]) /\ flows[f].at = "lists" /\ UNCHANGED granted
      /\ flows[f].token \in Tokens
    BY DEF IInv, FlowsOK, ListsAnswered, Fits, Proven
<1> DEFINE listed == Standing(flows[f].token, flows[f].account)
<1>2. PICK class \in ClassesTo[listed], offered \in SUBSET Lists :
        CASE class # "ok" -> Aborts(f, ErrorKey(class))
          [] class = "ok" /\ (flows[f].list = Nothing \/ offered = {}) ->
               Shows(f, "rule_list", offered, "no_rule_lists")
          [] OTHER -> ListChosen(f)
    BY DEF ListsAnswered
<1>3. /\ ErrorKey(class) \in Keys
      /\ {"no_rule_lists", "already_in_progress", "already_configured", "no_ip_entities"}
           \subseteq Reasons
    BY <1>1, <1>2, StandingSays, ErrorsAreKeys DEF Reasons
<1> HIDE DEF listed
<1>4. CASE offered # {} /\ Shows(f, "rule_list", offered, "no_rule_lists")
  <2> DEFINE d == [flows[f] EXCEPT !.at = "rule_list", !.offered = offered]
  <2>1. flows' = [flows EXCEPT ![f] = d] /\ UNCHANGED <<entries, granted>>
      BY <1>1, <1>4 DEF Shows
  <2>2. d \in Dialog /\ Fits(d) /\ d.at # "entity"
      BY <1>1, <1>4 DEF Dialog, Fits, Proven, Forms
  <2> QED
      BY <2>1, <2>2, MoveKeeps
<1>5. CASE /\ flows[f].list # Nothing /\ ~InProgress(f) /\ ~Configured(f)
           /\ flows' = [flows EXCEPT ![f].at = "entity"] /\ UNCHANGED entries
  <2> DEFINE d == [flows[f] EXCEPT !.at = "entity"]
  <2>1. flows' = [flows EXCEPT ![f] = d] /\ UNCHANGED <<entries, granted>>
      BY <1>1, <1>5
  <2>2. d \in Dialog /\ Fits(d) /\ d.account = flows[f].account /\ d.list = flows[f].list
      BY <1>1, <1>5 DEF Dialog, Fits, Proven, Forms
  <2> QED
      BY <1>5, <2>1, <2>2, MoveKeeps
<1>6. CASE class # "ok"
    BY <1>1, <1>2, <1>3, <1>6, AbortKeeps
<1>7. CASE class = "ok" /\ (flows[f].list = Nothing \/ offered = {})
  <2>1. Shows(f, "rule_list", offered, "no_rule_lists")
      BY <1>2, <1>7
  <2>2. CASE offered = {}
      BY <1>1, <1>3, <2>1, <2>2, AbortKeeps DEF Shows
  <2> QED
      BY <1>4, <2>1, <2>2
<1>8. CASE class = "ok" /\ ~(flows[f].list = Nothing \/ offered = {})
  <2>1. ListChosen(f) /\ flows[f].list # Nothing
      BY <1>2, <1>8
  <2>2. CASE InProgress(f) \/ Configured(f)
      BY <1>1, <1>3, <2>1, <2>2, AbortKeeps DEF ListChosen
  <2>3. CASE ~InProgress(f) /\ ~Configured(f)
      BY <1>1, <1>3, <1>5, <2>1, <2>3, AbortKeeps DEF ListChosen, EntityStep
  <2> QED
      BY <2>2, <2>3
<1> QED
    BY <1>6, <1>7, <1>8

\* The last step: what LastAlone says of the dialog is what its entry needs.
LEMMA EntityStepKeeps == ASSUME IInv, NEW f \in Flows, EntitySubmitted(f) PROVE IInv'
<1>1. flows[f] \in Dialog /\ Fits(flows[f]) /\ flows[f].at = "entity" /\ UNCHANGED granted
    BY DEF IInv, FlowsOK, EntitySubmitted
<1>2. CASE Aborts(f, "no_ip_entities")
    BY <1>1, <1>2, AbortKeeps DEF Reasons
<1> DEFINE e == [account |-> flows[f].account, list |-> flows[f].list,
                 token |-> flows[f].token]
           n == Len(entries)
<1>3. CASE entries' = Append(entries, e) /\ flows' = [flows EXCEPT ![f] = Closed]
  <2>1. e \in Entry /\ entries \in Seq(Entry) /\ n \in Nat /\ DOMAIN entries = 1..n
      BY <1>1 DEF Fits, Proven, Entry, IInv, EntriesOK
  <2>2. /\ entries' \in Seq(Entry) /\ DOMAIN entries' = 1..(n + 1)
        /\ entries'[n + 1] = e /\ \A i \in 1..n : entries'[i] = entries[i]
      BY <1>3, <2>1, AppendProperties
  <2>3. \A i \in DOMAIN entries : ~(entries[i].account = e.account /\ entries[i].list = e.list)
      BY <1>1 DEF IInv, LastAlone
  <2>4. /\ Closed.at = "closed" /\ flows'[f] = Closed
        /\ \A g \in Flows \ {f} : flows'[g] = flows[g]
      BY <1>3 DEF IInv, FlowsOK, Closed
  <2>5. FlowsOK'
    <3>1. DOMAIN entries \subseteq DOMAIN entries'
        BY <2>1, <2>2
    <3> QED
        BY <1>3, <2>4, <3>1, ClosedType DEF IInv, FlowsOK, Fits
  <2>6. LastAlone'
    <3> SUFFICES ASSUME NEW g \in Flows, flows'[g].at = "entity"
                 PROVE  /\ \A h \in Flows \ {g} : flows'[h].at = "entity" =>
                             ~(flows'[h].account = flows'[g].account
                               /\ flows'[h].list = flows'[g].list)
                        /\ \A i \in 1..(n + 1) : ~(entries'[i].account = flows'[g].account
                                                 /\ entries'[i].list = flows'[g].list)
        BY <2>2 DEF LastAlone
    <3>1. g # f /\ flows'[g] = flows[g] /\ flows[g].at = "entity"
        BY <2>4
    <3>2. ~(e.account = flows[g].account /\ e.list = flows[g].list)
        BY <1>1, <3>1 DEF IInv, LastAlone
    <3>3. \A i \in 1..n : ~(entries[i].account = flows[g].account
                            /\ entries[i].list = flows[g].list)
        BY <2>1, <3>1 DEF IInv, LastAlone
    <3>4. \A i \in 1..(n + 1) : i \in 1..n \/ i = n + 1
        BY <2>1
    <3> QED
        BY <2>2, <2>4, <3>1, <3>2, <3>3, <3>4 DEF IInv, LastAlone
  <2>7. OneEntryPerList'
    <3>1. \A i \in 1..(n + 1) : i \in 1..n \/ i = n + 1
        BY <2>1
    <3> QED
        BY <2>1, <2>2, <2>3, <3>1 DEF IInv, OneEntryPerList
  <2> QED
      BY <1>1, <2>2, <2>5, <2>6, <2>7 DEF IInv, EntriesOK, GrantedOK
<1> QED
    BY <1>2, <1>3 DEF EntitySubmitted

LEMMA StepKeeps == IInv /\ [FNext]_fvars => IInv'
<1> SUFFICES ASSUME IInv, [FNext]_fvars PROVE IInv'
    OBVIOUS
<1>1. CASE UNCHANGED fvars
    BY <1>1 DEF fvars, IInv, FlowsOK, Fits, EntriesOK, GrantedOK, LastAlone, OneEntryPerList
<1>2. CASE TokenRevoked
  <2>1. GrantedOK'
      BY <1>2 DEF TokenRevoked, IInv, GrantedOK
  <2> QED
      BY <1>2, <2>1 DEF TokenRevoked, IInv, FlowsOK, Fits, EntriesOK, LastAlone, OneEntryPerList
<1>3. ASSUME NEW f \in Flows, Setup(f) PROVE IInv'
    BY <1>3, OpenSteps, SubmitSteps, ValidationSteps, AccountStep, ListStep,
       EntityStepKeeps DEF Setup
<1> QED
    BY <1>1, <1>2, <1>3 DEF FNext

LEMMA Invariance == FSpec => []IInv
<1> QED
    BY InitHolds, StepKeeps, PTL DEF FSpec

\* No two entries write the same Rule List, however many dialogs run side by side
\* (_abort_if_unique_id_configured and the unique ids of the flows in progress).
THEOREM UniqueLists == FSpec => []OneEntryPerList
<1>1. IInv => OneEntryPerList
    BY DEF IInv
<1> QED
    BY <1>1, Invariance, PTL

\* Every entry has a token Cloudflare issued, by its setup and by every reauth
\* (_async_validate_token asks before either stores it).
THEOREM TokensGenuine == FSpec => []OnlyGenuineTokens
<1>1. entries \in Seq(Entry) => \A e \in DOMAIN entries : entries[e] \in Entry
    OBVIOUS
<1>2. IInv => OnlyGenuineTokens
    BY <1>1 DEF IInv, EntriesOK, OnlyGenuineTokens, Entry
<1> QED
    BY <1>2, Invariance, PTL

\* Every dialog has what its step reads, and a dropdown is never empty.
THEOREM DialogsWellFormed == FSpec => []FTypeOK
<1>1. IInv => FTypeOK
    BY DEF IInv, EntriesOK, GrantedOK, FlowsOK, Dialog, Fits, Proven, FTypeOK
<1> QED
    BY <1>1, Invariance, PTL

--------------------------------------------------------------------------------
\* Whom the dialogs refuse.

\* An answer closes the dialog, shows the token form, or goes on without an error: it
\* says "invalid_auth" of the answer's class only, and "needed" is what was asked.
LEMMA RefusedHonestly ==
  ASSUME IInv, NEW f \in Flows, flows[f].at \in Waiting, Setup(f),
         flows'[f].error = "invalid_auth"
  PROVE  Standing(flows[f].token,
                  IF flows[f].at = "lists" THEN flows[f].account ELSE "accounts") # "allowed"
<1>1. /\ flows \in [Flows -> Dialog] /\ flows[f] \in Dialog /\ Fits(flows[f])
      /\ flows[f].token \in Tokens /\ flows[f].error = "none"
    BY DEF IInv, FlowsOK, Fits, Proven, Waiting
<1>2. \A reason : Aborts(f, reason) => reason = "invalid_auth"
    BY <1>1 DEF Aborts, Closed
<1>3. \A x : flows' # [flows EXCEPT ![f].at = x]
    BY <1>1 DEF Dialog
<1>4. \A x, y : flows' # [flows EXCEPT ![f].at = x, ![f].offered = y]
    BY <1>1 DEF Dialog
<1>5. flows' # [flows EXCEPT ![f] = Closed]
    BY <1>1, ClosedType
<1>6. \A class : TokenRefused(f, class) => class = "auth"
    BY <1>1, ErrorsAreKeys DEF TokenRefused, Dialog
<1>7. ~TokenAccepted(f)
    BY <1>3, <1>5 DEF TokenAccepted
<1>8. \A reason \in Reasons : ~Aborts(f, reason)
    BY <1>2 DEF Reasons
<1>9. CASE Verified(f)
    BY <1>3, <1>6, <1>7, <1>9 DEF Verified
<1>10. CASE FallbackAnswered(f)
  <2>1. "auth" \in ClassesTo[Standing(flows[f].token, "accounts")]
      BY <1>6, <1>7, <1>10 DEF FallbackAnswered
  <2> QED
      BY <1>1, <1>10, <2>1, StandingSays, Answers DEF FallbackAnswered
<1>11. CASE AccountsAnswered(f)
  <2>1. PICK class \in ClassesTo[Standing(flows[f].token, "accounts")], offered \in SUBSET Accounts :
          CASE class # "ok" -> Aborts(f, ErrorKey(class))
            [] class = "ok" /\ (flows[f].account = Nothing \/ offered = {}) ->
                 Shows(f, "account", offered, "no_accounts")
            [] OTHER -> flows' = [flows EXCEPT ![f].at = "lists"] /\ UNCHANGED entries
      BY <1>11 DEF AccountsAnswered
  <2>2. ~Shows(f, "account", offered, "no_accounts")
      BY <1>4, <1>8 DEF Shows, Reasons
  <2>3. Aborts(f, ErrorKey(class))
      BY <1>3, <2>1, <2>2
  <2> QED
      BY <1>1, <1>2, <1>11, <2>1, <2>3, StandingSays, Answers, ErrorsAreKeys DEF AccountsAnswered
<1>12. CASE ListsAnswered(f)
  <2>1. PICK class \in ClassesTo[Standing(flows[f].token, flows[f].account)], offered \in SUBSET Lists :
          CASE class # "ok" -> Aborts(f, ErrorKey(class))
            [] class = "ok" /\ (flows[f].list = Nothing \/ offered = {}) ->
                 Shows(f, "rule_list", offered, "no_rule_lists")
            [] OTHER -> ListChosen(f)
      BY <1>12 DEF ListsAnswered
  <2>2. ~Shows(f, "rule_list", offered, "no_rule_lists") /\ ~ListChosen(f)
      BY <1>3, <1>4, <1>8 DEF Shows, ListChosen, EntityStep, Reasons
  <2>3. Aborts(f, ErrorKey(class))
      BY <2>1, <2>2
  <2> QED
      BY <1>1, <1>2, <1>12, <2>1, <2>3, StandingSays, Answers, ErrorsAreKeys DEF ListsAnswered
<1> QED
    BY <1>9, <1>10, <1>11, <1>12
       DEF Setup, Waiting, Forms, SetupOpens, ReauthOpens, TokenSubmitted, AccountSubmitted,
           ListSubmitted, EntitySubmitted, Abandoned

\* The steps of another dialog, and a right that is withdrawn, say nothing of this one.
LEMMA OthersLeave ==
  ASSUME IInv, NEW f \in Flows, NEW g \in Flows \ {f}, Setup(g)
  PROVE  flows'[f] = flows[f]
BY DEF IInv, FlowsOK, Setup, SetupOpens, ReauthOpens, TokenSubmitted, Verified, TokenAccepted,
       TokenRefused, FallbackAnswered, AccountsAnswered, AccountSubmitted, ListsAnswered,
       ListChosen, EntityStep, ListSubmitted, EntitySubmitted, Abandoned, Aborts, Shows

\* A dialog says "invalid_auth", on a form or as it is aborted, only of a token that
\* Cloudflare rejects or that lacks the permission for what was asked: also of one that
\* belongs to an account, which the verify endpoint rejects (the fallback of
\* _async_validate_token, _error_key).
THEOREM AllowedNeverRefused == FSpec => AllowedNotRefused
<1> DEFINE Honest(f) ==
             flows[f].at \in Waiting /\ flows'[f].error = "invalid_auth" =>
               Standing(flows[f].token, IF flows[f].at = "lists" THEN flows[f].account
                                        ELSE "accounts") # "allowed"
<1>1. ASSUME IInv, [FNext]_fvars, NEW f \in Flows PROVE Honest(f)
  <2>1. CASE flows'[f] = flows[f]
      BY <1>1, <2>1 DEF IInv, FlowsOK, Fits, Waiting
  <2>2. CASE Setup(f)
      BY <1>1, <2>2, RefusedHonestly
  <2>3. CASE UNCHANGED flows \/ \E g \in Flows \ {f} : Setup(g)
      BY <1>1, <2>1, <2>3, OthersLeave
  <2> QED
      BY <1>1, <2>2, <2>3 DEF FNext, TokenRevoked, fvars
<1>2. IInv /\ [FNext]_fvars =>
        [\A f \in Flows :
           flows[f].at \in Waiting /\ flows'[f].error = "invalid_auth" =>
             LET needed == IF flows[f].at = "lists" THEN flows[f].account ELSE "accounts"
             IN  Standing(flows[f].token, needed) # "allowed"]_fvars
    BY <1>1
<1> QED
    BY <1>2, Invariance, PTL DEF FSpec, AllowedNotRefused

================================================================================
