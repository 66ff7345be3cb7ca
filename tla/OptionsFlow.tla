------------------------------ MODULE OptionsFlow ------------------------------
(***************************************************************************)
(* The options dialog of an entry, as far as the DNS record goes: the name *)
(* that is typed, the zones read page by page with the entry's token, and  *)
(* the zone that is stored with the name for the coordinator.              *)
(*                                                                         *)
(* While the dialog is closed the other paged call is made, as the         *)
(* coordinator does to read a Rule List; calls side by side share nothing. *)
(***************************************************************************)
EXTENDS ApiClient

CONSTANTS
  Labels,        \* what is between the dots of a name
  LowerCase,     \* the labels in lower case
  Inputs,        \* what users may type as record name: labels, root first, the text
                 \* around leading and trailing dots being empty labels
  ZoneName       \* of an object, its name as labels, root first; <<>> if it has none

ASSUME NamesAssumption ==
  /\ LowerCase \in [Labels -> Labels]
  /\ \A l \in Labels : LowerCase[LowerCase[l]] = LowerCase[l] /\ (LowerCase[l] = "" <=> l = "")
  /\ Inputs \subseteq Seq(Labels) /\ ZoneName \in [Objects -> Seq(Labels)]

VARIABLES
  dialog,        \* the options dialog
  dns            \* what the options of the entry say about DNS

ovars == <<cvars, dialog, dns>>

NoDialog == [at |-> "closed", name |-> <<>>, error |-> "none"]
NoDns == [name |-> <<>>, zone |-> 0]

OInit == CInit /\ dialog = NoDialog /\ dns = NoDns

--------------------------------------------------------------------------------
\* The dialog.

OptionsOpen ==
  /\ dialog = NoDialog
  /\ call = NoCall /\ result = NoResult
  /\ dialog' = [NoDialog EXCEPT !.at = "form"]
  /\ UNCHANGED <<cvars, dns>>

\* Slip: the name is taken as it was typed.
AsTyped(input) == input

Lower(name) == [i \in DOMAIN name |-> LowerCase[name[i]]]

\* strip(". ").lower()
Cleaned(input) ==
  LET text == {i \in DOMAIN input : input[i] # ""}
  IN  IF text = {} THEN <<>> ELSE Lower(SubSeq(input, Min(text), Max(text)))

OptionsSubmitted ==
  /\ dialog.at = "form"
  /\ \E input \in Inputs :
       IF Cleaned(input) = <<>>
       THEN /\ dns' = NoDns
            /\ dialog' = NoDialog
            /\ UNCHANGED cvars
       ELSE /\ dialog' = [at |-> "finding", name |-> Cleaned(input), error |-> "none"]
            /\ CallBegins("zones")
            /\ UNCHANGED dns

\* The name is the zone's, or ends with a dot and the zone's.
Owns(zone, name) == ZoneName[zone] # <<>> /\ IsPrefix(ZoneName[zone], name)

\* Slip: the first zone that owns the name.
FirstOf(zones) == zones[1]

\* max(zones, key=...): the first of the longest.
LongestOf(zones) ==
  zones[Min({i \in DOMAIN zones :
    \A j \in DOMAIN zones : Len(ZoneName[zones[j]]) <= Len(ZoneName[zones[i]])})]

\* _async_find_zone has its answer: an error, no zone, or the zone to store.
ZonesFound ==
  /\ dialog.at = "finding"
  /\ LET owners == Only(result.got, {z \in Objects : Owns(z, dialog.name)})
     IN  CASE result.class # "ok" ->
                /\ dialog' = [NoDialog EXCEPT !.at = "form", !.error = ErrorKey(result.class)]
                /\ UNCHANGED dns
           [] result.class = "ok" /\ owners = <<>> ->
                /\ dialog' = [NoDialog EXCEPT !.at = "form", !.error = "dns_zone_not_found"]
                /\ UNCHANGED dns
           [] OTHER ->
                /\ dns' = [name |-> dialog.name, zone |-> LongestOf(owners)]
                /\ dialog' = NoDialog
  /\ Forgets

OptionsAbandoned ==
  /\ dialog.at = "form"
  /\ dialog' = NoDialog
  /\ UNCHANGED <<cvars, dns>>

ItemsCall ==
  /\ dialog = NoDialog
  /\ CallBegins("items") \/ Forgets
  /\ UNCHANGED <<dialog, dns>>

Pages == (CallGoesOn \/ ObjectAdded \/ ObjectRemoved) /\ UNCHANGED <<dialog, dns>>

ONext ==
  \/ OptionsOpen \/ OptionsSubmitted \/ ZonesFound \/ OptionsAbandoned
  \/ ItemsCall \/ Pages

OSpec == OInit /\ [][ONext]_ovars /\ CFairness

--------------------------------------------------------------------------------
\* Properties.

IsName(name) ==
  name # <<>> /\ name[1] # "" /\ name[Len(name)] # "" /\ Lower(name) = name

\* Types, and what goes together: zones are read only for the dialog and for a name
\* without dots around it and in lower case, and what is read is on the list and not blank.
OTypeOK ==
  /\ objects \in Seq(Objects) /\ kept \subseteq ToSet(objects)
  /\ edits \in {"none", "added", "removed"} /\ told \in BOOLEAN
  /\ call.kind \in {"none", "items", "zones"} /\ call.next \in Nat
  /\ ToSet(call.got) \cup ToSet(result.got) \subseteq Objects \ Blank
  /\ result.class \in {"none", "ok"} \cup ErrorClasses
  /\ dialog.at \in {"closed", "form", "finding"}
  /\ dialog.error \in Keys \cup {"dns_zone_not_found"}
  /\ call.kind = "zones" => dialog.at = "finding"
  /\ dialog.at = "finding" => IsName(dialog.name)
  /\ dns = NoDns \/ dns.zone \in Objects \ Blank

\* The zone that is stored with a record name owns it, and no closer one was there
\* all the time the pages were read (if no zone was removed meanwhile, and every page
\* said what follows it).
ZoneIsClosest ==
  [][dns' # dns /\ dns' # NoDns =>
       /\ Owns(dns'.zone, dns'.name)
       /\ told /\ edits # "removed" =>
            \A z \in kept \ Blank :
              Owns(z, dns'.name) => Len(ZoneName[z]) <= Len(ZoneName[dns'.zone])]_ovars

================================================================================
