------------------------------- MODULE MCFlows -------------------------------
(***************************************************************************)
(* Values of the constants of SetupFlow and OptionsFlow for TLC, and the   *)
(* two specifications side by side.  They share nothing but the errors, so *)
(* a behaviour is one of either, with the other at its beginning: what     *)
(* they would do together is what each does alone.                         *)
(*                                                                         *)
(* Two dialogs, a token of each kind, two lists.  Five objects in pages of *)
(* two: as zones a domain, two zones within it, one without a name, and    *)
(* one that has no id and the name of another.                             *)
(***************************************************************************)
EXTENDS SetupFlow, OptionsFlow

CONSTANTS first, second

BothFlows == {first, second}
MCTokens == {"user", "account", "mistyped"}
MCGenuine == {"user", "account"}
MCAccountOwned == {"account"}
MCAccounts == {"acc"}
MCLists == {"list", "other"}

MCObjects == 1..5
MCBlank == {4}
MCLabels == {"", "com", "example", "Example", "examples", "a", "b", "vpn", "VPN"}
MCLowerCase ==
  [l \in MCLabels |-> CASE l = "Example" -> "example" [] l = "VPN" -> "vpn" [] OTHER -> l]
MCZoneName == <<
  <<"com", "example">>, <<"com", "example", "b", "a">>, <<>>,
  <<"com", "example", "b">>, <<"com", "example", "b">> >>
MCInputs == {
  <<>>, <<"">>, <<"", "com", "Example", "b", "VPN">>,
  <<"com", "example", "b", "a", "">>, <<"com", "examples">> }

MCInit == FInit /\ OInit
MCNext == \/ OInit /\ FNext /\ UNCHANGED ovars
          \/ FInit /\ ONext /\ UNCHANGED fvars
MCSpec == MCInit /\ [][MCNext]_<<fvars, ovars>> /\ CFairness
================================================================================
