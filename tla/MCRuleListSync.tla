---------------------------- MODULE MCRuleListSync ----------------------------
(***************************************************************************)
(* Values of the constants of RuleListSync for TLC: the address of the     *)
(* source in two spellings, a foreign one, a text that is no network, and  *)
(* a source that may be unavailable.                                       *)
(***************************************************************************)
EXTENDS SyncSensor, TLC

CONSTANTS one, two   \* two refreshes

A == "192.0.2.1"
ACidr == "192.0.2.1/32"
B == "198.51.100.7"
Junk == "example"

MCHosts == {A, B}
MCItems == {A, ACidr, B, Junk}
MCReadings == {A, "unavailable"}
MCNetwork == [i \in MCItems |->
  CASE i \in {A, ACidr} -> "192.0.2.1/32" [] i = B -> "198.51.100.7/32" [] OTHER -> NoNetwork]
MCContents == {{ACidr, Junk}, {B}}

\* With two refreshes: two addresses of the source, no second spelling, no junk, and
\* of the faults those by which the answer to a replace may be lost.
MCFewItems == {A, B}
MCFewReadings == {A, B}
MCFewNetwork == [i \in MCFewItems |-> i]
MCFewContents == {{B}}

AllFaults == {"auth", "api", "error"}
LostAnswers == {"error"}

OneRefresh == {one}
TwoRefreshes == {one, two}
RefreshSymmetry == Permutations(TwoRefreshes)
================================================================================
