--------------------------- MODULE MCRefreshTriggers ---------------------------
(***************************************************************************)
(* Values of the constants of RefreshTriggers for TLC: two addresses.      *)
(***************************************************************************)
EXTENDS RefreshTriggers

A == "192.0.2.1"
B == "198.51.100.7"

MCHosts == {A, B}
MCNetwork == [i \in MCHosts |-> i]
MCContents == {{B}}
UsableOrNot == {A, "unavailable"}
MCRefreshes == {Debounced, Scheduled}

TokenFaults == {"auth"}
SomeFaults == {"auth", "error"}
NoFaults == {}
================================================================================
