--------------------------- MODULE MCEntryLifecycle ---------------------------
(***************************************************************************)
(* Values of the constants of EntryLifecycle for TLC: two coordinators, so *)
(* that one may outlive its unload while the next one works; two tokens,   *)
(* two addresses.                                                          *)
(***************************************************************************)
EXTENDS EntryLifecycle

CONSTANTS left, right

MCCoordinators == {left, right}
MCTokens == {"token", "renewed"}
MCIps == {"192.0.2.1", "198.51.100.7"}
\* The other initial states are those with the tokens or the addresses exchanged.
MCInit == LInit /\ token = "token" /\ source = "192.0.2.1"
MCSpec == MCInit /\ [][LNext]_lvars /\ LFairness

================================================================================
