------------------------------- MODULE MCDnsSync -------------------------------
(***************************************************************************)
(* Values of the constants of DnsSync for TLC: an IPv4 address and two     *)
(* spellings of an IPv6 address, of which Cloudflare keeps the short one.  *)
(***************************************************************************)
EXTENDS DnsSync

CONSTANT one   \* the refresh

V4 == "192.0.2.1"
V4Old == "198.51.100.7"
V6 == "2001:db8::1"
V6Long == "2001:DB8:0::1"

MCAddresses == {V4, V4Old, V6, V6Long}
MCTypeFor == [ip \in MCAddresses |-> IF ip \in {V6, V6Long} THEN "AAAA" ELSE "A"]
MCStored == [ip \in MCAddresses |-> IF ip = V6Long THEN V6 ELSE ip]
MCIds == 1..2

\* A record that is right but for one thing, or stale.
Other(type, content, proxied, shortLived) ==
  [type |-> type, content |-> content, proxied |-> proxied, shortLived |-> shortLived]
MCForeign == {Other("A", V4, TRUE, TRUE), Other("A", V4, FALSE, FALSE),
              Other("A", V4Old, FALSE, TRUE), Other("AAAA", V6, FALSE, TRUE)}

AllFaults == {"auth", "api", "error"}

OneRefresh == {one}
================================================================================
