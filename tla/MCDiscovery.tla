---------------------------- MODULE MCDiscovery ----------------------------
(***************************************************************************)
(* A port, published on IPv4 and on IPv6, and a service on one host, two   *)
(* scans, two generations of proposals, two decisions.                     *)
(***************************************************************************)
EXTENDS Discovery, TLC

CONSTANTS web, cache, web4, web6, redis, s1, s2, g1, g2, d1, d2

MCKey        == {web, cache}
MCPort       == {web}
MCDraft      == {web4, web6, redis}
MCKeyOf      == [d \in MCDraft |-> IF d = redis THEN cache ELSE web]
MCScan       == {s1, s2}
MCGeneration == {g1, g2}
MCDecision   == {d1, d2}

\* Calls of a kind are alike, and so are the two drafts of the port.
Alike == Permutations(MCScan) \cup Permutations(MCGeneration)
           \cup Permutations(MCDecision) \cup Permutations({web4, web6})
=============================================================================
