------------------------------ MODULE MCAccess ------------------------------
(***************************************************************************)
(* Two administrators and a user yet to be created, two changes of users,  *)
(* two logins to one account, three requests about second factors.         *)
(***************************************************************************)
EXTENDS Access, TLC

CONSTANTS ada, bob, cy, l1, l2, a1, a2, e1, e2, e3

MCUser      == {ada, bob, cy}
MCFirstRole == [u \in MCUser |-> IF u = cy THEN None ELSE "ADMIN"]
MCLoggedIn  == {ada}
MCLogin     == {l1, l2}
MCUserOf    == [l \in MCLogin |-> ada]
MCAdmin     == {a1, a2}
MCEnrol     == {e1, e2, e3}

\* Requests of a kind are alike.
Alike == Permutations(MCLogin) \cup Permutations(MCAdmin)
           \cup Permutations(MCEnrol)
=============================================================================
