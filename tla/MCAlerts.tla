------------------------------ MODULE MCAlerts ------------------------------
(***************************************************************************)
(* Three calls for one rule, two of them for the same container, the third *)
(* for none in particular; two channels, one of which may be deleted.      *)
(***************************************************************************)
EXTENDS Alerts

CONSTANTS r1, r2, r3, f1, rule, k1, c1, c2

MCRaise     == {r1, r2, r3}
MCFlush     == {f1}
MCRule      == {rule}
MCChannel   == {c1, c2}
MCRuleOf    == [r \in MCRaise |-> rule]
MCContainer == [r \in MCRaise |-> IF r = r3 THEN None ELSE k1]
MCWanted    == [r \in MCRaise |-> IF r = r1 THEN {c1, c2} ELSE {}]
MCDeletable == {c2}
=============================================================================
