----------------------------- MODULE MCBilling -----------------------------
(***************************************************************************)
(* Two events, one of them dated by its sender and sent twice, and a       *)
(* request that rotates the ingest token; a monthly budget that pauses and *)
(* a daily one that warns.                                                 *)
(***************************************************************************)
EXTENDS Billing, FiniteSetsExt

CONSTANTS g1, g2, c1, c2, again, rotate, daily, monthly

MCGen    == {g1, g2}
MCIngest == {c1, c2, again}
MCGenOf  == [c \in MCIngest |-> IF c = c1 THEN g1 ELSE g2]
MCStamped == {g2}
MCWriter   == {rotate}
MCRotating == {rotate}
MCBudget   == {daily, monthly}

\* 60, 80 and 100 % of a limit of five; 100 % of a limit of two.
MCThreshold == [b \in MCBudget |-> IF b = monthly THEN {3, 4, 5} ELSE {2}]
MCLimit     == [b \in MCBudget |-> IF b = monthly THEN 5 ELSE 2]
MCPausing   == {monthly}
Cost(g)     == IF g = g1 THEN 3 ELSE 2
MCSpend     == [S \in SUBSET MCGen |-> MapThenSumSet(Cost, S)]
=============================================================================
