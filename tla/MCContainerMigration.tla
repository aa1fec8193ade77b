------------------------ MODULE MCContainerMigration ------------------------
(***************************************************************************)
(* Two plans of one service with two volumes: one is preflighted, run      *)
(* twice, rolled back and committed, in any order; the other may be run.   *)
(***************************************************************************)
EXTENDS ContainerMigration

CONSTANTS p1, p2, data, logs, check, run1, run2, undo, commit, other

MCPlan   == {p1, p2}
MCVolume == {data, logs}
MCCall   == {check, run1, run2, undo, commit, other}
MCOpOf   == [c \in MCCall |-> CASE c = check  -> "preflight"
                                [] c = undo   -> "rollback"
                                [] c = commit -> "commit"
                                [] OTHER      -> "run"]
MCPlanOf == [c \in MCCall |-> IF c = other THEN p2 ELSE p1]

OnlyFirst  == {p1}
BothPlans  == {p1, p2}
=============================================================================
