------------------------------ MODULE MCDeploy ------------------------------
(***************************************************************************)
(* Instances of Deploy.  Each configuration chooses who deploys what, what *)
(* may fail and who interferes.                                            *)
(***************************************************************************)
EXTENDS Deploy

CONSTANTS v0, r1, r2, r3, dev, prod, devApp, prodApp

OneRun  == {r1}
TwoRuns == {r1, r2}
ThreeRuns == {r1, r2, r3}
OneSeed == {v0}
MCPort  == 1..4

OneApp   == {devApp}
TwoApps  == {devApp, prodApp}
OneEnv   == {dev}
TwoEnvs  == {dev, prod}
AllInDev == [v \in Run \cup Seed |-> devApp]
DevOnly  == [a \in App |-> dev]

\* r1 deploys to dev while v0 is live in prod.
OneEach    == [v \in Run \cup Seed |-> IF v = r1 THEN devApp ELSE prodApp]
LastInProd == [v \in Run \cup Seed |-> IF v = r3 THEN prodApp ELSE devApp]
OneEnvEach == [a \in App |-> IF a = devApp THEN dev ELSE prod]

SeedOnPort1 == [v \in Seed |-> 1]

\* What may throw: steps on each side of the pipeline's writes, both ends of
\* the catch, the lock and the watch; what comes before blue is removed, the
\* undo once it has pointed the proxy back, and silently every removal of a
\* container; the switch and the record of truth, with or without what no try
\* guards; what follows a deploy.
HereAndThere == {"lock", "played", "switch", "supersede", "record", "repoint",
                 "undoRecord", "catch", "watch"}
WayBack      == {"lock", "pickPort", "remove", "start", "probe", "switch",
                 "drain", "undoGreen", "undoRecord", "removal"}
SomeSteps    == {"switch", "record"}
Unanswered   == SomeSteps \cup Unguarded
Afterwards   == {"watch", "rollback"}
=============================================================================
