----------------------------- MODULE BlueGreen -----------------------------
(***************************************************************************)
(* What one blue/green deploy promises to those who send requests and to   *)
(* those who read the Deployment table: traffic moves from the old version *)
(* to the new one in one step, may move back in one step while the record  *)
(* still says the old one, and the record follows the traffic, never the   *)
(* other way round.  The proxy may die with its process at any moment.     *)
(* Deploy is shown to implement this specification, as long as one         *)
(* application is deployed for the first time.                             *)
(***************************************************************************)
CONSTANTS
  Old,       \* the version that was deployed before, or none: {v} or {}
  New        \* versions that may be deployed

VARIABLES
  up,        \* whether the proxy forwards requests
  served,    \* the versions they reach
  active     \* the versions whose Deployment is active

vars == <<up, served, active>>

Init ==
  /\ up = (Old # {})
  /\ served = Old
  /\ active = Old

SwitchTo(v) ==
  /\ active = Old
  /\ served = (IF up THEN Old ELSE {})
  /\ up' = TRUE
  /\ served' = {v}
  /\ UNCHANGED active

SwitchBack(v) ==
  /\ Old # {}
  /\ active = Old
  /\ up /\ served = {v}
  /\ served' = Old
  /\ UNCHANGED <<up, active>>

\* The record of truth, in two of its statements, while v is served.
Supersede(v) ==
  /\ active = Old
  /\ up /\ served = {v}
  /\ active' = {}
  /\ UNCHANGED <<up, served>>

Activate(v) ==
  /\ active = {}
  /\ up /\ served = {v}
  /\ active' = {v}
  /\ UNCHANGED <<up, served>>

Die ==
  /\ up' = FALSE
  /\ served' = {}
  /\ UNCHANGED active

Next ==
  \/ \E v \in New : SwitchTo(v) \/ SwitchBack(v) \/ Supersede(v) \/ Activate(v)
  \/ Die

Spec == Init /\ [][Next]_vars

\* Whoever is served while the proxy forwards requests: the old version, as
\* long as the record says so, or one new version, which the record says, is
\* about to say or does not say yet.
Promise ==
  up => \/ Old # {} /\ served = Old /\ active = Old
        \/ \E v \in New : /\ served = {v}
                          /\ active = Old \/ active \subseteq {v}
============================================================================
