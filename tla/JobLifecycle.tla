---------------------------- MODULE JobLifecycle ----------------------------
(***************************************************************************)
(* What a BackgroundJob row promises to whoever polls it: the value of its *)
(* state column walks QUEUED -> RUNNING -> one terminal value, and stays.  *)
(* BackgroundJobs is shown to implement this specification.                *)
(***************************************************************************)
CONSTANT Job                  \* the ids of BackgroundJob rows

VARIABLE state                \* [Job -> State], the state column

Terminal == {"SUCCEEDED", "FAILED", "CANCELLED"}
State    == {"ABSENT", "QUEUED", "RUNNING"} \cup Terminal

Init == state = [j \in Job |-> "ABSENT"]

Move(j, from, to) ==
  /\ state[j] = from
  /\ state' = [state EXCEPT ![j] = to]

Enqueue(j) == Move(j, "ABSENT", "QUEUED")
Start(j)   == Move(j, "QUEUED", "RUNNING")
Finish(j)  == \E t \in Terminal : Move(j, "RUNNING", t)

Next == \E j \in Job : Enqueue(j) \/ Start(j) \/ Finish(j)

Spec == Init /\ [][Next]_state
=============================================================================
