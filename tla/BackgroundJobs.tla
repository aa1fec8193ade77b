--------------------------- MODULE BackgroundJobs ---------------------------
(***************************************************************************)
(* src/lib/jobs.ts: the in-process job runner.  A job is a BackgroundJob   *)
(* row plus an async function running in the panel's Node process; every   *)
(* await of that function is a point where other callbacks run.            *)
(*                                                                         *)
(* ctx.log is a read-modify-write of the whole log column: the call is     *)
(* two database round trips, and nothing orders two calls in flight.       *)
(***************************************************************************)
EXTENDS Naturals, Sequences

CONSTANTS
  Job,        \* ids of BackgroundJob rows
  Detached,   \* jobs whose work calls ctx.log without awaiting it
              \* (the ansible bridge of deploy.ts does)
  Viewer,     \* SSE responses (jobStreamResponse)
  MaxLines,   \* bound: lines the work of one job logs
  MaxCrashes, \* bound: deaths of the panel's process
  DbFaults    \* whether a write of the row may be rejected

ASSUME JobAssumption ==
  /\ Detached \subseteq Job
  /\ MaxLines \in Nat
  /\ MaxCrashes \in Nat
  /\ DbFaults \in BOOLEAN

VARIABLES
  state,          \* [Job -> State]: column state ("ABSENT": no row)
  progress,       \* [Job -> 0..100]: column progress
  log,            \* [Job -> Seq(Line)]: column log, one element per line
  running,        \* the Set of the same name
  cancelRegistry, \* the Set of the same name
  fiber,          \* [Job -> Fiber]: where the async function of runJob is
  outcome,        \* [Job -> Terminal or "none"]: what it is about to record
  emitted,        \* [Job -> Nat]: lines its work has passed to ctx.log
  appends,        \* [Job -> set of LogCall]: calls of ctx.log in flight
  stream,         \* [Viewer -> Stream]
  crashes         \* deaths of the process so far

rowVars    == <<state, progress, log>>
memoryVars == <<running, cancelRegistry, fiber, outcome>>
logVars    == <<emitted, appends>>
vars == <<rowVars, memoryVars, logVars, stream, crashes>>

Terminal == {"SUCCEEDED", "FAILED", "CANCELLED"}
State    == {"ABSENT", "QUEUED", "RUNNING"} \cup Terminal

\* "created": createJob has returned, runJob is not called yet;
\* "starting", "working", "settling": before, in and after fn(ctx);
\* "stuck": the first update was rejected; "lost": the process died.
Fiber == {"none", "created", "starting", "working", "settling", "done",
          "stuck", "lost"}

Line == 1..MaxLines

\* One call of ctx.log: the line it adds and, once read, the log it saw.
LogCall == [line : Line, read : BOOLEAN, seen : Seq(Line)]

\* A stream that is not open has job = NoJob or has been closed.
NoJob  == "no job"
Stream == [job : Job \cup {NoJob}, open : BOOLEAN, sentLen : Nat,
           got : Seq(Line)]

TypeOK ==
  /\ state \in [Job -> State]
  /\ progress \in [Job -> 0..100]
  /\ log \in [Job -> Seq(Line)]
  /\ running \subseteq Job
  /\ cancelRegistry \subseteq Job
  /\ fiber \in [Job -> Fiber]
  /\ outcome \in [Job -> Terminal \cup {"none"}]
  /\ emitted \in [Job -> 0..MaxLines]
  /\ appends \in [Job -> SUBSET LogCall]
  /\ stream \in [Viewer -> Stream]
  /\ crashes \in 0..MaxCrashes

Init ==
  /\ state = [j \in Job |-> "ABSENT"]
  /\ progress = [j \in Job |-> 0]
  /\ log = [j \in Job |-> <<>>]
  /\ running = {}
  /\ cancelRegistry = {}
  /\ fiber = [j \in Job |-> "none"]
  /\ outcome = [j \in Job |-> "none"]
  /\ emitted = [j \in Job |-> 0]
  /\ appends = [j \in Job |-> {}]
  /\ stream = [v \in Viewer |->
                 [job |-> NoJob, open |-> FALSE, sentLen |-> 0, got |-> <<>>]]
  /\ crashes = 0

FiberMoves(j, from, to) ==
  /\ fiber[j] = from
  /\ fiber' = [fiber EXCEPT ![j] = to]

-----------------------------------------------------------------------------
(* createJob, and the first half of runJob                                 *)

CreateJob(j) ==
  /\ state[j] = "ABSENT"
  /\ state' = [state EXCEPT ![j] = "QUEUED"]
  /\ FiberMoves(j, "none", "created")
  /\ UNCHANGED <<progress, log, running, cancelRegistry, outcome, logVars,
                 stream, crashes>>

\* The synchronous part of runJob: the guard on `running`, then the start.
RunJob(j) ==
  /\ j \notin running
  /\ running' = running \cup {j}
  /\ FiberMoves(j, "created", "starting")
  /\ UNCHANGED <<rowVars, cancelRegistry, outcome, logVars, stream, crashes>>

MarkRunning(j) ==
  /\ FiberMoves(j, "starting", "working")
  /\ state' = [state EXCEPT ![j] = "RUNNING"]
  /\ UNCHANGED <<progress, log, running, cancelRegistry, outcome, logVars,
                 stream, crashes>>

\* Mutant: the RUNNING update inside the try.
MarkRunningRejectedCaught(j) ==
  /\ DbFaults
  /\ FiberMoves(j, "starting", "settling")
  /\ outcome' = [outcome EXCEPT ![j] = "FAILED"]
  /\ UNCHANGED <<rowVars, running, cancelRegistry, logVars, stream, crashes>>

\* The RUNNING update is awaited before the try: if it is rejected neither
\* the catch nor the finally runs.
MarkRunningRejected(j) ==
  /\ DbFaults
  /\ FiberMoves(j, "starting", "stuck")
  /\ UNCHANGED <<rowVars, running, cancelRegistry, outcome, logVars, stream,
                 crashes>>

-----------------------------------------------------------------------------
(* The work: ctx.log, ctx.progress, return and throw                       *)

Awaits(j) == j \notin Detached
\* Mutant: nobody awaits ctx.log.
IdleAlways(j) == TRUE

Idle(j)   == Awaits(j) => appends[j] = {}

\* append: the call is made...
EmitLine(j) ==
  /\ fiber[j] = "working"
  /\ Idle(j)
  /\ emitted[j] < MaxLines
  /\ emitted' = [emitted EXCEPT ![j] = @ + 1]
  /\ appends' = [appends EXCEPT ![j] = @ \cup
       {[line |-> emitted[j] + 1, read |-> FALSE, seen |-> <<>>]}]
  /\ UNCHANGED <<rowVars, memoryVars, stream, crashes>>

\* ... findUnique answers with the log of this moment...
ReadLog(j, a) ==
  /\ a \in appends[j]
  /\ ~a.read
  /\ appends' = [appends EXCEPT ![j] =
       (@ \ {a}) \cup {[line |-> a.line, read |-> TRUE, seen |-> log[j]]}]
  /\ UNCHANGED <<rowVars, memoryVars, emitted, stream, crashes>>

\* Mutant: the update keeps only the new line.
WriteOnlyLine(j, a) ==
  /\ a \in appends[j]
  /\ a.read
  /\ log' = [log EXCEPT ![j] = <<a.line>>]
  /\ appends' = [appends EXCEPT ![j] = @ \ {a}]
  /\ UNCHANGED <<state, progress, memoryVars, emitted, stream, crashes>>

\* ... and the update writes that log plus the line, whatever the column
\* holds by now.
WriteLog(j, a) ==
  /\ a \in appends[j]
  /\ a.read
  /\ log' = [log EXCEPT ![j] = Append(a.seen, a.line)]
  /\ appends' = [appends EXCEPT ![j] = @ \ {a}]
  /\ UNCHANGED <<state, progress, memoryVars, emitted, stream, crashes>>

\* The update of append is followed by .catch(() => {}): the line is dropped.
WriteLogRejected(j, a) ==
  /\ DbFaults
  /\ a \in appends[j]
  /\ a.read
  /\ appends' = [appends EXCEPT ![j] = @ \ {a}]
  /\ UNCHANGED <<rowVars, memoryVars, emitted, stream, crashes>>

\* ctx.progress clamps to 0..100; 100 is what a work that is about to
\* return reports, 5 any earlier value.
ReportProgress(j) ==
  /\ fiber[j] = "working"
  /\ Idle(j)
  /\ \E pct \in {5, 100} : progress' = [progress EXCEPT ![j] = pct]
  /\ UNCHANGED <<state, log, memoryVars, logVars, stream, crashes>>

\* requestCancel: no caller in src/, so any job at any time.
RequestCancel(j) ==
  /\ state[j] # "ABSENT"
  /\ cancelRegistry' = cancelRegistry \cup {j}
  /\ UNCHANGED <<rowVars, running, fiber, outcome, logVars, stream, crashes>>

\* Mutant: the job leaves `running` before its outcome is written.
SettlesUnregistered(j, result) ==
  /\ FiberMoves(j, "working", "settling")
  /\ outcome' = [outcome EXCEPT ![j] = result]
  /\ running' = running \ {j}
  /\ UNCHANGED <<rowVars, cancelRegistry, logVars, stream, crashes>>

Settles(j, result) ==
  /\ FiberMoves(j, "working", "settling")
  /\ outcome' = [outcome EXCEPT ![j] = result]
  /\ UNCHANGED <<rowVars, running, cancelRegistry, logVars, stream, crashes>>

\* fn returns: cancelRegistry is read here, before the update is awaited.
WorkReturns(j) ==
  /\ Idle(j)
  /\ emitted[j] = MaxLines \/ j \in cancelRegistry
  /\ Settles(j, IF j \in cancelRegistry THEN "CANCELLED" ELSE "SUCCEEDED")

\* Mutant: no catch.
WorkThrowsUncaught(j) ==
  /\ Idle(j)
  /\ FiberMoves(j, "working", "stuck")
  /\ UNCHANGED <<rowVars, running, cancelRegistry, outcome, logVars, stream,
                 crashes>>

WorkThrows(j) == Idle(j) /\ Settles(j, "FAILED")

-----------------------------------------------------------------------------
(* The second half of runJob: the outcome, then the finally                *)

Finally(j) ==
  /\ FiberMoves(j, "settling", "done")
  /\ running' = running \ {j}
  /\ cancelRegistry' = cancelRegistry \ {j}

RecordOutcome(j) ==
  /\ Finally(j)
  /\ state' = [state EXCEPT ![j] = outcome[j]]
  /\ progress' = [progress EXCEPT ![j] =
                    IF outcome[j] = "SUCCEEDED" THEN 100 ELSE @]
  /\ UNCHANGED <<log, outcome, logVars, stream, crashes>>

\* The update of a returned job is inside the try: its rejection is caught
\* and recorded as FAILED.
OutcomeRejected(j) ==
  /\ DbFaults
  /\ fiber[j] = "settling"
  /\ outcome[j] # "FAILED"
  /\ outcome' = [outcome EXCEPT ![j] = "FAILED"]
  /\ UNCHANGED <<rowVars, running, cancelRegistry, fiber, logVars, stream,
                 crashes>>

\* The update of the catch is not guarded: only the finally runs.
FailureRejected(j) ==
  /\ DbFaults
  /\ outcome[j] = "FAILED"
  /\ Finally(j)
  /\ UNCHANGED <<rowVars, outcome, logVars, stream, crashes>>

-----------------------------------------------------------------------------
(* The panel's process dies: memory and streams are gone, the rows stay,   *)
(* and nothing looks for RUNNING rows when it comes back.                  *)

Crash ==
  /\ crashes < MaxCrashes
  /\ crashes' = crashes + 1
  /\ running' = {}
  /\ cancelRegistry' = {}
  /\ fiber' = [j \in Job |-> IF fiber[j] \in {"none", "done"}
                               THEN fiber[j] ELSE "lost"]
  /\ appends' = [j \in Job |-> {}]
  /\ stream' = [v \in Viewer |-> [stream[v] EXCEPT !.open = FALSE]]
  /\ UNCHANGED <<rowVars, outcome, emitted>>

-----------------------------------------------------------------------------
(* jobStreamResponse                                                       *)

OpenStream(v, j) ==
  /\ stream[v].job = NoJob
  /\ stream' = [stream EXCEPT ![v] =
                  [job |-> j, open |-> TRUE, sentLen |-> 0, got |-> <<>>]]
  /\ UNCHANGED <<rowVars, memoryVars, logVars, crashes>>

\* Mutant: sentLen is not advanced.
PollResends(v) ==
  LET s == stream[v]
      l == log[s.job] IN
  /\ s.open
  /\ stream' = [stream EXCEPT ![v] =
       [s EXCEPT !.got = @ \o SubSeq(l, s.sentLen + 1, Len(l)),
                 !.open = state[s.job] \in {"QUEUED", "RUNNING"}]]
  /\ UNCHANGED <<rowVars, memoryVars, logVars, crashes>>

\* Mutant: the loop knows only one terminal state.
PollUntilSucceeded(v) ==
  LET s == stream[v]
      l == log[s.job] IN
  /\ s.open
  /\ stream' = [stream EXCEPT ![v] =
       [s EXCEPT !.got = @ \o SubSeq(l, s.sentLen + 1, Len(l)),
                 !.sentLen = Len(l),
                 !.open = state[s.job] \notin {"SUCCEEDED", "ABSENT"}]]
  /\ UNCHANGED <<rowVars, memoryVars, logVars, crashes>>

\* One turn of the loop: the part of the log past sentLen is sent, and the
\* stream is closed when the state read with it is terminal or the row does
\* not exist.
Poll(v) ==
  LET s == stream[v]
      l == log[s.job] IN
  /\ s.open
  /\ stream' = [stream EXCEPT ![v] =
       [s EXCEPT !.got = @ \o SubSeq(l, s.sentLen + 1, Len(l)),
                 !.sentLen = Len(l),
                 !.open = state[s.job] \in {"QUEUED", "RUNNING"}]]
  /\ UNCHANGED <<rowVars, memoryVars, logVars, crashes>>

-----------------------------------------------------------------------------
Work(j) ==
  \/ EmitLine(j) \/ ReportProgress(j) \/ WorkReturns(j) \/ WorkThrows(j)

Runner(j) ==
  \/ RunJob(j) \/ MarkRunning(j) \/ MarkRunningRejected(j)
  \/ RecordOutcome(j) \/ OutcomeRejected(j) \/ FailureRejected(j)

Logger(j) ==
  \E a \in appends[j] :
    ReadLog(j, a) \/ WriteLog(j, a) \/ WriteLogRejected(j, a)

Next ==
  \/ \E j \in Job : \/ CreateJob(j) \/ RequestCancel(j)
                    \/ Runner(j) \/ Work(j) \/ Logger(j)
  \/ \E v \in Viewer : Poll(v) \/ \E j \in Job : OpenStream(v, j)
  \/ Crash

Spec == Init /\ [][Next]_vars

\* The event loop runs every callback that is ready, and the work of a job
\* comes to an end (every external call it makes has a timeout or ends).
\* Nobody has to create a job, cancel one or open a stream.
Fairness ==
  /\ \A j \in Job : /\ WF_vars(Runner(j))
                    /\ WF_vars(Logger(j))
                    /\ WF_vars(EmitLine(j) \/ WorkReturns(j) \/ WorkThrows(j))
  /\ \A v \in Viewer : WF_vars(Poll(v))

FairSpec == Spec /\ Fairness

-----------------------------------------------------------------------------
(* Properties                                                              *)

\* A terminal state is never overwritten: what the SSE stream closed on is
\* what the row keeps, whatever the registry, a rejected write or a crash do
\* (runJob's try, catch and finally).
TerminalIsFinal ==
  [][\A j \in Job : state[j] \in Terminal => state'[j] = state[j]]_vars

\* As long as the process lives and the database answers, a row says RUNNING
\* only while the process has its function in `running`: no row is left
\* behind by the finally.
RunningRowsHaveRunner ==
  (crashes = 0 /\ ~DbFaults) =>
    \A j \in Job : state[j] = "RUNNING" => j \in running

\* The read-modify-write of append loses, repeats and reorders nothing for a
\* job that awaits each ctx.log: its log is in the order of the calls.
LogInOrder ==
  \A j \in Job \ Detached :
    \A m, n \in DOMAIN log[j] : m < n => log[j][m] < log[j][n]

AllLines(j) == [n \in 1..emitted[j] |-> n]

\* With a database that answers, a job that awaits its ctx.log calls has its
\* whole log in the row once it is terminal.
CompleteLog ==
  \A j \in Job \ Detached :
    (~DbFaults /\ state[j] \in Terminal) => log[j] = AllLines(j)

\* The same for every job, as deploy.ts says of its own ("full log
\* preserved"): not true of the lines of the ansible bridge.
EveryLogComplete ==
  \A j \in Job :
    (~DbFaults /\ state[j] \in Terminal) => log[j] = AllLines(j)

\* Poll slices the log by the length it sent last: for a job that awaits its
\* ctx.log calls a stream never skips or repeats a line, and when it closes
\* on a terminal state the viewer has the whole log.
StreamCloses(v) == stream[v].open /\ ~stream'[v].open /\ crashes' = crashes
StreamShowsLog ==
  [][\A v \in Viewer : \A j \in Job \ Detached :
       stream'[v].job = j =>
         /\ stream'[v].got = SubSeq(log[j], 1, stream'[v].sentLen)
         /\ (StreamCloses(v) /\ state[j] \in Terminal) =>
               stream'[v].got = log[j]]_stream

\* Without crashes and rejected writes, a created job reaches a terminal
\* state, and a stream that is open on it is closed.
JobsFinish    == \A j \in Job : state[j] = "QUEUED" ~> state[j] \in Terminal
StreamsFinish == \A v \in Viewer :
  (stream[v].open /\ state[stream[v].job] # "ABSENT") ~> ~stream[v].open

\* The state column implements the abstract life cycle.
Lifecycle == INSTANCE JobLifecycle WITH state <- state
LifecycleSpec == Lifecycle!Spec
=============================================================================
