------------------------------- MODULE Deploy -------------------------------
(***************************************************************************)
(* src/lib/deploy.ts: the blue/green pipeline (runDeploy), its automatic   *)
(* rollback, the manual one (rollback), the cancel route and the health    *)
(* watch of src/lib/healthwatch.ts, over four shared things: the DeployRun *)
(* and Deployment tables, the docker containers and the managed proxy.     *)
(*                                                                         *)
(* An action runs from one await whose answer matters to the next; any     *)
(* other pipeline, request or watch may act in between.                    *)
(***************************************************************************)
EXTENDS Naturals

CONSTANTS
  Run,           \* ids of DeployRun rows; a run deploys one version
  Seed,          \* versions deployed before the panel's first run
  App,           \* environment and service: what nameFor names
  Env,           \* environments
  AppOf,         \* [Run \cup Seed -> App]
  EnvOf,         \* [App -> Env]
  Port,          \* host ports a standby container may get (8400..8599)
  SeedPort,      \* [Seed -> Port]
  None,          \* no version
  NoPort,        \* no port (as a target: the proxy is not started)
  ImageGiven,    \* whether opts.image is passed to runDeploy
  PlayWorks,     \* whether the ansible play can run at all
  Faulty,        \* steps that may throw; "catch": the catch's first line,
                 \* "watch": the health watch, "rollback": rollback(),
                 \* "removal": docker in stopAndRemove, which says nothing
  Cancels,       \* whether people cancel runs
  Rollbacks,     \* whether people call the manual rollback
  AutoRollback,  \* the setting of the same name
  Sick,          \* whether a version that runs may fail its health checks
  FailThreshold, \* failThreshold of the health watch
  MaxCrashes     \* bound: deaths of the panel's process

Version == Run \cup Seed

\* Where the pipeline of a run is; each name is the step it does next.
\* "gaveUp": a statement outside every try failed, and the job ended without
\* having written its row; "lost": the process died.
Request  == {"idle", "create", "mark", "lock"}
Pipeline == {"pickPort", "play", "playing", "played", "remove", "start",
             "probe", "switch", "drain", "read", "supersede", "record",
             "succeed"}
Closing  == {"alert"}
Undo     == {"repoint", "undoGreen", "undoPlay", "undoRecord"}
Ended    == {"done", "gaveUp", "lost"}
Step     == Request \cup Pipeline \cup Closing \cup Undo \cup Ended

ASSUME DeployAssumption ==
  /\ AppOf \in [Version -> App]
  /\ EnvOf \in [App -> Env]
  /\ Port \subseteq Nat
  /\ SeedPort \in [Seed -> Port]
  /\ NoPort \notin Port
  /\ None \notin Version
  /\ Run \cap Seed = {}
  /\ {ImageGiven, PlayWorks, Cancels, Rollbacks, AutoRollback, Sick}
       \subseteq BOOLEAN
  /\ Faulty \subseteq Step \cup {"catch", "watch", "rollback", "removal"}
  /\ FailThreshold \in Nat \ {0}
  /\ MaxCrashes \in Nat
  \* one live version per environment to begin with
  /\ \A c, d \in Seed : EnvOf[AppOf[c]] = EnvOf[AppOf[d]] => c = d

VARIABLES
  state,      \* [Run -> RunState]: DeployRun.state ("NONE": no row)
  pc,         \* [Run -> Step]
  base,       \* [Run -> Version or None]: the live version the plan diffed
  port,       \* [Run -> Port or NoPort]: greenPort
  started,    \* [Run -> BOOLEAN]: greenStarted
  switched,   \* [Run -> BOOLEAN]
  prev,       \* [Run -> Version or None]: prev of the record-of-truth step
  container,  \* [Name -> Container]
  target,     \* Port or NoPort: target of the managed proxy
  status,     \* [Version -> Status]: Deployment.status ("none": no row)
  deployedAt, \* [Version -> Nat]: Deployment.deployedAt, as an order
  clock,      \* deployments created so far
  cancelling, \* runs whose cancel request has passed its guard
  rb,         \* [Run -> RbStep]: the call of rollback(run) in progress
  rbCurrent,  \* [Run -> Version or None]: current of that call
  rbPrevious, \* [Run -> Version or None]: previous of that call
  watch,      \* [Run -> WatchState]: DeployRun.healthStatus
  fails,      \* [Run -> Nat]: consecutive failed checks of the watch
  crashes     \* deaths of the process so far

runVars    == <<state, pc, base, port, started, switched, prev>>
localVars  == <<base, port, started, switched, prev>>
dockerVars == <<container, target>>
recordVars == <<status, deployedAt, clock>>
rbVars     == <<rb, rbCurrent, rbPrevious>>
watchVars  == <<watch, fails>>
vars == <<runVars, dockerVars, recordVars, cancelling, rbVars, watchVars,
          crashes>>

RunState   == {"NONE", "QUEUED", "RUNNING", "SUCCEEDED", "FAILED",
               "ROLLED_BACK", "CANCELLED"}
Finished   == {"SUCCEEDED", "FAILED", "ROLLED_BACK", "CANCELLED"}
Status     == {"none", "active", "superseded", "rolled_back"}
RbStep     == {"idle", "findPrevious", "repoint", "removeGreen", "demote",
               "promote", "record", "done"}
\* "lost": the column keeps what it said and nobody polls.
\* "degrading": the column says degraded, onDegrade is not called yet.
WatchState == {"off", "watching", "degrading", "degraded", "healthy", "error",
               "lost"}

Name      == App \X {"blue", "green"}
\* up: running; a container that is not up keeps its port for docker start.
Container == [up : BOOLEAN, port : Port \cup {NoPort},
              version : Version \cup {None}]
Absent    == [up |-> FALSE, port |-> NoPort, version |-> None]

TypeOK ==
  /\ state \in [Run -> RunState]
  /\ pc \in [Run -> Step]
  /\ base \in [Run -> Version \cup {None}]
  /\ port \in [Run -> Port \cup {NoPort}]
  /\ started \in [Run -> BOOLEAN]
  /\ switched \in [Run -> BOOLEAN]
  /\ prev \in [Run -> Version \cup {None}]
  /\ container \in [Name -> Container]
  /\ target \in Port \cup {NoPort}
  /\ status \in [Version -> Status]
  /\ deployedAt \in [Version -> Nat]
  /\ clock \in Nat
  /\ cancelling \subseteq Run
  /\ rb \in [Run -> RbStep]
  /\ rbCurrent \in [Run -> Version \cup {None}]
  /\ rbPrevious \in [Run -> Version \cup {None}]
  /\ watch \in [Run -> WatchState]
  /\ fails \in [Run -> Nat]
  /\ crashes \in 0..MaxCrashes

-----------------------------------------------------------------------------
(* Helpers                                                                 *)

env(v)       == EnvOf[AppOf[v]]
blueName(v)  == <<AppOf[v], "blue">>
greenName(v) == <<AppOf[v], "green">>
Exists(n)    == container[n] # Absent

Bound(p) == \E n \in Name : container[n].up /\ container[n].port = p
Free     == {p \in Port : ~Bound(p)}

\* The version a request to port p reaches, if any.
Serves(v, p) ==
  \E n \in Name : /\ container[n].up
                  /\ container[n].port = p
                  /\ container[n].version = v

\* deployment.findFirst({environment, status}, orderBy deployedAt desc)
Latest(v, e, st) ==
  LET rows == {d \in Version : status[d] = st /\ env(d) = e} IN
  IF v = None THEN rows = {}
  ELSE v \in rows /\ \A d \in rows : deployedAt[d] <= deployedAt[v]

Moves(r, from, to) ==
  /\ pc[r] = from
  /\ pc' = [pc EXCEPT ![r] = to]

\* stopAndRemove, which swallows the errors of stop and of remove.
Remove(n) ==
  \/ container' = [container EXCEPT ![n] = Absent]
  \/ /\ "removal" \in Faulty
     /\ \/ UNCHANGED container
        \/ container' = [container EXCEPT ![n].up = FALSE]

Put(n, r, up) ==
  container' = [container EXCEPT ![n] =
                 [up |-> up, port |-> port[r], version |-> r]]

Init ==
  /\ state = [r \in Run |-> "NONE"]
  /\ pc = [r \in Run |-> "idle"]
  /\ base = [r \in Run |-> None]
  /\ port = [r \in Run |-> NoPort]
  /\ started = [r \in Run |-> FALSE]
  /\ switched = [r \in Run |-> FALSE]
  /\ prev = [r \in Run |-> None]
  /\ container = [n \in Name |->
       IF \E s \in Seed : n = blueName(s)
       THEN LET s == CHOOSE s \in Seed : n = blueName(s) IN
            [up |-> TRUE, port |-> SeedPort[s], version |-> s]
       ELSE Absent]
  /\ target \in IF Seed = {} THEN {NoPort} ELSE {SeedPort[s] : s \in Seed}
  /\ status = [v \in Version |-> IF v \in Seed THEN "active" ELSE "none"]
  /\ deployedAt = [v \in Version |-> 0]
  /\ clock = 0
  /\ cancelling = {}
  /\ rb = [r \in Run |-> "idle"]
  /\ rbCurrent = [r \in Run |-> None]
  /\ rbPrevious = [r \in Run |-> None]
  /\ watch = [r \in Run |-> "off"]
  /\ fails = [r \in Run |-> 0]
  /\ crashes = 0

-----------------------------------------------------------------------------
(* runDeploy: the request                                                  *)

\* planDeploy reads the live deployment and classifies the migrations of the
\* diff from it; the refusals (stateful service, quality gate, destructive
\* migration without approval) are decided here and change nothing.
Plan(r) ==
  /\ Moves(r, "idle", "create")
  /\ \E v \in Version \cup {None} :
       /\ Latest(v, env(r), "active")
       /\ base' = [base EXCEPT ![r] = v]
  /\ UNCHANGED <<state, port, started, switched, prev, dockerVars, recordVars,
                 cancelling, rbVars, watchVars, crashes>>

CreateRun(r) ==
  /\ Moves(r, "create", "mark")
  /\ state' = [state EXCEPT ![r] = "QUEUED"]
  /\ UNCHANGED <<localVars, dockerVars, recordVars, cancelling, rbVars,
                 watchVars, crashes>>

\* createJob and the update to RUNNING, whatever the row says by now.
MarkRunning(r) ==
  /\ Moves(r, "mark", "lock")
  /\ state' = [state EXCEPT ![r] = "RUNNING"]
  /\ UNCHANGED <<localVars, dockerVars, recordVars, cancelling, rbVars,
                 watchVars, crashes>>

-----------------------------------------------------------------------------
(* runDeploy: the job                                                      *)

OtherRunning(r) ==
  \E q \in Run \ {r} : state[q] = "RUNNING" /\ env(q) = env(r)

\* Mutant: the lock is not looked at.
PassWithoutLock(r) ==
  /\ Moves(r, "lock", "pickPort")
  /\ UNCHANGED <<state, localVars, dockerVars, recordVars, cancelling, rbVars,
                 watchVars, crashes>>

PassLock(r) ==
  /\ ~OtherRunning(r)
  /\ Moves(r, "lock", "pickPort")
  /\ UNCHANGED <<state, localVars, dockerVars, recordVars, cancelling, rbVars,
                 watchVars, crashes>>

\* Outside the try: the run is FAILED and nothing is undone.
FailLock(r) ==
  /\ OtherRunning(r)
  /\ Moves(r, "lock", "done")
  /\ state' = [state EXCEPT ![r] = "FAILED"]
  /\ UNCHANGED <<localVars, dockerVars, recordVars, cancelling, rbVars,
                 watchVars, crashes>>

\* Preflight: pickFreePort takes the first port nothing listens on.
PickPort(r) ==
  /\ Moves(r, "pickPort", "play")
  /\ \E p \in Free : /\ \A q \in Free : p <= q
                     /\ port' = [port EXCEPT ![r] = p]
  /\ UNCHANGED <<state, base, started, switched, prev, dockerVars, recordVars,
                 cancelling, rbVars, watchVars, crashes>>

\* blue_green.yml: docker run of green (refused if the name or the port is
\* taken, or without an image)...
PlayStartGreen(r) ==
  /\ PlayWorks /\ ImageGiven
  /\ ~Exists(greenName(r)) /\ ~Bound(port[r])
  /\ Moves(r, "play", "playing")
  /\ Put(greenName(r), r, TRUE)
  /\ UNCHANGED <<state, localVars, target, recordVars, cancelling, rbVars,
                 watchVars, crashes>>

\* ... then, green being healthy, docker stop of blue.
PlayStopBlue(r) ==
  /\ Moves(r, "playing", "played")
  /\ container' = [container EXCEPT ![blueName(r)].up = FALSE]
  /\ UNCHANGED <<state, localVars, target, recordVars, cancelling, rbVars,
                 watchVars, crashes>>

\* The log lines about the play come before the flag.
PlayDone(r) ==
  /\ Moves(r, "played", "probe")
  /\ started' = [started EXCEPT ![r] = TRUE]
  /\ UNCHANGED <<state, base, port, switched, prev, dockerVars, recordVars,
                 cancelling, rbVars, watchVars, crashes>>

\* The play fails before its last task: the panel starts green itself, if it
\* was given an image, and throws if not.
PlayFails(r) ==
  /\ pc[r] \in {"play", "playing"}
  /\ Moves(r, pc[r], IF ImageGiven THEN "remove" ELSE "repoint")
  /\ UNCHANGED <<state, localVars, dockerVars, recordVars, cancelling, rbVars,
                 watchVars, crashes>>

\* startContainer: stopAndRemove(name) first...
RemoveGreen(r) ==
  /\ Moves(r, "remove", "start")
  /\ Remove(greenName(r))
  /\ UNCHANGED <<state, localVars, target, recordVars, cancelling, rbVars,
                 watchVars, crashes>>

\* ... then create and start...
StartGreen(r) ==
  /\ ~Exists(greenName(r)) /\ ~Bound(port[r])
  /\ Moves(r, "start", "probe")
  /\ Put(greenName(r), r, TRUE)
  /\ started' = [started EXCEPT ![r] = TRUE]
  /\ UNCHANGED <<state, base, port, switched, prev, target, recordVars,
                 cancelling, rbVars, watchVars, crashes>>

\* Mutant: the error of start is not noticed.
PortTakenGoesOn(r) ==
  /\ ~Exists(greenName(r)) /\ Bound(port[r])
  /\ Moves(r, "start", "probe")
  /\ Put(greenName(r), r, FALSE)
  /\ UNCHANGED <<state, localVars, target, recordVars, cancelling, rbVars,
                 watchVars, crashes>>

\* ... where start is refused if the port was taken since pickFreePort: the
\* container is created, and greenStarted is still false.
StartGreenPortTaken(r) ==
  /\ ~Exists(greenName(r)) /\ Bound(port[r])
  /\ Moves(r, "start", "repoint")
  /\ Put(greenName(r), r, FALSE)
  /\ UNCHANGED <<state, localVars, target, recordVars, cancelling, rbVars,
                 watchVars, crashes>>

\* waitHealthy: whoever listens on the port answers.
Probe(r) ==
  /\ Bound(port[r])
  /\ Moves(r, "probe", "switch")
  /\ UNCHANGED <<state, localVars, dockerVars, recordVars, cancelling, rbVars,
                 watchVars, crashes>>

Switch(r) ==
  /\ Moves(r, "switch", "drain")
  /\ target' = port[r]
  /\ switched' = [switched EXCEPT ![r] = TRUE]
  /\ UNCHANGED <<state, base, port, started, prev, container, recordVars,
                 cancelling, rbVars, watchVars, crashes>>

\* drain returns, at the latest at its deadline, and blue is removed.
RemoveBlue(r) ==
  /\ Moves(r, "drain", "read")
  /\ Remove(blueName(r))
  /\ UNCHANGED <<state, localVars, target, recordVars, cancelling, rbVars,
                 watchVars, crashes>>

\* The record of truth: four statements, no transaction.
ReadActive(r) ==
  /\ Moves(r, "read", "supersede")
  /\ \E v \in Version \cup {None} :
       /\ Latest(v, env(r), "active")
       /\ prev' = [prev EXCEPT ![r] = v]
  /\ UNCHANGED <<state, base, port, started, switched, dockerVars, recordVars,
                 cancelling, rbVars, watchVars, crashes>>

\* Mutant: the row that was active stays so.
SupersedeNothing(r) ==
  /\ Moves(r, "supersede", "record")
  /\ UNCHANGED <<state, localVars, dockerVars, recordVars, cancelling, rbVars,
                 watchVars, crashes>>

Supersede(r) ==
  /\ Moves(r, "supersede", "record")
  /\ status' = [v \in Version |->
                  IF v = prev[r] THEN "superseded" ELSE status[v]]
  /\ UNCHANGED <<state, localVars, dockerVars, deployedAt, clock, cancelling,
                 rbVars, watchVars, crashes>>

\* Mutant: the new row is not created.
RecordNothing(r) ==
  /\ Moves(r, "record", "succeed")
  /\ UNCHANGED <<state, localVars, dockerVars, recordVars, cancelling, rbVars,
                 watchVars, crashes>>

Record(r) ==
  /\ Moves(r, "record", "succeed")
  /\ status' = [status EXCEPT ![r] = "active"]
  /\ clock' = clock + 1
  /\ deployedAt' = [deployedAt EXCEPT ![r] = clock + 1]
  /\ UNCHANGED <<state, localVars, dockerVars, cancelling, rbVars, watchVars,
                 crashes>>

\* Mutant: the run is not updated.
SucceedNothing(r) ==
  /\ Moves(r, "succeed", "alert")
  /\ UNCHANGED <<state, localVars, dockerVars, recordVars, cancelling, rbVars,
                 watchVars, crashes>>

Succeed(r) ==
  /\ Moves(r, "succeed", "alert")
  /\ state' = [state EXCEPT ![r] = "SUCCEEDED"]
  /\ UNCHANGED <<localVars, dockerVars, recordVars, cancelling, rbVars,
                 watchVars, crashes>>

\* raiseAlert, the last log line, startHealthWatch.
StartWatch(r) ==
  /\ Moves(r, "alert", "done")
  /\ watch' = [watch EXCEPT ![r] = "watching"]
  /\ UNCHANGED <<state, localVars, dockerVars, recordVars, cancelling, rbVars,
                 fails, crashes>>

-----------------------------------------------------------------------------
(* runDeploy: the catch                                                    *)

\* What throws besides the steps that may: no free port, a container of that
\* name, nobody answering the health check.
Throws(r) ==
  \/ pc[r] \in Faulty \cap (Pipeline \cup Closing)
  \/ pc[r] = "pickPort" /\ Free = {}
  \/ pc[r] = "start" /\ Exists(greenName(r))
  \/ pc[r] = "probe" /\ ~Bound(port[r])

Throw(r) ==
  /\ Throws(r)
  /\ Moves(r, pc[r], "repoint")
  /\ UNCHANGED <<state, localVars, dockerVars, recordVars, cancelling, rbVars,
                 watchVars, crashes>>

\* inspect lists the port bindings of a running container only.
PointAt(n) ==
  target' = IF target # NoPort /\ container[n].up
            THEN container[n].port ELSE target

\* Mutant: the proxy is not pointed back.
RepointNothing(r) ==
  /\ Moves(r, "repoint", "undoGreen")
  /\ UNCHANGED <<state, localVars, dockerVars, recordVars, cancelling, rbVars,
                 watchVars, crashes>>

Repoint(r) ==
  /\ Moves(r, "repoint", "undoGreen")
  /\ IF switched[r] THEN PointAt(blueName(r)) ELSE UNCHANGED target
  /\ UNCHANGED <<state, localVars, container, recordVars, cancelling, rbVars,
                 watchVars, crashes>>

\* Mutant: green is left to the play.
UndoGreenNothing(r) ==
  /\ Moves(r, "undoGreen", "undoPlay")
  /\ UNCHANGED <<state, localVars, dockerVars, recordVars, cancelling, rbVars,
                 watchVars, crashes>>

UndoGreen(r) ==
  /\ Moves(r, "undoGreen", "undoPlay")
  /\ IF started[r] THEN Remove(greenName(r)) ELSE UNCHANGED container
  /\ UNCHANGED <<state, localVars, target, recordVars, cancelling, rbVars,
                 watchVars, crashes>>

\* rollback.yml, if it can run: docker start blue (refused if its port is
\* taken), docker stop green.
UndoPlay(r) ==
  LET b == blueName(r)
      startable == Exists(b) /\ ~Bound(container[b].port) IN
  /\ Moves(r, "undoPlay", "undoRecord")
  /\ \/ UNCHANGED container
     \/ /\ PlayWorks
        /\ container' = [container EXCEPT
                           ![b].up = @ \/ startable,
                           ![greenName(r)].up = FALSE]
  /\ UNCHANGED <<state, localVars, target, recordVars, cancelling, rbVars,
                 watchVars, crashes>>

\* Mutant: the run is not updated.
UndoRecordNothing(r) ==
  /\ Moves(r, "undoRecord", "done")
  /\ UNCHANGED <<state, localVars, dockerVars, recordVars, cancelling, rbVars,
                 watchVars, crashes>>

\* The run is ROLLED_BACK, an alert is raised, the job fails.
UndoRecord(r) ==
  /\ Moves(r, "undoRecord", "done")
  /\ state' = [state EXCEPT ![r] = "ROLLED_BACK"]
  /\ UNCHANGED <<localVars, dockerVars, recordVars, cancelling, rbVars,
                 watchVars, crashes>>

\* docker fails in the rollback: what is left of it is skipped.
UndoFails(r) ==
  /\ pc[r] \in Faulty \cap {"repoint", "undoGreen"}
  /\ Moves(r, pc[r], "undoRecord")
  /\ UNCHANGED <<state, localVars, dockerVars, recordVars, cancelling, rbVars,
                 watchVars, crashes>>

\* A write or a log line outside every try fails: createJob, what the lock
\* reads and writes, the line that opens the catch, the update to ROLLED_BACK.
\* The job fails, the row stays as it is and nothing more is undone.
GiveUp(r) ==
  /\ \/ pc[r] \in Faulty \cap {"mark", "lock", "undoRecord"}
     \/ pc[r] = "repoint" /\ "catch" \in Faulty
  /\ Moves(r, pc[r], "gaveUp")
  /\ UNCHANGED <<state, localVars, dockerVars, recordVars, cancelling, rbVars,
                 watchVars, crashes>>

-----------------------------------------------------------------------------
(* POST deploy/runs/[id]/cancel: the guard, then the write                 *)

CancelGuard(r) ==
  /\ Cancels
  /\ state[r] \in {"QUEUED", "RUNNING"}
  /\ cancelling' = cancelling \cup {r}
  /\ UNCHANGED <<runVars, dockerVars, recordVars, rbVars, watchVars, crashes>>

CancelWrite(r) ==
  /\ r \in cancelling
  /\ cancelling' = cancelling \ {r}
  /\ state' = [state EXCEPT ![r] = "CANCELLED"]
  /\ UNCHANGED <<pc, localVars, dockerVars, recordVars, rbVars, watchVars,
                 crashes>>

-----------------------------------------------------------------------------
(* rollback(run), by an admin or by the health watch; once for each run    *)

RbMoves(r, from, to) ==
  /\ rb[r] = from
  /\ rb' = [rb EXCEPT ![r] = to]

RbFindCurrent(r) ==
  /\ state[r] # "NONE"
  /\ RbMoves(r, "idle", "findPrevious")
  /\ \E c \in Version \cup {None} :
       /\ Latest(c, env(r), "active")
       /\ rbCurrent' = [rbCurrent EXCEPT ![r] = c]
  /\ UNCHANGED rbPrevious

OperatorRollback(r) ==
  /\ Rollbacks
  /\ RbFindCurrent(r)
  /\ UNCHANGED <<runVars, dockerVars, recordVars, cancelling, watchVars,
                 crashes>>

RbFindPrevious(r) ==
  /\ RbMoves(r, "findPrevious", "repoint")
  /\ \E p \in Version :
       /\ Latest(p, env(r), "superseded")
       /\ rbPrevious' = [rbPrevious EXCEPT ![r] = p]
  /\ UNCHANGED <<runVars, dockerVars, recordVars, cancelling, rbCurrent,
                 watchVars, crashes>>

\* It throws: there is nothing to roll back to, and nothing has been done.
RbFindsNone(r) ==
  /\ Latest(None, env(r), "superseded")
  /\ RbMoves(r, "findPrevious", "idle")
  /\ UNCHANGED <<runVars, dockerVars, recordVars, cancelling, rbCurrent,
                 rbPrevious, watchVars, crashes>>

\* Docker or the database fails: the call throws, what it did is left.
RbFails(r) ==
  /\ "rollback" \in Faulty
  /\ rb[r] \notin {"idle", "done"}
  /\ RbMoves(r, rb[r], "done")
  /\ UNCHANGED <<runVars, dockerVars, recordVars, cancelling, rbCurrent,
                 rbPrevious, watchVars, crashes>>

RbRepoint(r) ==
  /\ RbMoves(r, "repoint", "removeGreen")
  /\ PointAt(blueName(r))
  /\ UNCHANGED <<runVars, container, recordVars, cancelling, rbCurrent,
                 rbPrevious, watchVars, crashes>>

RbRemoveGreen(r) ==
  /\ RbMoves(r, "removeGreen", "demote")
  /\ Remove(greenName(r))
  /\ UNCHANGED <<runVars, target, recordVars, cancelling, rbCurrent,
                 rbPrevious, watchVars, crashes>>

RbDemote(r) ==
  /\ RbMoves(r, "demote", "promote")
  /\ status' = [v \in Version |->
                  IF v = rbCurrent[r] THEN "rolled_back" ELSE status[v]]
  /\ UNCHANGED <<runVars, dockerVars, deployedAt, clock, cancelling, rbCurrent,
                 rbPrevious, watchVars, crashes>>

RbPromote(r) ==
  /\ RbMoves(r, "promote", "record")
  /\ status' = [v \in Version |->
                  IF v = rbPrevious[r] THEN "active" ELSE status[v]]
  /\ UNCHANGED <<runVars, dockerVars, deployedAt, clock, cancelling, rbCurrent,
                 rbPrevious, watchVars, crashes>>

\* Mutant: the call begins again when it has written its result.
RbRecordAgain(r) ==
  /\ RbMoves(r, "record", "repoint")
  /\ state' = [state EXCEPT ![r] = "ROLLED_BACK"]
  /\ UNCHANGED <<pc, localVars, dockerVars, recordVars, cancelling, rbCurrent,
                 rbPrevious, watchVars, crashes>>

RbRecord(r) ==
  /\ RbMoves(r, "record", "done")
  /\ state' = [state EXCEPT ![r] = "ROLLED_BACK"]
  /\ UNCHANGED <<pc, localVars, dockerVars, recordVars, cancelling, rbCurrent,
                 rbPrevious, watchVars, crashes>>

-----------------------------------------------------------------------------
(* healthwatch.ts: curl on the port green was given                        *)

CheckOk(r) ==
  /\ watch[r] = "watching"
  /\ Bound(port[r])
  /\ fails' = [fails EXCEPT ![r] = 0]
  /\ UNCHANGED <<runVars, dockerVars, recordVars, cancelling, rbVars, watch,
                 crashes>>

\* A check that fails; the one that reaches the threshold degrades the run.
CheckFails(r) ==
  /\ watch[r] = "watching"
  /\ Sick \/ ~Bound(port[r])
  /\ fails' = [fails EXCEPT ![r] = @ + 1]
  /\ watch' = [watch EXCEPT ![r] =
                IF fails[r] + 1 < FailThreshold THEN @ ELSE "degrading"]
  /\ UNCHANGED <<runVars, dockerVars, recordVars, cancelling, rbVars, crashes>>

WatchDegraded(r) ==
  /\ watch[r] = "degrading"
  /\ watch' = [watch EXCEPT ![r] = "degraded"]

\* onDegrade, when autoRollback is set...
OnDegrade(r) ==
  /\ AutoRollback
  /\ WatchDegraded(r)
  /\ RbFindCurrent(r)
  /\ UNCHANGED <<runVars, dockerVars, recordVars, cancelling, fails, crashes>>

\* ... and not (or, by the bound, if a call for this run is in progress or was
\* made before).
DegradedOnly(r) ==
  /\ ~AutoRollback \/ rb[r] # "idle"
  /\ WatchDegraded(r)
  /\ UNCHANGED <<runVars, dockerVars, recordVars, cancelling, rbVars, fails,
                 crashes>>

\* watchMinutes are over.
WatchEnds(r) ==
  /\ watch[r] = "watching"
  /\ watch' = [watch EXCEPT ![r] = "healthy"]
  /\ UNCHANGED <<runVars, dockerVars, recordVars, cancelling, rbVars, fails,
                 crashes>>

\* A write, the alert or a log line of the watch fails, before onDegrade: it
\* ends, and says so if it can.
WatchBreaks(r) ==
  /\ "watch" \in Faulty
  /\ watch[r] \in {"watching", "degrading"}
  /\ \E w \in {"error", "lost"} : watch' = [watch EXCEPT ![r] = w]
  /\ UNCHANGED <<runVars, dockerVars, recordVars, cancelling, rbVars, fails,
                 crashes>>

-----------------------------------------------------------------------------
(* The panel's process dies: pipelines, rollbacks, watches and the proxy   *)
(* go with it; rows and containers stay.                                   *)

Crash ==
  /\ crashes < MaxCrashes
  /\ crashes' = crashes + 1
  /\ pc' = [r \in Run |->
                          IF pc[r] \in {"idle", "done", "gaveUp"} THEN pc[r]
                          ELSE "lost"]
  /\ rb' = [r \in Run |-> IF rb[r] = "idle" THEN "idle" ELSE "done"]
  /\ watch' = [r \in Run |-> IF watch[r] \in {"watching", "degrading"}
                             THEN "lost" ELSE watch[r]]
  /\ cancelling' = {}
  /\ target' = NoPort
  /\ UNCHANGED <<state, localVars, container, recordVars, rbCurrent,
                 rbPrevious, fails>>

-----------------------------------------------------------------------------
Forward(r) ==
  \/ CreateRun(r) \/ MarkRunning(r) \/ PassLock(r) \/ FailLock(r)
  \/ PickPort(r) \/ PlayStartGreen(r) \/ PlayStopBlue(r) \/ PlayDone(r)
  \/ PlayFails(r) \/ RemoveGreen(r) \/ StartGreen(r)
  \/ StartGreenPortTaken(r) \/ Probe(r) \/ Switch(r) \/ RemoveBlue(r)
  \/ ReadActive(r) \/ Supersede(r) \/ Record(r) \/ Succeed(r) \/ StartWatch(r)

Backward(r) ==
  \/ Throw(r) \/ Repoint(r) \/ UndoGreen(r) \/ UndoPlay(r) \/ UndoRecord(r)
  \/ UndoFails(r) \/ GiveUp(r)

ManualRollback(r) ==
  \/ RbFindPrevious(r) \/ RbFindsNone(r) \/ RbRepoint(r)
  \/ RbRemoveGreen(r) \/ RbDemote(r) \/ RbPromote(r) \/ RbRecord(r)
  \/ RbFails(r)

Watch(r) ==
  \/ CheckOk(r) \/ CheckFails(r) \/ OnDegrade(r) \/ DegradedOnly(r)
  \/ WatchEnds(r) \/ WatchBreaks(r)

Next ==
  \/ \E r \in Run : \/ Plan(r) \/ Forward(r) \/ Backward(r)
                    \/ CancelGuard(r) \/ CancelWrite(r)
                    \/ OperatorRollback(r) \/ ManualRollback(r)
                    \/ Watch(r)
  \/ Crash

Spec == Init /\ [][Next]_vars

\* Every awaited call of the pipeline and of a rollback is answered or
\* rejected (git, docker, the health check, the play and the drain have
\* their own limits), and the watch has a deadline.  People owe nothing.
Fairness ==
  \A r \in Run : /\ WF_vars(Forward(r) \/ Backward(r))
                 /\ WF_vars(CancelWrite(r))
                 /\ WF_vars(ManualRollback(r))
                 /\ WF_vars(OnDegrade(r) \/ DegradedOnly(r) \/ WatchEnds(r))

FairSpec == Spec /\ Fairness

-----------------------------------------------------------------------------
(* Properties                                                              *)

InPipeline(r) == pc[r] \in Pipeline
Working(r)    == pc[r] \in Pipeline \cup Undo

\* The lock of runDeploy, as strong as it is: of the runs of one environment
\* that are past it, at most one is still RUNNING, whoever is cancelled,
\* rolled back or lost.
OneRunningPipeline ==
  \A q, r \in Run :
    (/\ InPipeline(q) /\ InPipeline(r) /\ env(q) = env(r)
     /\ state[q] = "RUNNING" /\ state[r] = "RUNNING") => q = r

\* At most one pipeline of an environment touches its containers, its proxy
\* and its records.
OnePipeline ==
  \A q, r \in Run : (Working(q) /\ Working(r) /\ env(q) = env(r)) => q = r

\* What OnePipeline needs: nobody but its pipeline writes the state of a run,
\* and the pipeline does not throw once it has written SUCCEEDED.
Undisturbed ==
  /\ ~Cancels /\ ~Rollbacks /\ ~AutoRollback
  /\ Faulty \cap Closing = {}

\* Undisturbed, the lock excludes: a pipeline that passed it works alone.
PipelinesExclude == Undisturbed => OnePipeline

\* Undisturbed, a pipeline points the proxy at the version it deploys: the
\* port it took from pickFreePort, without reserving it, is bound by its own
\* green when the health check answers, whatever other environments start.
SwitchesToOwn ==
  Undisturbed =>
    \A r \in Run : pc[r] \in {"switch", "drain"} => Serves(r, port[r])

\* At most one Deployment of an environment is active.
OneActive ==
  \A c, d \in Version :
    (/\ status[c] = "active" /\ status[d] = "active" /\ env(c) = env(d))
      => c = d

\* Undisturbed, the four statements of the record of truth supersede what is
\* active before they activate a new row, although no transaction holds them
\* together.
RecordHasOneActive == Undisturbed => OneActive

Served(v) == Serves(v, target)
ProxyUp   == target # NoPort
\* No call of rollback(r) has changed anything.
NoRollback(r) == rb[r] \in {"idle", "findPrevious"}
AtRest    == /\ \A r \in Run : pc[r] \in {"idle"} \cup Ended
             /\ \A r \in Run : rb[r] \in {"idle", "done"}

\* No request is dropped: at every moment the port the proxy forwards to has
\* a version running behind it (header of deploy.ts and of proxy.ts).
TrafficServed == ProxyUp => \E v \in Version : Served(v)

\* Once nothing is in progress, the Deployment that is active is the version
\* the proxy serves, and no other version is.
RecordMatchesTraffic ==
  (AtRest /\ ProxyUp) =>
    \A v \in Version : status[v] = "active" <=> Served(v)

\* An automatic rollback brings back the version that was live before: "a
\* REAL rollback re-points the proxy back to blue and stops green".
RollbackRestores ==
  \A r \in Run :
    (/\ state[r] = "ROLLED_BACK" /\ pc[r] = "done" /\ started[r]
     /\ NoRollback(r) /\ base[r] # None /\ ProxyUp) => Served(base[r])

\* Runs that were given a port: those that have changed anything outside
\* their row.
Given(r) == port[r] # NoPort

\* What comes after blue is removed.
AfterBlue == {"read", "supersede", "record", "succeed"} \cup Closing

\* When the code keeps what its header promises: the play does not get to
\* stopping blue; nothing throws once blue is gone; nobody rolls back by hand
\* or by the watch; no application is deployed twice (what serves then is
\* named green); a run that may throw after the switch has a blue container.
FirstDeploys ==
  /\ ~PlayWorks
  /\ Faulty \cap AfterBlue = {}
  /\ \A r \in Run : NoRollback(r)
  /\ \A q, r \in Run : Given(q) /\ Given(r) /\ AppOf[q] = AppOf[r] => q = r
  /\ "drain" \in Faulty =>
       \A r \in Run : Given(r) => \E s \in Seed : AppOf[s] = AppOf[r]

\* First deploys drop no request, however many applications share the proxy,
\* whatever throws before blue is removed or in the undo, and however many
\* other runs are refused, cancelled or lost meanwhile.
FirstDeploysServe == FirstDeploys => TrafficServed

\* The proxy has one application behind it.
OneApplication ==
  \A v, w \in Seed \cup {r \in Run : Given(r)} : AppOf[v] = AppOf[w]

\* A first deploy that has the proxy to itself and whose undo gets to it.
Alone == FirstDeploys /\ OneApplication /\ "repoint" \notin Faulty

\* It leaves the record and the traffic agreed, unless the catch fails at its
\* first line...
FirstDeployRecorded == (Alone /\ "catch" \notin Faulty) => RecordMatchesTraffic

\* ... and, if it is rolled back, the former version served.
FirstDeployRestored == Alone => RollbackRestores

\* All the while it does what BlueGreen promises of traffic and record.
ServedVersions == IF ProxyUp THEN {v \in Version : Served(v)} ELSE {}
ActiveVersions == {v \in Version : status[v] = "active"}

Promised == INSTANCE BlueGreen WITH
  Old <- Seed, New <- Run,
  up <- ProxyUp, served <- ServedVersions, active <- ActiveVersions

FirstDeployIsBlueGreen ==
  /\ Alone => Promised!Init
  /\ [][Alone' => Promised!Next \/ UNCHANGED Promised!vars]_vars

\* The undo of docker calls works (stopAndRemove does not tell if not), and so
\* does what follows the docker run of the play up to the flag that tells the
\* undo of it.
GreenIsKnown ==
  /\ Faulty \cap {"repoint", "undoGreen", "removal"} = {}
  /\ PlayWorks => Faulty \cap {"playing", "played", "remove"} = {}

\* A run that was rolled back has left no container running its version, for
\* any number of runs that deploy, cancel and roll back beside it.
NoGreenLeft ==
  GreenIsKnown =>
    \A r \in Run :
      (state[r] = "ROLLED_BACK" /\ pc[r] = "done" /\ NoRollback(r)) =>
        \A n \in Name : ~(container[n].up /\ container[n].version = r)

\* A manual rollback serves the deployment whose commit it reports.
RestoredIsServed ==
  \A r \in Run :
    (/\ rb[r] = "done" /\ state[r] = "ROLLED_BACK" /\ ProxyUp)
      => Served(rbPrevious[r])

\* The rollback a health watch calls is of the deployment it watched: never
\* of one that was deployed since.
WatchRollsBackItsOwn ==
  \A r \in Run :
    (watch[r] = "degraded" /\ rb[r] # "idle") => rbCurrent[r] \in {r, None}

\* What the gate compared the new version with (its migrations, in
\* particular) is still what is live when the pipeline replaces it.
PlanIsCurrent ==
  \A r \in Run :
    pc[r] \in {"switch", "drain"} => Latest(base[r], env(r), "active")

\* A deploy to one environment does not touch the traffic of another (the
\* roles of the deploy route are per environment).
Untouched(e)      == \A r \in Run : env(r) = e => pc[r] = "idle"
EnvironmentsApart ==
  \A s \in Seed : (Untouched(env(s)) /\ ProxyUp) => Served(s)

\* Statements of the job outside every try, or in the catch after the undo.
Unguarded == {"mark", "lock", "catch", "undoRecord"}

\* Without deaths of the process, a run past the request ends with a final
\* state in its row, whatever its guarded steps throw.  If an unguarded
\* statement may fail it may end without one: its row then stays QUEUED or
\* RUNNING and, while RUNNING, bars its environment until it is cancelled.
RunsEnd ==
  \A r \in Run :
    pc[r] = "mark" ~>
      \/ pc[r] = "done" /\ state[r] \in Finished
      \/ pc[r] = "gaveUp" /\ Faulty \cap Unguarded # {}

\* What follows a deploy ends: a watch stops, with its verdict unless one of
\* its own writes fails, and a rollback that it or a person called returns.
WatchesEnd ==
  \A r \in Run : (watch[r] = "watching" \/ rb[r] = "repoint") ~>
    (/\ watch[r] \in {"off", "degraded", "healthy"}
                      \cup (IF "watch" \in Faulty THEN {"error", "lost"}
                            ELSE {})
     /\ rb[r] \in {"idle", "done"})

\* When nothing in its pipeline throws, a run that is the only one of its
\* environment succeeds.
DeployCompletes == \A r \in Run : pc[r] = "mark" ~> state[r] = "SUCCEEDED"
=============================================================================
