---------------------------- MODULE ManagedProxy ----------------------------
(***************************************************************************)
(* src/lib/proxy.ts: the reverse proxy of the panel, one listen port, with *)
(* the requests it forwards, and the calls the deploy pipelines make of    *)
(* it (ensureManagedProxy, setTarget, drain) up to the removal of a        *)
(* container.  Deploy models the pipelines and takes a request for granted *)
(* as long as the target serves; here a request takes time.                *)
(***************************************************************************)
EXTENDS Naturals, FiniteSets

CONSTANTS
  Request,    \* client requests
  Upload,     \* those with a body that may still be being sent when the
              \* upstream's answer is over
  Upstream,   \* containers a request may be forwarded to
  None,       \* no upstream
  First,      \* the upstreams that run before the first pipeline, named
              \* blue; the others are started by a pipeline and named green
  Service,    \* [Upstream -> what it is a version of]
  Blue,       \* [Upstream -> First or None]: the container of that name,
              \* which the pipeline of an upstream removes after its drain
  MaxCrashes  \* bound: deaths of the panel's process

ASSUME ProxyAssumption ==
  /\ IsFiniteSet(Request)
  /\ Upload \subseteq Request
  /\ None \notin Upstream
  /\ First \subseteq Upstream
  /\ DOMAIN Service = Upstream
  /\ Blue \in [Upstream -> First \cup {None}]
  /\ \A u \in Upstream : Blue[u] # None => Service[Blue[u]] = Service[u]
  /\ \A u \in Upstream : Blue[u] # u
  /\ MaxCrashes \in Nat

VARIABLES
  listening,  \* whether a server has bound the listen port
  registered, \* whether REGISTRY has a proxy for the port
  target,     \* target of the proxy that listens
  inflight,   \* its count of requests
  phase,      \* [Request -> Phase]
  via,        \* [Request -> Upstream or None]: t of the request's handler,
              \* until the request is over
  step,       \* [Upstream -> Step]: the pipeline that starts this upstream
  up,         \* [Upstream -> BOOLEAN]
  removal,    \* [Upstream -> Removal]: how it was taken away
  crashes     \* deaths of the process so far

proxyVars   == <<listening, registered, target, inflight>>
requestVars == <<phase, via>>
deployVars  == <<step, up, removal>>
vars == <<proxyVars, requestVars, deployVars, crashes>>

\* "sent": waiting for the upstream's headers, "answering": piping its body.
\* Counted out: "ended" (proxyRes "end"), "erred" (an error of the upstream
\* or a timeout), "failed" (an error because the upstream was taken away).
\* Not counted out: "cut" (the upstream was taken away and the connection
\* closed without an error), "silent" (timed out), "aborted" (by the client).
\* "twice": counted out by "end" and by an error; "lost": the process died.
InProgress == {"sent", "answering"}
Leaked     == {"cut", "silent", "aborted"}
Phase      == {"none", "ended", "erred", "failed", "twice", "lost"}
                \cup InProgress \cup Leaked

Step    == {"idle", "building", "ready", "starting", "switched", "drained",
            "expired", "recording", "undoing", "done", "failed", "lost"}
Resting == {"idle", "done", "failed", "lost"}
Removal == {"no", "drained", "expired", "rollback", "replaced"}

TypeOK ==
  /\ listening \in BOOLEAN
  /\ registered \in BOOLEAN
  /\ target \in Upstream \cup {None}
  /\ inflight \in Nat
  /\ phase \in [Request -> Phase]
  /\ via \in [Request -> Upstream \cup {None}]
  /\ step \in [Upstream -> Step]
  /\ up \in [Upstream -> BOOLEAN]
  /\ removal \in [Upstream -> Removal]
  /\ crashes \in 0..MaxCrashes

Init ==
  /\ listening = FALSE
  /\ registered = FALSE
  /\ target = None
  /\ inflight = 0
  /\ phase = [q \in Request |-> "none"]
  /\ via = [q \in Request |-> None]
  /\ step = [u \in Upstream |-> IF u \in First THEN "done" ELSE "idle"]
  /\ up = [u \in Upstream |-> u \in First]
  /\ removal = [u \in Upstream |-> "no"]
  /\ crashes = 0

-----------------------------------------------------------------------------
(* The server of ManagedProxy.start                                        *)

Goes(q, from, to) ==
  /\ phase[q] = from
  /\ phase' = [phase EXCEPT ![q] = to]

Over(q) == via' = [via EXCEPT ![q] = None]

CountOut == inflight' = IF inflight = 0 THEN 0 ELSE inflight - 1

\* The handler takes the target of this moment and keeps it.
Accept(q) ==
  /\ listening
  /\ Goes(q, "none", "sent")
  /\ via' = [via EXCEPT ![q] = target]
  /\ inflight' = inflight + 1
  /\ UNCHANGED <<listening, registered, target, deployVars, crashes>>

\* Mutant: the request is counted out with its headers.
HeadersCountOut(q) ==
  /\ Goes(q, "sent", "answering")
  /\ CountOut
  /\ UNCHANGED <<listening, registered, target, via, deployVars, crashes>>

\* What the upstream sent before it was taken away may still arrive.
Headers(q) ==
  /\ Goes(q, "sent", "answering")
  /\ UNCHANGED <<proxyVars, via, deployVars, crashes>>

\* proxyRes "end".
End(q) ==
  /\ Goes(q, "answering", "ended")
  /\ Over(q)
  /\ CountOut
  /\ UNCHANGED <<listening, registered, target, deployVars, crashes>>

\* proxyReq "error": the upstream resets the connection, before its headers
\* (502), in the middle of its body or after the client went away, or it does
\* not send headers in time.
Error(q) ==
  /\ phase[q] \in InProgress \cup {"aborted"}
  /\ phase[q] # "aborted" => up[via[q]]
  /\ Goes(q, phase[q], "erred")
  /\ Over(q)
  /\ CountOut
  /\ UNCHANGED <<listening, registered, target, deployVars, crashes>>

\* The same, because the upstream was taken away.
UpstreamGone(q) ==
  /\ phase[q] \in InProgress
  /\ ~up[via[q]]
  /\ Goes(q, phase[q], "failed")
  /\ CountOut
  /\ UNCHANGED <<listening, registered, target, via, deployVars, crashes>>

\* proxyReq "error" after proxyRes "end": the upstream answered and closed
\* before it had the whole request.
LateError(q) ==
  /\ q \in Upload
  /\ Goes(q, "ended", "twice")
  /\ CountOut
  /\ UNCHANGED <<listening, registered, target, via, deployVars, crashes>>

\* Neither "end" nor "error" of proxyReq, so the count stays: the upstream is
\* taken away and closes its connection in the middle of the body, ...
Cut(q) ==
  /\ Goes(q, "answering", "cut")
  /\ ~up[via[q]]
  /\ UNCHANGED <<proxyVars, via, deployVars, crashes>>

\* ... the timeout destroys the request after its headers, ...
TimeOut(q) ==
  /\ Goes(q, "answering", "silent")
  /\ Over(q)
  /\ UNCHANGED <<proxyVars, deployVars, crashes>>

\* ... or the client goes away.
Abort(q) ==
  /\ Goes(q, "answering", "aborted")
  /\ Over(q)
  /\ UNCHANGED <<proxyVars, deployVars, crashes>>

-----------------------------------------------------------------------------
(* A pipeline of deploy.ts, from the start of its green container on; one  *)
(* at a time for each service, by its lock.                                *)

Steps(u, from, to) ==
  /\ step[u] = from
  /\ step' = [step EXCEPT ![u] = to]

\* The containers of the name that the pipeline of u gives to u.
Greens(u) == {v \in Upstream \ First : up[v] /\ Service[v] = Service[u]}

\* startContainer stops and removes the container of that name, which is the
\* one that serves if a former deploy left it.
Replace(u) ==
  /\ \A v \in Upstream : Service[v] = Service[u] => step[v] \in Resting
  /\ Steps(u, "idle", "building")
  /\ up' = [v \in Upstream |-> up[v] /\ v \notin Greens(u)]
  /\ removal' = [v \in Upstream |-> IF v \in Greens(u) THEN "replaced"
                                    ELSE removal[v]]
  /\ UNCHANGED <<proxyVars, requestVars, crashes>>

GreenHealthy(u) ==
  /\ Steps(u, "building", "ready")
  /\ up' = [up EXCEPT ![u] = TRUE]
  /\ UNCHANGED <<proxyVars, requestVars, removal, crashes>>

\* It does not start or is not healthy, and the pipeline rolls back.
GreenFails(u) ==
  /\ Steps(u, "building", "failed")
  /\ UNCHANGED <<proxyVars, requestVars, up, removal, crashes>>

\* Mutant: the proxy that exists is returned as it is.
SetNothing(u) ==
  /\ registered
  /\ Steps(u, "ready", "switched")
  /\ UNCHANGED <<proxyVars, requestVars, up, removal, crashes>>

\* ensureManagedProxy when the registry has the proxy.
SetTarget(u) ==
  /\ registered
  /\ Steps(u, "ready", "switched")
  /\ target' = u
  /\ UNCHANGED <<listening, registered, inflight, requestVars, up, removal,
                 crashes>>

\* ... and when it has none: a new proxy, which answers as soon as it has the
\* port, and is registered once start returns.
Listen(u) ==
  /\ ~registered /\ ~listening
  /\ Steps(u, "ready", "starting")
  /\ listening' = TRUE
  /\ target' = u
  /\ inflight' = 0
  /\ UNCHANGED <<registered, requestVars, up, removal, crashes>>

Register(u) ==
  /\ Steps(u, "starting", "switched")
  /\ registered' = TRUE
  /\ UNCHANGED <<listening, target, inflight, requestVars, up, removal,
                 crashes>>

\* Mutant: a second proxy takes over the port.
ListenAnyway(u) ==
  /\ ~registered /\ listening
  /\ Steps(u, "ready", "starting")
  /\ target' = u
  /\ inflight' = 0
  /\ UNCHANGED <<listening, registered, requestVars, up, removal, crashes>>

\* Another pipeline is between the two: EADDRINUSE, start rejects and the
\* pipeline rolls back.
PortInUse(u) ==
  /\ ~registered /\ listening
  /\ Steps(u, "ready", "undoing")
  /\ UNCHANGED <<proxyVars, requestVars, up, removal, crashes>>

\* Mutant: drain does not wait.
DrainNothing(u) ==
  /\ Steps(u, "switched", "drained")
  /\ UNCHANGED <<proxyVars, requestVars, up, removal, crashes>>

Drain(u) ==
  /\ inflight = 0
  /\ Steps(u, "switched", "drained")
  /\ UNCHANGED <<proxyVars, requestVars, up, removal, crashes>>

\* Mutant: drain has no deadline.
DrainForever(u) ==
  /\ Steps(u, "switched", "switched")
  /\ UNCHANGED <<proxyVars, requestVars, up, removal, crashes>>

DrainExpires(u) ==
  /\ inflight > 0
  /\ Steps(u, "switched", "expired")
  /\ UNCHANGED <<proxyVars, requestVars, up, removal, crashes>>

BlueRuns(u) == Blue[u] # None /\ up[Blue[u]]

RemoveBlue(u) ==
  /\ step[u] \in {"drained", "expired"}
  /\ Steps(u, step[u], "recording")
  /\ IF BlueRuns(u)
     THEN /\ up' = [up EXCEPT ![Blue[u]] = FALSE]
          /\ removal' = [removal EXCEPT ![Blue[u]] = step[u]]
     ELSE UNCHANGED <<up, removal>>
  /\ UNCHANGED <<proxyVars, requestVars, crashes>>

Finish(u) ==
  /\ Steps(u, "recording", "done")
  /\ UNCHANGED <<proxyVars, requestVars, up, removal, crashes>>

\* The pipeline throws after the switch: the proxy is pointed back if blue
\* still runs ...
RollBack(u) ==
  /\ step[u] \in {"switched", "drained", "expired", "recording"}
  /\ Steps(u, step[u], "undoing")
  /\ target' = IF BlueRuns(u) THEN Blue[u] ELSE target
  /\ UNCHANGED <<listening, registered, inflight, requestVars, up, removal,
                 crashes>>

\* ... and green is removed, without a drain.
RemoveGreen(u) ==
  /\ Steps(u, "undoing", "failed")
  /\ up' = [up EXCEPT ![u] = FALSE]
  /\ removal' = [removal EXCEPT ![u] = "rollback"]
  /\ UNCHANGED <<proxyVars, requestVars, crashes>>

\* The process dies with its proxy; containers stay.
Crash ==
  /\ crashes < MaxCrashes
  /\ crashes' = crashes + 1
  /\ listening' = FALSE
  /\ registered' = FALSE
  /\ target' = None
  /\ inflight' = 0
  /\ phase' = [q \in Request |-> IF phase[q] = "none" THEN "none" ELSE "lost"]
  /\ step' = [u \in Upstream |->
               IF step[u] \in {"idle", "done", "failed"} THEN step[u]
               ELSE "lost"]
  /\ via' = [q \in Request |-> None]
  /\ UNCHANGED <<up, removal>>

-----------------------------------------------------------------------------
Handle(q) ==
  \/ Headers(q) \/ End(q) \/ Error(q) \/ UpstreamGone(q) \/ LateError(q)
  \/ Cut(q) \/ TimeOut(q)

Pipeline(u) ==
  \/ GreenHealthy(u) \/ GreenFails(u)
  \/ SetTarget(u) \/ Listen(u) \/ Register(u) \/ PortInUse(u)
  \/ Drain(u) \/ DrainExpires(u) \/ RemoveBlue(u) \/ Finish(u)
  \/ RemoveGreen(u)

Next ==
  \/ \E q \in Request : Accept(q) \/ Handle(q) \/ Abort(q)
  \/ \E u \in Upstream : Replace(u) \/ Pipeline(u) \/ RollBack(u)
  \/ Crash

Spec == Init /\ [][Next]_vars

\* The awaits of a pipeline end, drain's at the latest at its deadline.  No
\* request is promised an end.
FairSpec == Spec /\ \A u \in Upstream : WF_vars(Pipeline(u))

-----------------------------------------------------------------------------
(* Properties                                                              *)

Counted == {q \in Request : phase[q] \in InProgress \cup Leaked}
Twice   == {q \in Request : phase[q] = "twice"}

\* The count of the proxy is the requests in progress and those that leaked,
\* except that an error after the end of an answer counts a request out a
\* second time: it never exceeds them, falls short of them by one at most for
\* each such error, and without one is exact.
InflightAccounts ==
  /\ inflight <= Cardinality(Counted)
  /\ Cardinality(Counted) <= inflight + Cardinality(Twice)

\* The registry has a proxy only if it listens, and one that listens without
\* being registered is being started by exactly one pipeline.
OneProxy ==
  /\ registered => listening
  /\ (listening /\ ~registered) <=>
       \E u \in Upstream :
         /\ step[u] = "starting"
         /\ \A v \in Upstream : step[v] = "starting" => v = u

\* "The old (blue) container is only stopped AFTER a drain grace period, no
\* request is dropped", as far as it is true: a request that got no answer, or
\* half of one, was forwarded to a container that was removed when the grace
\* period was over, by a rollback, or by the next deploy for its name; a
\* container that was drained drops none, unless a request was counted twice.
DrainDropsNone ==
  Twice = {} =>
    \A q \in Request :
      phase[q] \in {"failed", "cut"} =>
        removal[via[q]] \in {"expired", "rollback", "replaced"}

\* No request goes to a drained container any more.
DrainedIsUnused ==
  \A u \in Upstream : removal[u] = "drained" => target # u

\* Every pipeline comes to an end, however many requests never do.
PipelinesEnd == []<>(\A u \in Upstream : step[u] \in Resting)
=============================================================================
