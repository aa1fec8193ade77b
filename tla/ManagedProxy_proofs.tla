------------------------ MODULE ManagedProxy_proofs -------------------------
(***************************************************************************)
(* The promise of proxy.ts, for any number of requests, containers and     *)
(* deploys: how far the count that drain waits for can be off, and that a  *)
(* container that was drained drops no request.                            *)
(***************************************************************************)
EXTENDS ManagedProxy, FiniteSetTheorems, TLAPS

Active(u) == step[u] \notin Resting

LEMMA InitType == Init => TypeOK
<1> SUFFICES ASSUME Init PROVE TypeOK
  OBVIOUS
<1>1. up \in [Upstream -> BOOLEAN]
  <2>1. \A u \in Upstream : (u \in First) \in BOOLEAN
    OBVIOUS
  <2>2. QED
    BY <2>1, Zenon DEF Init
<1>2. step \in [Upstream -> Step] /\ removal \in [Upstream -> Removal]
  BY DEF Init, Step, Removal
<1>3. crashes \in 0..MaxCrashes /\ inflight \in Nat
  BY ProxyAssumption DEF Init
<1>4. phase \in [Request -> Phase] /\ via \in [Request -> Upstream \cup {None}]
  BY DEF Init, Phase
<1>5. QED
  BY <1>1, <1>2, <1>3, <1>4 DEF Init, TypeOK

LEMMA NextType == TypeOK /\ [Next]_vars => TypeOK'
<1> SUFFICES ASSUME TypeOK, [Next]_vars PROVE TypeOK'
  OBVIOUS
<1> USE ProxyAssumption
    DEF TypeOK, proxyVars, requestVars, deployVars, Goes, Steps
<1>1. ASSUME NEW q \in Request, Accept(q) PROVE TypeOK'
  BY <1>1 DEF Accept, Phase, InProgress
<1>2. ASSUME NEW q \in Request, Handle(q) \/ Abort(q) PROVE TypeOK'
  BY <1>2 DEF Handle, Headers, End, Error, UpstreamGone, LateError, TimeOut,
              Cut, Abort, Over, CountOut, Phase, InProgress, Leaked
<1>3. ASSUME NEW u \in Upstream, Pipeline(u) PROVE TypeOK'
  <2>1. CASE SetTarget(u)
    BY <2>1 DEF SetTarget, Step
  <2>2. CASE Listen(u)
    BY <2>2 DEF Listen, Step
  <2>3. CASE Register(u) \/ PortInUse(u)
    BY <2>3 DEF Register, PortInUse, Step
  <2>4. CASE Drain(u) \/ DrainExpires(u) \/ Finish(u)
    BY <2>4 DEF Drain, DrainExpires, Finish, Step
  <2>5. CASE RemoveBlue(u)
    <3>1. up' \in [Upstream -> BOOLEAN]
      BY <2>5, Zenon DEF RemoveBlue
    <3>2. removal' \in [Upstream -> Removal] /\ step' \in [Upstream -> Step]
      BY <2>5 DEF RemoveBlue, Step, Removal
    <3>3. QED
      BY <2>5, <3>1, <3>2 DEF RemoveBlue
  <2>6. CASE RemoveGreen(u)
    BY <2>6 DEF RemoveGreen, Step, Removal
  <2>7. CASE GreenHealthy(u) \/ GreenFails(u)
    BY <2>7 DEF GreenHealthy, GreenFails, Step
  <2>8. QED
    BY <1>3, <2>1, <2>2, <2>3, <2>4, <2>5, <2>6, <2>7 DEF Pipeline
<1>4. ASSUME NEW u \in Upstream, Replace(u) PROVE TypeOK'
  <2>1. up' \in [Upstream -> BOOLEAN]
    <3>1. \A v \in Upstream : (up[v] /\ v \notin Greens(u)) \in BOOLEAN
      OBVIOUS
    <3>2. QED
      BY <1>4, <3>1, Zenon DEF Replace
  <2>2. removal' \in [Upstream -> Removal] /\ step' \in [Upstream -> Step]
    BY <1>4 DEF Replace, Step, Removal
  <2>3. QED
    BY <1>4, <2>1, <2>2 DEF Replace
<1>5. ASSUME NEW u \in Upstream, RollBack(u) PROVE TypeOK'
  <2>1. target' \in Upstream \cup {None}
    BY <1>5 DEF RollBack, BlueRuns
  <2>2. step' \in [Upstream -> Step]
    BY <1>5 DEF RollBack, Step
  <2>3. QED
    BY <1>5, <2>1, <2>2 DEF RollBack
<1>6. CASE Crash
  <2>1. phase' \in [Request -> Phase]
    BY <1>6 DEF Crash, Phase
  <2>2. step' \in [Upstream -> Step]
    BY <1>6 DEF Crash, Step
  <2>3. crashes' \in 0..MaxCrashes
    BY <1>6 DEF Crash
  <2>4. QED
    BY <1>6, <2>1, <2>2, <2>3 DEF Crash
<1>7. CASE UNCHANGED vars
  BY <1>7 DEF vars
<1>8. QED
  BY <1>1, <1>2, <1>3, <1>4, <1>5, <1>6, <1>7 DEF Next

\* Every variable keeps its type.
THEOREM TypeCorrect == Spec => []TypeOK
  BY InitType, NextType, PTL DEF Spec

-----------------------------------------------------------------------------
(* The count                                                               *)

\* What the count needs: without a server nothing is counted.
CountInv == InflightAccounts /\ (~listening => Counted = {})

LEMMA CountsFinite ==
  /\ IsFiniteSet(Counted) /\ Cardinality(Counted) \in Nat
  /\ IsFiniteSet(Twice) /\ Cardinality(Twice) \in Nat
  BY ProxyAssumption, FS_Subset, FS_CardinalityType DEF Counted, Twice

\* A request that was counted is counted out, and not a second time.
LEMMA CountedOut ==
  ASSUME TypeOK, CountInv, NEW q \in Counted, CountOut,
         Counted' = Counted \ {q}, Twice' = Twice, listening' = listening
  PROVE  CountInv'
<1>1. Cardinality(Counted \ {q}) = Cardinality(Counted) - 1
  BY CountsFinite, FS_RemoveElement
<1>2. /\ Cardinality(Counted) # 0
      /\ inflight \in Nat /\ Cardinality(Counted) \in Nat
      /\ Cardinality(Twice) \in Nat
  BY CountsFinite, FS_EmptySet DEF TypeOK
<1>3. inflight' = IF inflight = 0 THEN 0 ELSE inflight - 1
  BY DEF CountOut
<1>4. QED
  BY <1>1, <1>2, <1>3 DEF CountInv, InflightAccounts

LEMMA CountStep ==
  ASSUME TypeOK, CountInv, [Next]_vars
  PROVE  CountInv'
<1> DEFINE C == Cardinality(Counted)
           T == Cardinality(Twice)
<1>0. /\ inflight \in Nat /\ C \in Nat /\ T \in Nat
      /\ inflight <= C /\ C <= inflight + T /\ (~listening => Counted = {})
  BY CountsFinite DEF TypeOK, CountInv, InflightAccounts
<1> USE ProxyAssumption DEF InProgress, Leaked, Goes, proxyVars, requestVars
<1>1. ASSUME NEW q \in Request, Accept(q) PROVE CountInv'
  <2>1. q \notin Counted /\ Counted' = Counted \cup {q} /\ Twice' = Twice
    BY <1>1 DEF Accept, Phase, Counted, Twice, TypeOK
  <2>2. Cardinality(Counted \cup {q}) = Cardinality(Counted) + 1
    BY <2>1, CountsFinite, FS_AddElement
  <2>3. inflight' = inflight + 1 /\ listening' = listening /\ listening
    BY <1>1 DEF Accept
  <2>4. QED
    BY <1>0, <2>1, <2>2, <2>3 DEF CountInv, InflightAccounts
<1>2. ASSUME NEW q \in Request, End(q) \/ Error(q) \/ UpstreamGone(q)
      PROVE  CountInv'
  <2>1. q \in Counted /\ Counted' = Counted \ {q} /\ Twice' = Twice
    BY <1>2 DEF End, Error, UpstreamGone, Phase, Counted, Twice, TypeOK
  <2>2. CountOut /\ listening' = listening
    BY <1>2 DEF End, Error, UpstreamGone
  <2>3. QED
    BY <2>1, <2>2, CountedOut
<1>3. ASSUME NEW q \in Request, LateError(q) PROVE CountInv'
  <2>1. q \notin Twice /\ Twice' = Twice \cup {q} /\ Counted' = Counted
    BY <1>3 DEF LateError, Phase, Counted, Twice, TypeOK
  <2>2. Cardinality(Twice \cup {q}) = Cardinality(Twice) + 1
    BY <2>1, CountsFinite, FS_AddElement
  <2>3. /\ inflight' = IF inflight = 0 THEN 0 ELSE inflight - 1
        /\ listening' = listening
    BY <1>3 DEF LateError, CountOut
  <2>4. QED
    BY <1>0, <2>1, <2>2, <2>3 DEF CountInv, InflightAccounts
<1>4. ASSUME NEW q \in Request,
             Headers(q) \/ Cut(q) \/ Abort(q) \/ TimeOut(q)
      PROVE  CountInv'
  <2>1. Counted' = Counted /\ Twice' = Twice
    BY <1>4 DEF Headers, Cut, Abort, TimeOut, Phase, Counted, Twice, TypeOK
  <2>2. QED
    BY <1>4, <2>1 DEF Headers, Cut, Abort, TimeOut, CountInv,
                      InflightAccounts
<1>5. ASSUME NEW u \in Upstream, Listen(u) PROVE CountInv'
  <2>1. Counted' = {} /\ Counted = {} /\ Twice' = Twice /\ inflight' = 0
    BY <1>0, <1>5 DEF Listen, Counted, Twice
  <2>2. C' = 0
    BY <2>1, FS_EmptySet
  <2>3. QED
    BY <1>0, <2>1, <2>2 DEF CountInv, InflightAccounts
<1>6. ASSUME UNCHANGED <<listening, inflight, phase>> PROVE CountInv'
  BY <1>0, <1>6 DEF CountInv, InflightAccounts, Counted, Twice
<1>7. ASSUME NEW u \in Upstream, Pipeline(u), ~Listen(u) PROVE CountInv'
  BY <1>6, <1>7 DEF Pipeline, GreenHealthy, GreenFails, SetTarget, Register,
              PortInUse, Drain, DrainExpires, RemoveBlue, Finish, RemoveGreen
<1>8. ASSUME NEW u \in Upstream, Replace(u) \/ RollBack(u)
      PROVE  CountInv'
  BY <1>6, <1>8 DEF Replace, RollBack
<1>9. CASE Crash
  <2>1. Counted' = {} /\ Twice' = {} /\ inflight' = 0
    BY <1>9 DEF Crash, Counted, Twice
  <2>2. QED
    BY <2>1, FS_EmptySet DEF CountInv, InflightAccounts
<1>10. CASE UNCHANGED vars
  BY <1>6, <1>10 DEF vars
<1>11. QED
  BY <1>1, <1>2, <1>3, <1>4, <1>5, <1>7, <1>8, <1>9, <1>10 DEF Next, Handle

LEMMA CountInvariant == Spec => []CountInv
<1>1. Init => CountInv
  <2> SUFFICES ASSUME Init PROVE CountInv
    OBVIOUS
  <2>1. Counted = {} /\ Twice = {}
    BY DEF Init, Counted, Twice, InProgress, Leaked
  <2>2. inflight = 0
    BY DEF Init
  <2>3. QED
    BY <2>1, <2>2, FS_EmptySet DEF CountInv, InflightAccounts
<1>2. QED
  BY <1>1, CountStep, TypeCorrect, PTL DEF Spec

\* For any number of requests, what drain waits for is at most the requests in
\* progress and the leaked ones, and is short of them by no more than the
\* requests that an error after the end of the answer counted out again.
THEOREM CountAccounts == Spec => []InflightAccounts
<1>1. CountInv => InflightAccounts
  BY DEF CountInv
<1>2. QED
  BY <1>1, CountInvariant, PTL

-----------------------------------------------------------------------------
(* What is dropped                                                         *)

Excused(u) == removal[u] \in {"expired", "rollback", "replaced"}
Begun(u)   == step[u] \notin {"idle", "building"}
Reached(u) == Begun(u) /\ (up[u] \/ Excused(u))
Gone(u)    == Begun(u) /\ ~up[u] /\ Excused(u)

\* One pipeline at a time for each service, and its green container runs from
\* the time it was found healthy.
PipelineInv ==
  /\ \A u, v \in Upstream :
       Active(u) /\ Active(v) /\ Service[u] = Service[v] => u = v
  /\ \A u \in Upstream : Active(u) /\ Begun(u) => up[u]
  /\ \A u \in Upstream : up[u] => Begun(u)

\* Who switched is not pointed back to the blue container it drains.
TargetInv ==
  /\ listening => target \in Upstream /\ Reached(target)
  /\ \A u \in Upstream :
       step[u] \in {"starting", "switched", "drained"} /\ Blue[u] # None
         => target # Blue[u]
  /\ \A u \in Upstream :
       removal[u] = "drained" => ~up[u] /\ Begun(u) /\ target # u

\* After a drain no request is with the blue container, if none was counted
\* out twice.
RequestsKept ==
  /\ \A q \in Request :
       phase[q] \in InProgress => via[q] \in Upstream /\ Reached(via[q])
  /\ \A q \in Request :
       phase[q] \in {"failed", "cut"} => via[q] \in Upstream /\ Gone(via[q])
  /\ \A u \in Upstream, q \in Request :
       step[u] = "drained" /\ phase[q] \in InProgress => via[q] # Blue[u]
RequestInv == Twice = {} => RequestsKept

\* The actions of the requests leave the pipelines alone, and those of the
\* pipelines the requests.
LEMMA Apart ==
  /\ \A q \in Request : Accept(q) \/ Handle(q) \/ Abort(q)
       => UNCHANGED <<listening, registered, target, deployVars>>
  /\ \A u \in Upstream : Replace(u) \/ Pipeline(u) \/ RollBack(u)
       => UNCHANGED requestVars
  BY DEF Accept, Handle, Headers, End, Error, UpstreamGone, LateError, TimeOut,
         Cut, Abort, proxyVars,
         Replace, Pipeline, GreenHealthy, GreenFails, SetTarget, Listen,
         Register, PortInUse, Drain, DrainExpires, RemoveBlue, Finish,
         RemoveGreen, RollBack

LEMMA PipelineStep ==
  ASSUME TypeOK, PipelineInv, [Next]_vars
  PROVE  PipelineInv'
<1> USE ProxyAssumption
    DEF TypeOK, PipelineInv, Active, Resting, Begun, Step, Steps,
        deployVars
<1>1. ASSUME NEW q \in Request, Accept(q) \/ Handle(q) \/ Abort(q)
      PROVE  PipelineInv'
  BY <1>1, Apart
<1>2. ASSUME NEW u \in Upstream,
             Replace(u) \/ GreenHealthy(u) \/ GreenFails(u)
      PROVE  PipelineInv'
  BY <1>2 DEF Replace, GreenHealthy, GreenFails, Greens
<1>3. ASSUME NEW u \in Upstream,
             SetTarget(u) \/ Listen(u) \/ Register(u) \/ PortInUse(u)
      PROVE  PipelineInv'
  BY <1>3 DEF SetTarget, Listen, Register, PortInUse
<1>4. ASSUME NEW u \in Upstream, Drain(u) \/ DrainExpires(u) \/ Finish(u)
      PROVE  PipelineInv'
  BY <1>4 DEF Drain, DrainExpires, Finish
<1>5. ASSUME NEW u \in Upstream, RemoveBlue(u) PROVE PipelineInv'
  <2>1. CASE BlueRuns(u)
    <3>1. Blue[u] \in Upstream /\ ~Active(Blue[u])
      BY <1>5, <2>1 DEF RemoveBlue, BlueRuns
    <3>2. QED
      BY <1>5, <2>1, <3>1 DEF RemoveBlue
  <2>2. CASE ~BlueRuns(u)
    BY <1>5, <2>2 DEF RemoveBlue
  <2>3. QED
    BY <2>1, <2>2
<1>6. ASSUME NEW u \in Upstream, RollBack(u) \/ RemoveGreen(u)
      PROVE  PipelineInv'
  BY <1>6 DEF RollBack, RemoveGreen
<1>7. CASE Crash
  BY <1>7 DEF Crash
<1>8. CASE UNCHANGED vars
  BY <1>8 DEF vars
<1>9. QED
  BY <1>1, <1>2, <1>3, <1>4, <1>5, <1>6, <1>7, <1>8 DEF Next, Pipeline

LEMMA TargetStep ==
  ASSUME TypeOK, PipelineInv, TargetInv, [Next]_vars
  PROVE  TargetInv'
<1> USE ProxyAssumption
    DEF TypeOK, PipelineInv, TargetInv, Active, Resting, Begun, Step, Steps,
        Reached, Excused, deployVars, proxyVars
<1>1. ASSUME NEW q \in Request, Accept(q) \/ Handle(q) \/ Abort(q)
      PROVE  TargetInv'
  BY <1>1, Apart
<1>2. ASSUME NEW u \in Upstream,
             Replace(u) \/ GreenHealthy(u) \/ GreenFails(u)
      PROVE  TargetInv'
  BY <1>2 DEF Replace, GreenHealthy, GreenFails, Greens
<1>3. ASSUME NEW u \in Upstream, SetTarget(u) \/ Listen(u) PROVE TargetInv'
  <2>1. Active(u) /\ up[u] /\ target' = u
    BY <1>3 DEF SetTarget, Listen
  <2>2. (listening => target \in Upstream /\ Reached(target))'
    BY <1>3, <2>1 DEF SetTarget, Listen
  <2>3. ASSUME NEW v \in Upstream, Blue[v] # None,
               step'[v] \in {"starting", "switched", "drained"}
        PROVE  u # Blue[v]
    BY <1>3, <2>3 DEF SetTarget, Listen
  <2>4. ASSUME NEW v \in Upstream, removal'[v] = "drained"
        PROVE  ~up'[v] /\ Begun(v)' /\ target' # v
    BY <1>3, <2>1, <2>4 DEF SetTarget, Listen
  <2>5. QED
    BY <2>1, <2>2, <2>3, <2>4
<1>4. ASSUME NEW u \in Upstream, Register(u) \/ PortInUse(u) PROVE TargetInv'
  BY <1>4 DEF Register, PortInUse
<1>5. ASSUME NEW u \in Upstream, Drain(u) \/ DrainExpires(u) \/ Finish(u)
      PROVE  TargetInv'
  BY <1>5 DEF Drain, DrainExpires, Finish
<1>6. ASSUME NEW u \in Upstream, RemoveBlue(u) PROVE TargetInv'
  <2>1. CASE BlueRuns(u)
    <3>1. /\ Blue[u] \in Upstream /\ Begun(Blue[u])
          /\ step[u] = "drained" => target # Blue[u]
      BY <1>6, <2>1 DEF RemoveBlue, BlueRuns
    <3>2. /\ removal' = [removal EXCEPT ![Blue[u]] = step[u]]
          /\ up' = [up EXCEPT ![Blue[u]] = FALSE]
          /\ step' = [step EXCEPT ![u] = "recording"]
          /\ step[u] \in {"drained", "expired"}
          /\ UNCHANGED <<listening, target>>
      BY <1>6, <2>1 DEF RemoveBlue
    <3>3. QED
      BY <3>1, <3>2
  <2>2. CASE ~BlueRuns(u)
    BY <1>6, <2>2 DEF RemoveBlue
  <2>3. QED
    BY <2>1, <2>2
<1>7. ASSUME NEW u \in Upstream, RemoveGreen(u) PROVE TargetInv'
  BY <1>7 DEF RemoveGreen, Removal
<1>8. ASSUME NEW u \in Upstream, RollBack(u) PROVE TargetInv'
  <2>1. CASE BlueRuns(u)
    <3>1. /\ Blue[u] \in Upstream /\ Blue[u] # None /\ up[Blue[u]]
          /\ target' = Blue[u]
      BY <1>8, <2>1 DEF RollBack, BlueRuns
    <3>2. ASSUME NEW v \in Upstream, Blue[v] # None,
                 step'[v] \in {"starting", "switched", "drained"}
          PROVE  target' # Blue[v]
      BY <1>8, <3>1, <3>2 DEF RollBack
    <3>3. QED
      BY <1>8, <3>1, <3>2 DEF RollBack
  <2>2. CASE ~BlueRuns(u)
    BY <1>8, <2>2 DEF RollBack
  <2>3. QED
    BY <2>1, <2>2
<1>9. CASE Crash
  BY <1>9 DEF Crash
<1>10. CASE UNCHANGED vars
  BY <1>10 DEF vars
<1>11. QED
  BY <1>1, <1>2, <1>3, <1>4, <1>5, <1>6, <1>7, <1>8, <1>9, <1>10
  DEF Next, Pipeline

\* Nothing that is counted, nothing in progress: what drain concludes.
LEMMA DrainedMeansNone ==
  ASSUME TypeOK, CountInv, inflight = 0, Twice = {}, NEW q \in Request
  PROVE  phase[q] \notin InProgress
<1>1. Cardinality(Counted) = 0
  BY CountsFinite, FS_EmptySet DEF CountInv, InflightAccounts
<1>2. Counted = {}
  BY <1>1, CountsFinite, FS_EmptySet
<1>3. QED
  BY <1>2 DEF Counted

LEMMA RequestStep ==
  ASSUME TypeOK, CountInv, PipelineInv, TargetInv, RequestInv, [Next]_vars
  PROVE  RequestInv'
<1> USE ProxyAssumption
    DEF TypeOK, RequestInv, RequestsKept, InProgress, Step, Steps, Begun,
        Reached, Gone, Excused
<1>1. CASE Crash
  BY <1>1 DEF Crash
<1> SUFFICES ASSUME ~Crash, Twice' = {} PROVE RequestsKept'
  BY <1>1
<1>2. Twice = {}
  BY DEF Next, Twice, Accept, Handle, Headers, End, Error, UpstreamGone,
         LateError, Cut, TimeOut, Abort, Goes, vars, requestVars,
         Replace, Pipeline, GreenHealthy, GreenFails, SetTarget, Listen,
         Register, PortInUse, Drain, DrainExpires, RemoveBlue, Finish,
         RemoveGreen, RollBack
<1>3. RequestsKept
  BY <1>2
<1>4. ASSUME NEW q \in Request, Accept(q) PROVE RequestsKept'
  <2>1. /\ target \in Upstream /\ Reached(target)
        /\ via' = [via EXCEPT ![q] = target]
        /\ phase' = [phase EXCEPT ![q] = "sent"]
        /\ UNCHANGED <<step, up, removal>>
    BY <1>4 DEF Accept, Goes, TargetInv, deployVars
  <2>2. ASSUME NEW u \in Upstream, step[u] = "drained" PROVE target # Blue[u]
    BY <2>1, <2>2 DEF TargetInv
  <2>3. QED
    BY <1>3, <2>1, <2>2
<1>5. ASSUME NEW q \in Request, Handle(q) \/ Abort(q) PROVE RequestsKept'
  <2>1. UNCHANGED <<step, up, removal>>
    BY <1>5, Apart DEF deployVars
  <2>2. /\ phase' = [phase EXCEPT ![q] = phase'[q]]
        /\ \A p \in Request \ {q} : via'[p] = via[p]
        /\ \/ phase'[q] \notin InProgress \cup {"failed", "cut"}
           \/ /\ phase[q] \in InProgress /\ via'[q] = via[q]
              /\ phase'[q] \in InProgress \/ ~up[via[q]]
    BY <1>5 DEF Handle, Headers, End, Error, UpstreamGone, LateError, TimeOut,
                Cut, Abort, Over, Goes
  <2>3. QED
    BY <1>3, <2>1, <2>2
<1>6. ASSUME NEW u \in Upstream, Replace(u) PROVE RequestsKept'
  BY <1>3, <1>6 DEF Replace, requestVars, Removal
<1>7. ASSUME NEW u \in Upstream, GreenHealthy(u) \/ GreenFails(u)
      PROVE  RequestsKept'
  BY <1>3, <1>7 DEF GreenHealthy, GreenFails, requestVars
<1>8. ASSUME NEW u \in Upstream,
             SetTarget(u) \/ Listen(u) \/ Register(u) \/ PortInUse(u)
      PROVE  RequestsKept'
  BY <1>3, <1>8 DEF SetTarget, Listen, Register, PortInUse, requestVars
<1>9. ASSUME NEW u \in Upstream, Drain(u) PROVE RequestsKept'
  BY <1>2, <1>3, <1>9, DrainedMeansNone DEF Drain, requestVars
<1>10. ASSUME NEW u \in Upstream, DrainExpires(u) \/ Finish(u)
       PROVE  RequestsKept'
  BY <1>3, <1>10 DEF DrainExpires, Finish, requestVars
<1>11. ASSUME NEW u \in Upstream, RemoveBlue(u) PROVE RequestsKept'
  <2>1. CASE BlueRuns(u)
    <3>1. /\ Blue[u] \in Upstream /\ up[Blue[u]] /\ Begun(Blue[u])
          /\ removal' = [removal EXCEPT ![Blue[u]] = step[u]]
          /\ up' = [up EXCEPT ![Blue[u]] = FALSE]
          /\ step' = [step EXCEPT ![u] = "recording"]
          /\ step[u] \in {"drained", "expired"}
          /\ UNCHANGED <<phase, via>>
      BY <1>11, <2>1 DEF RemoveBlue, BlueRuns, requestVars, PipelineInv
    <3>2. QED
      BY <1>3, <3>1
  <2>2. CASE ~BlueRuns(u)
    BY <1>3, <1>11, <2>2 DEF RemoveBlue, requestVars
  <2>3. QED
    BY <2>1, <2>2
<1>12. ASSUME NEW u \in Upstream, RollBack(u) \/ RemoveGreen(u)
      PROVE  RequestsKept'
  BY <1>3, <1>12 DEF RollBack, RemoveGreen, requestVars, Removal
<1>13. CASE UNCHANGED vars
  BY <1>3, <1>13 DEF vars, requestVars, deployVars
<1>14. QED
  BY <1>4, <1>5, <1>6, <1>7, <1>8, <1>9, <1>10, <1>11, <1>12, <1>13
  DEF Next, Pipeline

DropInv == PipelineInv /\ TargetInv /\ RequestInv

LEMMA DropInvariant == Spec => []DropInv
<1>1. Init => DropInv
  <2> SUFFICES ASSUME Init PROVE DropInv
    OBVIOUS
  <2>1. PipelineInv
    BY ProxyAssumption DEF Init, PipelineInv, Active, Resting, Begun
  <2>2. TargetInv
    BY ProxyAssumption DEF Init, TargetInv
  <2>3. RequestInv
    BY ProxyAssumption DEF Init, RequestInv, RequestsKept, InProgress
  <2>4. QED
    BY <2>1, <2>2, <2>3 DEF DropInv
<1>2. TypeOK /\ CountInv /\ DropInv /\ [Next]_vars => DropInv'
  BY PipelineStep, TargetStep, RequestStep DEF DropInv
<1>3. QED
  BY <1>1, <1>2, TypeCorrect, CountInvariant, PTL DEF Spec

\* For any number of requests and deploys and any deaths of the process, a
\* request that got no answer, or half of one, was with a container that was
\* removed after the grace period, by a rollback or by the next deploy for its
\* name, and not with one that was drained; unless some request was counted
\* out twice.
THEOREM DrainedDropsNothing == Spec => []DrainDropsNone
<1>1. DropInv => DrainDropsNone
  BY DEF DropInv, RequestInv, RequestsKept, Gone, Excused, DrainDropsNone
<1>2. QED
  BY <1>1, DropInvariant, PTL

\* The proxy is never pointed at a container that was removed after a drain.
THEOREM TargetIsNotDrained == Spec => []DrainedIsUnused
<1>1. DropInv => DrainedIsUnused
  BY DEF DropInv, TargetInv, DrainedIsUnused
<1>2. QED
  BY <1>1, DropInvariant, PTL

-----------------------------------------------------------------------------
(* One server                                                              *)

\* A pipeline that starts a proxy holds the port and is alone with it.
StartInv ==
  /\ registered => listening
  /\ \A u \in Upstream : step[u] = "starting" => listening /\ ~registered
  /\ \A u, v \in Upstream :
       step[u] = "starting" /\ step[v] = "starting" => u = v
  /\ listening /\ ~registered => \E u \in Upstream : step[u] = "starting"

LEMMA StartStep ==
  ASSUME TypeOK, StartInv, [Next]_vars
  PROVE  StartInv'
<1> USE DEF TypeOK, StartInv, Steps, proxyVars
<1>1. ASSUME NEW q \in Request, Accept(q) \/ Handle(q) \/ Abort(q)
      PROVE  StartInv'
  BY <1>1, Apart DEF deployVars
<1>2. ASSUME NEW u \in Upstream, UNCHANGED <<listening, registered>>,
             step[u] # "starting",
             \E t \in Step \ {"starting"} : step' = [step EXCEPT ![u] = t]
      PROVE  StartInv'
  <2>1. \A v \in Upstream : step'[v] = "starting" <=> step[v] = "starting"
    BY <1>2
  <2>2. QED
    BY <1>2, <2>1
<1>3. ASSUME NEW u \in Upstream,
             \/ Replace(u) \/ GreenHealthy(u) \/ GreenFails(u) \/ RollBack(u)
      PROVE  StartInv'
  BY <1>2, <1>3 DEF Replace, GreenHealthy, GreenFails, RollBack, Step
<1>4. ASSUME NEW u \in Upstream,
             \/ SetTarget(u) \/ PortInUse(u) \/ Drain(u) \/ DrainExpires(u)
             \/ RemoveBlue(u) \/ Finish(u) \/ RemoveGreen(u)
      PROVE  StartInv'
  <2>1. step[u] # "starting" /\ UNCHANGED <<listening, registered>>
    BY <1>4 DEF SetTarget, PortInUse, Drain, DrainExpires, RemoveBlue, Finish,
                RemoveGreen
  <2>2. \E t \in Step \ {"starting"} : step' = [step EXCEPT ![u] = t]
    BY <1>4 DEF SetTarget, PortInUse, Drain, DrainExpires, RemoveBlue, Finish,
                RemoveGreen, Step
  <2>3. QED
    BY <1>2, <2>1, <2>2
<1>5. ASSUME NEW u \in Upstream, Listen(u) PROVE StartInv'
  <2>1. /\ step' = [step EXCEPT ![u] = "starting"]
        /\ listening' /\ ~registered'
        /\ \A v \in Upstream : step[v] # "starting"
    BY <1>5 DEF Listen
  <2>2. QED
    BY <2>1
<1>6. ASSUME NEW u \in Upstream, Register(u) PROVE StartInv'
  <2>1. /\ step' = [step EXCEPT ![u] = "switched"] /\ step[u] = "starting"
        /\ registered' /\ listening' = listening
    BY <1>6 DEF Register
  <2>2. QED
    BY <2>1
<1>7. CASE Crash
  BY <1>7 DEF Crash
<1>8. CASE UNCHANGED vars
  BY <1>8 DEF vars, deployVars
<1>9. QED
  BY <1>1, <1>3, <1>4, <1>5, <1>6, <1>7, <1>8 DEF Next, Pipeline

\* The registry only has a proxy that listens, and one that listens and is not
\* yet registered is being started by exactly one pipeline, for any number of
\* pipelines behind the port.
THEOREM PortHasOneServer == Spec => []OneProxy
<1>1. Init => StartInv
  BY DEF Init, StartInv
<1>2. TypeOK /\ StartInv /\ [Next]_vars => StartInv'
  BY StartStep
<1>3. StartInv => OneProxy
  BY DEF StartInv, OneProxy
<1>4. QED
  BY <1>1, <1>2, <1>3, TypeCorrect, PTL DEF Spec
=============================================================================
