---------------------------- MODULE Deploy_proofs ----------------------------
(***************************************************************************)
(* For every set of runs, environments and ports, whatever throws: the     *)
(* deploy lock never lets two RUNNING pipelines of one environment         *)
(* through, and, as long as nobody else writes the state of a run, it      *)
(* makes the record of truth safe without a transaction; a rollback leaves *)
(* no green container; and first deploys drop no request, are recorded as  *)
(* they are served, and are rolled back to what was served before.         *)
(***************************************************************************)
EXTENDS Deploy, TLAPS

USE DEF Finished

\* Every variable keeps its type.
LEMMA InitType == Init => TypeOK
<1> SUFFICES ASSUME Init PROVE TypeOK
  OBVIOUS
<1> USE DeployAssumption
<1>1. container \in [Name -> Container]
  <2> SUFFICES ASSUME NEW n \in Name PROVE container[n] \in Container
    BY DEF Init
  <2>1. CASE \E s \in Seed : n = blueName(s)
    <3> DEFINE s == CHOOSE s \in Seed : n = blueName(s)
    <3>1. s \in Seed
      BY <2>1
    <3>2. container[n] = [up |-> TRUE, port |-> SeedPort[s], version |-> s]
      BY <2>1 DEF Init
    <3>3. QED
      BY <3>1, <3>2 DEF Container, Version
  <2>2. CASE ~ \E s \in Seed : n = blueName(s)
    BY <2>2 DEF Init, Container, Absent
  <2>3. QED
    BY <2>1, <2>2
<1>2. target \in Port \cup {NoPort}
  BY DEF Init
<1>3. /\ state \in [Run -> RunState]
      /\ pc \in [Run -> Step]
      /\ base \in [Run -> Version \cup {None}]
      /\ port \in [Run -> Port \cup {NoPort}]
      /\ started \in [Run -> BOOLEAN]
      /\ switched \in [Run -> BOOLEAN]
      /\ prev \in [Run -> Version \cup {None}]
  BY DEF Init, RunState, Step, Request
<1>4. /\ status \in [Version -> Status]
      /\ deployedAt \in [Version -> Nat]
      /\ clock \in Nat
      /\ cancelling \subseteq Run
  BY DEF Init, Status
<1>5. /\ rb \in [Run -> RbStep]
      /\ rbCurrent \in [Run -> Version \cup {None}]
      /\ rbPrevious \in [Run -> Version \cup {None}]
      /\ watch \in [Run -> WatchState]
      /\ fails \in [Run -> Nat]
      /\ crashes \in 0..MaxCrashes
  BY DEF Init, RbStep, WatchState
<1>6. QED
  BY <1>1, <1>2, <1>3, <1>4, <1>5 DEF TypeOK

\* Starting or stopping a container leaves it a container.
LEMMA UpType ==
  ASSUME NEW k \in [Name -> Container], NEW n \in Name, NEW x \in BOOLEAN
  PROVE  [k EXCEPT ![n].up = x] \in [Name -> Container]
<1>1. k[n] \in Container
  OBVIOUS
<1>2. [k[n] EXCEPT !.up = x] \in Container
  BY <1>1 DEF Container
<1>3. QED
  BY <1>2

\* So does stopAndRemove.
LEMMA RemoveType ==
  ASSUME TypeOK, NEW m \in Name, Remove(m)
  PROVE  container' \in [Name -> Container]
<1>1. Absent \in Container
  BY DEF Absent, Container
<1>2. [container EXCEPT ![m] = Absent] \in [Name -> Container]
  BY <1>1 DEF TypeOK
<1>3. [container EXCEPT ![m].up = FALSE] \in [Name -> Container]
  BY UpType DEF TypeOK
<1>4. QED
  BY <1>2, <1>3 DEF Remove, TypeOK

LEMMA NextType == TypeOK /\ [Next]_vars => TypeOK'
<1> SUFFICES ASSUME TypeOK, [Next]_vars PROVE TypeOK'
  OBVIOUS
<1> USE DeployAssumption
    DEF TypeOK, runVars, localVars, dockerVars, recordVars, rbVars, watchVars,
        RunState, Step, Request, Pipeline, Closing, Undo, Ended, Status,
        RbStep, WatchState, Version
<1>1. ASSUME NEW r \in Run, Plan(r) PROVE TypeOK'
  BY <1>1 DEF Plan, Moves
<1>2. ASSUME NEW r \in Run, Forward(r) PROVE TypeOK'
  <2>1. CASE CreateRun(r)
    BY <2>1 DEF CreateRun, Moves
  <2>2. CASE MarkRunning(r)
    BY <2>2 DEF MarkRunning, Moves
  <2>3. CASE PassLock(r)
    BY <2>3 DEF PassLock, Moves
  <2>4. CASE FailLock(r)
    BY <2>4 DEF FailLock, Moves
  <2>5. CASE PickPort(r)
    BY <2>5 DEF PickPort, Moves, Free
  <2>6. CASE PlayStartGreen(r)
    BY <2>6 DEF PlayStartGreen, Moves, Put, greenName, Name, Container
  <2>7. CASE PlayStopBlue(r)
    <3>1. container' \in [Name -> Container]
      <4>1. blueName(r) \in Name
        BY DEF blueName, Name
      <4>2. QED
        BY <4>1, <2>7, UpType DEF PlayStopBlue
    <3>2. QED
      BY <3>1, <2>7 DEF PlayStopBlue, Moves
  <2>8. CASE PlayFails(r)
    BY <2>8 DEF PlayFails, Moves
  <2>9. CASE RemoveGreen(r)
    <3>1. greenName(r) \in Name
      BY DEF greenName, Name
    <3>2. container' \in [Name -> Container]
      BY <2>9, <3>1, RemoveType DEF RemoveGreen
    <3>3. QED
      BY <2>9, <3>2 DEF RemoveGreen, Moves
  <2>10. CASE StartGreen(r)
    BY <2>10 DEF StartGreen, Moves, Put, greenName, Name, Container
  <2>11. CASE StartGreenPortTaken(r)
    BY <2>11 DEF StartGreenPortTaken, Moves, Put, greenName, Name, Container
  <2>12. CASE Probe(r)
    BY <2>12 DEF Probe, Moves
  <2>13. CASE Switch(r)
    BY <2>13 DEF Switch, Moves
  <2>14. CASE RemoveBlue(r)
    <3>1. blueName(r) \in Name
      BY DEF blueName, Name
    <3>2. container' \in [Name -> Container]
      BY <2>14, <3>1, RemoveType DEF RemoveBlue
    <3>3. QED
      BY <2>14, <3>2 DEF RemoveBlue, Moves
  <2>15. CASE ReadActive(r)
    BY <2>15 DEF ReadActive, Moves
  <2>16. CASE Supersede(r)
    BY <2>16 DEF Supersede, Moves
  <2>17. CASE Record(r)
    BY <2>17 DEF Record, Moves
  <2>18. CASE Succeed(r)
    BY <2>18 DEF Succeed, Moves
  <2>19. CASE StartWatch(r)
    BY <2>19 DEF StartWatch, Moves
  <2>20. CASE PlayDone(r)
    BY <2>20 DEF PlayDone, Moves
  <2>21. QED
    BY <1>2, <2>1, <2>2, <2>3, <2>4, <2>5, <2>6, <2>7, <2>8, <2>9, <2>10,
       <2>11, <2>12, <2>13, <2>14, <2>15, <2>16, <2>17, <2>18, <2>19, <2>20
       DEF Forward
<1>3. ASSUME NEW r \in Run, Backward(r) PROVE TypeOK'
  <2>1. CASE Throw(r)
    BY <2>1 DEF Throw, Moves
  <2>2. CASE Repoint(r)
    BY <2>2 DEF Repoint, Moves, PointAt, blueName, Name, Container
  <2>3. CASE UndoGreen(r)
    <3>1. container' \in [Name -> Container]
      <4>1. greenName(r) \in Name
        BY DEF greenName, Name
      <4>2. QED
        BY <2>3, <4>1, RemoveType DEF UndoGreen
    <3>2. QED
      BY <3>1, <2>3 DEF UndoGreen, Moves
  <2>4. CASE UndoPlay(r)
    <3> DEFINE b == blueName(r)
               g == greenName(r)
               startable == Exists(b) /\ ~Bound(container[b].port)
               one == [container EXCEPT ![b].up = @ \/ startable]
               both == [one EXCEPT ![g].up = FALSE]
    <3>1. one \in [Name -> Container]
      <4>1. b \in Name
        BY DEF blueName, Name
      <4>2. (container[b].up \/ startable) \in BOOLEAN
        OBVIOUS
      <4>3. QED
        BY <4>1, <4>2, UpType
    <3>2. both \in [Name -> Container]
      <4> HIDE DEF one
      <4>1. g \in Name
        BY DEF greenName, Name
      <4>2. QED
        BY <4>1, <3>1, UpType
    <3>3. container' \in {container, both}
      BY <2>4 DEF UndoPlay
    <3>4. container' \in [Name -> Container]
      BY <3>2, <3>3
    <3>5. QED
      BY <3>4, <2>4 DEF UndoPlay, Moves
  <2>5. CASE UndoRecord(r)
    BY <2>5 DEF UndoRecord, Moves
  <2>6. CASE UndoFails(r) \/ GiveUp(r)
    BY <2>6 DEF UndoFails, GiveUp, Moves
  <2>7. QED
    BY <1>3, <2>1, <2>2, <2>3, <2>4, <2>5, <2>6 DEF Backward
<1>4. ASSUME NEW r \in Run, CancelGuard(r) \/ CancelWrite(r) PROVE TypeOK'
  <2>1. CASE CancelGuard(r)
    BY <2>1 DEF CancelGuard
  <2>2. CASE CancelWrite(r)
    BY <2>2 DEF CancelWrite
  <2>3. QED
    BY <1>4, <2>1, <2>2
<1>5. ASSUME NEW r \in Run, OperatorRollback(r) PROVE TypeOK'
  BY <1>5 DEF OperatorRollback, RbFindCurrent, RbMoves
<1>6. ASSUME NEW r \in Run, ManualRollback(r) PROVE TypeOK'
  <2>1. CASE RbRepoint(r)
    BY <2>1 DEF RbRepoint, RbMoves, PointAt, blueName, Name, Container
  <2>2. CASE RbRemoveGreen(r)
    <3>1. greenName(r) \in Name
      BY DEF greenName, Name
    <3>2. container' \in [Name -> Container]
      BY <2>2, <3>1, RemoveType DEF RbRemoveGreen
    <3>3. QED
      BY <2>2, <3>2 DEF RbRemoveGreen, RbMoves
  <2>3. CASE RbDemote(r)
    BY <2>3 DEF RbDemote, RbMoves
  <2>4. CASE RbPromote(r)
    BY <2>4 DEF RbPromote, RbMoves
  <2>5. CASE RbRecord(r)
    BY <2>5 DEF RbRecord, RbMoves
  <2>6. CASE RbFindPrevious(r)
    BY <2>6 DEF RbFindPrevious, RbMoves
  <2>7. CASE RbFindsNone(r) \/ RbFails(r)
    BY <2>7 DEF RbFindsNone, RbFails, RbMoves
  <2>8. QED
    BY <1>6, <2>1, <2>2, <2>3, <2>4, <2>5, <2>6, <2>7 DEF ManualRollback
<1>7. ASSUME NEW r \in Run, Watch(r) PROVE TypeOK'
  <2>1. CASE CheckOk(r)
    BY <2>1 DEF CheckOk
  <2>2. CASE CheckFails(r)
    <3>1. fails' \in [Run -> Nat]
      BY <2>2 DEF CheckFails
    <3>2. watch' \in [Run -> WatchState]
      BY <2>2 DEF CheckFails
    <3>3. QED
      BY <3>1, <3>2, <2>2 DEF CheckFails
  <2>3. CASE OnDegrade(r)
    BY <2>3 DEF OnDegrade, WatchDegraded, RbFindCurrent, RbMoves
  <2>4. CASE DegradedOnly(r)
    BY <2>4 DEF DegradedOnly, WatchDegraded
  <2>5. CASE WatchEnds(r)
    BY <2>5 DEF WatchEnds
  <2>6. CASE WatchBreaks(r)
    BY <2>6 DEF WatchBreaks
  <2>7. QED
    BY <1>7, <2>1, <2>2, <2>3, <2>4, <2>5, <2>6 DEF Watch
<1>8. CASE Crash
  BY <1>8 DEF Crash
<1>9. CASE UNCHANGED vars
  BY <1>9 DEF vars
<1>10. QED
  BY <1>1, <1>2, <1>3, <1>4, <1>5, <1>6, <1>7, <1>8, <1>9 DEF Next

\* The type invariant holds for every value of the constants.
THEOREM TypeCorrect == Spec => []TypeOK
  BY InitType, NextType, PTL DEF Spec

-----------------------------------------------------------------------------
(* The lock                                                                *)

\* The lock is the only way into the pipeline.
LEMMA LockIsTheDoor ==
  ASSUME TypeOK, [Next]_vars, NEW q \in Run, InPipeline(q)'
  PROVE  InPipeline(q) \/ PassLock(q)
<1> USE DEF TypeOK, InPipeline, Pipeline, Moves
<1>1. ASSUME NEW r \in Run, Plan(r) PROVE InPipeline(q)
  BY <1>1 DEF Plan
<1>2. ASSUME NEW r \in Run, Forward(r) PROVE InPipeline(q) \/ PassLock(q)
  <2>1. CASE PassLock(r)
    BY <2>1 DEF PassLock
  <2>2. CASE CreateRun(r) \/ MarkRunning(r) \/ FailLock(r)
    BY <2>2 DEF CreateRun, MarkRunning, FailLock
  <2>3. CASE \/ PickPort(r) \/ PlayStartGreen(r) \/ PlayStopBlue(r)
             \/ PlayDone(r) \/ PlayFails(r) \/ RemoveGreen(r) \/ StartGreen(r)
             \/ StartGreenPortTaken(r)
    BY <2>3 DEF PickPort, PlayStartGreen, PlayStopBlue, PlayDone,
                PlayFails, RemoveGreen, StartGreen, StartGreenPortTaken
  <2>4. CASE \/ Probe(r) \/ Switch(r) \/ RemoveBlue(r) \/ ReadActive(r)
             \/ Supersede(r) \/ Record(r) \/ Succeed(r) \/ StartWatch(r)
    BY <2>4 DEF Probe, Switch, RemoveBlue, ReadActive, Supersede, Record,
                Succeed, StartWatch
  <2>5. QED
    BY <1>2, <2>1, <2>2, <2>3, <2>4 DEF Forward
<1>3. ASSUME NEW r \in Run, Backward(r) PROVE InPipeline(q)
  BY <1>3 DEF Backward, Throw, Repoint, UndoGreen, UndoPlay, UndoRecord,
              UndoFails, GiveUp
<1>4. ASSUME NEW r \in Run, CancelGuard(r) \/ CancelWrite(r)
      PROVE  InPipeline(q)
  BY <1>4 DEF CancelGuard, CancelWrite, runVars
<1>5. ASSUME NEW r \in Run, OperatorRollback(r) \/ ManualRollback(r)
      PROVE  InPipeline(q)
  BY <1>5 DEF OperatorRollback, ManualRollback, RbFindPrevious, RbFindsNone,
              RbFails, RbRepoint, RbRemoveGreen, RbDemote, RbPromote, RbRecord,
              runVars
<1>6. ASSUME NEW r \in Run, Watch(r) PROVE InPipeline(q)
  BY <1>6 DEF Watch, CheckOk, CheckFails, OnDegrade, DegradedOnly, WatchEnds,
              WatchBreaks, runVars
<1>7. CASE Crash
  BY <1>7 DEF Crash
<1>8. CASE UNCHANGED vars
  BY <1>8 DEF vars, runVars
<1>9. QED
  BY <1>1, <1>2, <1>3, <1>4, <1>5, <1>6, <1>7, <1>8 DEF Next

\* A run becomes RUNNING before its lock, and never again.
LEMMA RunningIsMarked ==
  ASSUME TypeOK, [Next]_vars, NEW q \in Run, state'[q] = "RUNNING"
  PROVE  state[q] = "RUNNING" \/ MarkRunning(q)
<1> USE DEF TypeOK, runVars
<1>1. ASSUME NEW r \in Run, Plan(r) PROVE state[q] = "RUNNING"
  BY <1>1 DEF Plan
<1>2. ASSUME NEW r \in Run, Forward(r)
      PROVE  state[q] = "RUNNING" \/ MarkRunning(q)
  <2>1. CASE MarkRunning(r)
    BY <2>1 DEF MarkRunning
  <2>2. CASE CreateRun(r) \/ FailLock(r) \/ Succeed(r)
    BY <2>2 DEF CreateRun, FailLock, Succeed
  <2>3. CASE \/ PassLock(r) \/ PickPort(r) \/ PlayStartGreen(r)
             \/ PlayStopBlue(r) \/ PlayDone(r) \/ PlayFails(r)
             \/ RemoveGreen(r)
             \/ StartGreen(r) \/ StartGreenPortTaken(r)
    BY <2>3 DEF PassLock, PickPort, PlayStartGreen, PlayStopBlue, PlayDone,
                PlayFails, RemoveGreen, StartGreen, StartGreenPortTaken
  <2>4. CASE \/ Probe(r) \/ Switch(r) \/ RemoveBlue(r) \/ ReadActive(r)
             \/ Supersede(r) \/ Record(r) \/ StartWatch(r)
    BY <2>4 DEF Probe, Switch, RemoveBlue, ReadActive, Supersede, Record,
                StartWatch
  <2>5. QED
    BY <1>2, <2>1, <2>2, <2>3, <2>4 DEF Forward
<1>3. ASSUME NEW r \in Run, Backward(r) PROVE state[q] = "RUNNING"
  BY <1>3 DEF Backward, Throw, Repoint, UndoGreen, UndoPlay, UndoRecord,
              UndoFails, GiveUp
<1>4. ASSUME NEW r \in Run, CancelGuard(r) \/ CancelWrite(r)
      PROVE  state[q] = "RUNNING"
  BY <1>4 DEF CancelGuard, CancelWrite
<1>5. ASSUME NEW r \in Run, OperatorRollback(r) \/ ManualRollback(r)
      PROVE  state[q] = "RUNNING"
  BY <1>5 DEF OperatorRollback, ManualRollback, RbFindPrevious, RbFindsNone,
              RbFails, RbRepoint, RbRemoveGreen, RbDemote, RbPromote, RbRecord
<1>6. ASSUME NEW r \in Run, Watch(r) PROVE state[q] = "RUNNING"
  BY <1>6 DEF Watch, CheckOk, CheckFails, OnDegrade, DegradedOnly, WatchEnds,
              WatchBreaks
<1>7. CASE Crash
  BY <1>7 DEF Crash
<1>8. CASE UNCHANGED vars
  BY <1>8 DEF vars
<1>9. QED
  BY <1>1, <1>2, <1>3, <1>4, <1>5, <1>6, <1>7, <1>8 DEF Next

\* Two runs past the lock were RUNNING when the later of them passed it.
LEMMA LockExcludes == TypeOK /\ OneRunningPipeline /\ [Next]_vars
                        => OneRunningPipeline'
<1> SUFFICES ASSUME TypeOK, OneRunningPipeline, [Next]_vars,
                    NEW q \in Run, NEW r \in Run,
                    InPipeline(q)', InPipeline(r)', env(q) = env(r),
                    state'[q] = "RUNNING", state'[r] = "RUNNING",
                    q # r
             PROVE  FALSE
  BY DEF OneRunningPipeline, env
<1>1. ASSUME NEW p \in Run, PassLock(p)
      PROVE  state' = state /\ ~OtherRunning(p)
  BY <1>1 DEF PassLock
<1>2. CASE PassLock(q)
  BY <1>1, <1>2 DEF OtherRunning
<1>3. CASE PassLock(r)
  BY <1>1, <1>3 DEF OtherRunning
<1>4. CASE InPipeline(q) /\ InPipeline(r)
  <2>1. ~MarkRunning(q) /\ ~MarkRunning(r)
    BY <1>4 DEF InPipeline, Pipeline, MarkRunning, Moves
  <2>2. state[q] = "RUNNING" /\ state[r] = "RUNNING"
    BY <2>1, RunningIsMarked
  <2>3. QED
    BY <1>4, <2>2 DEF OneRunningPipeline
<1>5. QED
  BY <1>2, <1>3, <1>4, LockIsTheDoor

\* The lock of runDeploy holds whatever throws, whoever cancels, rolls back or
\* is lost: no two RUNNING pipelines of one environment are past it.
THEOREM LockIsExclusive == Spec => []OneRunningPipeline
<1>1. Init => OneRunningPipeline
  BY DEF Init, OneRunningPipeline, InPipeline, Pipeline
<1>2. QED
  BY <1>1, TypeCorrect, LockExcludes, PTL DEF Spec

-----------------------------------------------------------------------------
(* Nobody but its pipeline writes the state of a run                       *)

\* A run between its lock and its end says so in its row, and no request
\* that would change the row is under way.
Quiet ==
  /\ cancelling = {}
  /\ \A r \in Run : /\ rb[r] = "idle"
                    /\ pc[r] = "lock" \/ Working(r) => state[r] = "RUNNING"

LEMMA QuietStep ==
  ASSUME TypeOK, Undisturbed, Quiet, [Next]_vars
  PROVE  Quiet'
<1> USE DEF TypeOK, Undisturbed, Quiet, Working, Pipeline, Undo, Moves,
            runVars, rbVars
<1>1. ASSUME NEW r \in Run, Plan(r) PROVE Quiet'
  BY <1>1 DEF Plan
<1>2. ASSUME NEW r \in Run, Forward(r) PROVE Quiet'
  <2>1. CASE \/ CreateRun(r) \/ MarkRunning(r) \/ PassLock(r) \/ FailLock(r)
    BY <2>1 DEF CreateRun, MarkRunning, PassLock, FailLock
  <2>2. CASE \/ PickPort(r) \/ PlayStartGreen(r) \/ PlayStopBlue(r)
             \/ PlayDone(r)
    BY <2>2 DEF PickPort, PlayStartGreen, PlayStopBlue, PlayDone
  <2>3. CASE \/ PlayFails(r) \/ RemoveGreen(r) \/ StartGreen(r)
             \/ StartGreenPortTaken(r)
    BY <2>3 DEF PlayFails, RemoveGreen, StartGreen, StartGreenPortTaken
  <2>4. CASE Probe(r) \/ Switch(r) \/ RemoveBlue(r) \/ ReadActive(r)
    BY <2>4 DEF Probe, Switch, RemoveBlue, ReadActive
  <2>5. CASE Supersede(r) \/ Record(r) \/ Succeed(r) \/ StartWatch(r)
    BY <2>5 DEF Supersede, Record, Succeed, StartWatch
  <2>6. QED
    BY <1>2, <2>1, <2>2, <2>3, <2>4, <2>5 DEF Forward
<1>3. ASSUME NEW r \in Run, Backward(r) PROVE Quiet'
  <2>1. CASE Throw(r)
    <3>1. pc[r] \in Pipeline
      BY <2>1 DEF Throw, Throws
    <3>2. QED
      BY <2>1, <3>1 DEF Throw
  <2>2. CASE Repoint(r) \/ UndoGreen(r) \/ UndoPlay(r) \/ UndoRecord(r)
             \/ UndoFails(r) \/ GiveUp(r)
    BY <2>2 DEF Repoint, UndoGreen, UndoPlay, UndoRecord, UndoFails, GiveUp
  <2>3. QED
    BY <1>3, <2>1, <2>2 DEF Backward
<1>4. ASSUME NEW r \in Run, CancelGuard(r) \/ CancelWrite(r) PROVE Quiet'
  BY <1>4 DEF CancelGuard, CancelWrite
<1>5. ASSUME NEW r \in Run, OperatorRollback(r) \/ ManualRollback(r)
      PROVE  Quiet'
  BY <1>5 DEF OperatorRollback, ManualRollback, RbFindPrevious, RbFindsNone,
              RbFails, RbRepoint, RbRemoveGreen, RbDemote, RbPromote, RbRecord,
              RbMoves
<1>6. ASSUME NEW r \in Run, Watch(r) PROVE Quiet'
  BY <1>6 DEF Watch, CheckOk, CheckFails, OnDegrade, DegradedOnly, WatchEnds,
              WatchBreaks
<1>7. CASE Crash
  BY <1>7 DEF Crash
<1>8. CASE UNCHANGED vars
  BY <1>8 DEF vars
<1>9. QED
  BY <1>1, <1>2, <1>3, <1>4, <1>5, <1>6, <1>7, <1>8 DEF Next

\* The undo is entered from the pipeline only.
LEMMA WorkStartsAtTheLock ==
  ASSUME TypeOK, Undisturbed, [Next]_vars, NEW q \in Run, Working(q)'
  PROVE  Working(q) \/ PassLock(q)
<1>1. CASE InPipeline(q)'
  BY <1>1, LockIsTheDoor DEF InPipeline, Working
<1>2. CASE ~InPipeline(q)'
  <2> USE <1>2 DEF TypeOK, InPipeline, Working, Pipeline, Undo, Moves, runVars
  <2>1. ASSUME NEW r \in Run, Plan(r) PROVE Working(q)
    BY <2>1 DEF Plan
  <2>2. ASSUME NEW r \in Run, Forward(r) PROVE Working(q)
    <3>1. CASE \/ CreateRun(r) \/ MarkRunning(r) \/ PassLock(r) \/ FailLock(r)
      BY <3>1 DEF CreateRun, MarkRunning, PassLock, FailLock
    <3>2. CASE \/ PickPort(r) \/ PlayStartGreen(r) \/ PlayStopBlue(r)
               \/ PlayDone(r) \/ PlayFails(r)
      BY <3>2 DEF PickPort, PlayStartGreen, PlayStopBlue, PlayDone, PlayFails
    <3>3. CASE \/ RemoveGreen(r) \/ StartGreen(r) \/ StartGreenPortTaken(r)
               \/ Probe(r) \/ Switch(r) \/ RemoveBlue(r)
      BY <3>3 DEF RemoveGreen, StartGreen, StartGreenPortTaken, Probe, Switch,
                  RemoveBlue
    <3>4. CASE \/ ReadActive(r) \/ Supersede(r) \/ Record(r) \/ Succeed(r)
               \/ StartWatch(r)
      BY <3>4 DEF ReadActive, Supersede, Record, Succeed, StartWatch
    <3>5. QED
      BY <2>2, <3>1, <3>2, <3>3, <3>4 DEF Forward
  <2>3. ASSUME NEW r \in Run, Backward(r) PROVE Working(q)
    BY <2>3 DEF Backward, Throw, Throws, Undisturbed, Repoint, UndoGreen,
                UndoPlay, UndoRecord, UndoFails, GiveUp
  <2>4. ASSUME NEW r \in Run,
               \/ CancelGuard(r) \/ CancelWrite(r) \/ OperatorRollback(r)
               \/ ManualRollback(r)
        PROVE  Working(q)
    BY <2>4 DEF CancelGuard, CancelWrite, OperatorRollback, ManualRollback,
                RbFindPrevious, RbFindsNone, RbFails, RbRepoint, RbRemoveGreen,
                RbDemote, RbPromote, RbRecord
  <2>5. ASSUME NEW r \in Run, Watch(r) PROVE Working(q)
    BY <2>5 DEF Watch, CheckOk, CheckFails, OnDegrade, DegradedOnly, WatchEnds,
              WatchBreaks
  <2>6. CASE Crash
    BY <2>6 DEF Crash
  <2>7. CASE UNCHANGED vars
    BY <2>7 DEF vars
  <2>8. QED
    BY <2>1, <2>2, <2>3, <2>4, <2>5, <2>6, <2>7 DEF Next
<1>3. QED
  BY <1>1, <1>2

LEMMA ExcludeStep ==
  ASSUME TypeOK, Undisturbed, Quiet, OnePipeline, [Next]_vars
  PROVE  OnePipeline'
<1> SUFFICES ASSUME NEW q \in Run, NEW r \in Run, Working(q)', Working(r)',
                    env(q) = env(r), q # r
             PROVE  FALSE
  BY DEF OnePipeline, env
<1>1. \A p \in Run : PassLock(p) => ~OtherRunning(p)
  BY DEF PassLock
<1>2. CASE Working(q) /\ Working(r)
  BY <1>2 DEF OnePipeline
<1>3. CASE PassLock(q) /\ Working(r)
  BY <1>1, <1>3 DEF Quiet, OtherRunning
<1>4. CASE PassLock(r) /\ Working(q)
  BY <1>1, <1>4 DEF Quiet, OtherRunning
<1>5. CASE PassLock(q) /\ PassLock(r)
  BY <1>5 DEF PassLock, Moves, TypeOK
<1>6. QED
  BY <1>2, <1>3, <1>4, <1>5, WorkStartsAtTheLock

\* What holds of an undisturbed system.
Exclusion == Undisturbed => Quiet /\ OnePipeline

LEMMA ExclusionInvariant == Spec => []Exclusion
<1>1. Init => Exclusion
  BY DEF Init, Exclusion, Quiet, OnePipeline, Working, Pipeline, Undo
<1>2. TypeOK /\ Exclusion /\ [Next]_vars => Exclusion'
  BY QuietStep, ExcludeStep DEF Exclusion, Undisturbed
<1>3. QED
  BY <1>1, <1>2, TypeCorrect, PTL DEF Spec

\* Undisturbed, at most one pipeline of an environment works on its
\* containers, its proxy and its records.
THEOREM PipelineWorksAlone == Spec => []PipelinesExclude
<1>1. Exclusion => PipelinesExclude
  BY DEF Exclusion, PipelinesExclude
<1>2. QED
  BY <1>1, ExclusionInvariant, PTL

-----------------------------------------------------------------------------
(* The record of truth                                                     *)

\* Between the read and the write of the record of truth nothing becomes
\* active but what the read has seen.
Recorded ==
  /\ OneActive
  /\ \A r \in Run, v \in Version :
       status[v] = "active" /\ env(v) = env(r) =>
         /\ pc[r] # "record"
         /\ pc[r] = "supersede" => v = prev[r]

\* Three statements touch the record or depend on it; every other step leaves
\* the rows alone and brings no run to one of the three.
RecordUntouched ==
  /\ status' = status /\ prev' = prev
  /\ \A q \in Run : pc'[q] \in {"supersede", "record"} => pc'[q] = pc[q]

LEMMA RecordSteps ==
  ASSUME TypeOK, Undisturbed, Quiet, [Next]_vars
  PROVE  \/ RecordUntouched
         \/ \E r \in Run : ReadActive(r) \/ Supersede(r) \/ Record(r)
<1> USE DEF TypeOK, Undisturbed, Quiet, RecordUntouched, Moves, runVars,
            localVars, recordVars
<1>1. ASSUME NEW r \in Run, Plan(r) PROVE RecordUntouched
  BY <1>1 DEF Plan
<1>2. ASSUME NEW r \in Run, Forward(r),
             ~ (ReadActive(r) \/ Supersede(r) \/ Record(r))
      PROVE  RecordUntouched
  <2>1. CASE \/ CreateRun(r) \/ MarkRunning(r) \/ PassLock(r) \/ FailLock(r)
    BY <2>1 DEF CreateRun, MarkRunning, PassLock, FailLock
  <2>2. CASE \/ PickPort(r) \/ PlayStartGreen(r) \/ PlayStopBlue(r)
             \/ PlayDone(r) \/ PlayFails(r) \/ RemoveGreen(r) \/ StartGreen(r)
             \/ StartGreenPortTaken(r)
    BY <2>2 DEF PickPort, PlayStartGreen, PlayStopBlue, PlayDone,
                PlayFails, RemoveGreen, StartGreen, StartGreenPortTaken
  <2>3. CASE \/ Probe(r) \/ Switch(r) \/ RemoveBlue(r) \/ Succeed(r)
             \/ StartWatch(r)
    BY <2>3 DEF Probe, Switch, RemoveBlue, Succeed, StartWatch
  <2>4. QED
    BY <1>2, <2>1, <2>2, <2>3 DEF Forward
<1>3. ASSUME NEW r \in Run, Backward(r) PROVE RecordUntouched
  BY <1>3 DEF Backward, Throw, Repoint, UndoGreen, UndoPlay, UndoRecord,
              UndoFails, GiveUp
<1>4. ASSUME NEW r \in Run, CancelGuard(r) \/ CancelWrite(r)
      PROVE  RecordUntouched
  BY <1>4 DEF CancelGuard, CancelWrite
<1>5. ASSUME NEW r \in Run, OperatorRollback(r) \/ ManualRollback(r)
      PROVE  RecordUntouched
  BY <1>5 DEF OperatorRollback, ManualRollback, RbFindPrevious, RbFindsNone,
              RbFails, RbRepoint, RbRemoveGreen, RbDemote, RbPromote, RbRecord,
              RbMoves
<1>6. ASSUME NEW r \in Run, Watch(r) PROVE RecordUntouched
  BY <1>6 DEF Watch, CheckOk, CheckFails, OnDegrade, DegradedOnly, WatchEnds,
              WatchBreaks
<1>7. CASE Crash
  BY <1>7 DEF Crash
<1>8. CASE UNCHANGED vars
  BY <1>8 DEF vars
<1>9. QED
  BY <1>1, <1>2, <1>3, <1>4, <1>5, <1>6, <1>7, <1>8 DEF Next

LEMMA RecordedStep ==
  ASSUME TypeOK, Undisturbed, Quiet, OnePipeline, Recorded, [Next]_vars
  PROVE  Recorded'
<1> USE DEF TypeOK, Recorded, OneActive, Moves
<1>1. CASE RecordUntouched
  BY <1>1 DEF RecordUntouched, env
<1>2. ASSUME NEW r \in Run, ReadActive(r) PROVE Recorded'
  <2>1. \A v \in Version :
          status[v] = "active" /\ env(v) = env(r) => v = prev'[r]
    BY <1>2 DEF ReadActive, Latest
  <2>2. QED
    BY <1>2, <2>1 DEF ReadActive, env, recordVars
<1>3. ASSUME NEW r \in Run, Supersede(r) PROVE Recorded'
  BY <1>3 DEF Supersede, env, localVars
<1>4. ASSUME NEW r \in Run, Record(r) PROVE Recorded'
  <2>1. r \in Version
    BY DEF Version
  <2>2. \A q \in Run : q # r /\ env(q) = env(r) =>
          pc[q] # "supersede" /\ pc[q] # "record"
    BY <1>4 DEF Record, OnePipeline, Working, Pipeline
  <2>3. \A v \in Version :
          status'[v] = "active" => v = r \/ status[v] = "active"
    BY <1>4 DEF Record
  <2>4. \A v \in Version :
          status[v] = "active" => env(v) # env(r)
    BY <1>4 DEF Record
  <2>5. OneActive'
    BY <2>1, <2>3, <2>4 DEF env
  <2>6. ASSUME NEW q \in Run, NEW v \in Version,
               status'[v] = "active", env(v) = env(q)
        PROVE  pc'[q] # "record" /\ (pc'[q] = "supersede" => v = prev'[q])
    BY <1>4, <2>1, <2>2, <2>3, <2>6 DEF Record, localVars
  <2>7. QED
    BY <2>5, <2>6 DEF env
<1>5. QED
  BY <1>1, <1>2, <1>3, <1>4, RecordSteps

\* Undisturbed, at most one Deployment of an environment is active, although
\* no transaction holds the statements together that make it so.
THEOREM RecordIsOfOne == Spec => []RecordHasOneActive
<1> DEFINE Inv == Undisturbed => Recorded
<1>1. Init => Inv
  BY DeployAssumption DEF Init, Recorded, OneActive, Version, env
<1>2. TypeOK /\ Exclusion /\ Inv /\ [Next]_vars => Inv'
  BY RecordedStep DEF Exclusion, Undisturbed
<1>3. Inv => RecordHasOneActive
  BY DEF Recorded, RecordHasOneActive
<1>4. QED
  BY <1>1, <1>2, <1>3, TypeCorrect, ExclusionInvariant, PTL DEF Spec

-----------------------------------------------------------------------------
(* The switch goes to the version of the run                               *)

HasGreen == {"playing", "played", "probe", "switch", "drain"}

\* From its docker run to the removal of blue the green container is up, on
\* the port that was picked for it.
GreenRuns(r) ==
  container[greenName(r)] = [up |-> TRUE, port |-> port[r], version |-> r]
GreenInv == \A r \in Run : pc[r] \in HasGreen => GreenRuns(r)

\* A step of a run moves no other run, ...
Acts(q) ==
  \/ Plan(q) \/ Forward(q) \/ Backward(q) \/ CancelGuard(q) \/ CancelWrite(q)
  \/ OperatorRollback(q) \/ ManualRollback(q) \/ Watch(q)

LEMMA OthersStay ==
  ASSUME TypeOK, NEW q \in Run, Acts(q)
  PROVE  \A r \in Run \ {q} : pc'[r] = pc[r] /\ port'[r] = port[r]
<1> USE DEF TypeOK, Moves, runVars, localVars
<1>1. CASE Plan(q)
  BY <1>1 DEF Plan
<1>2. CASE Forward(q)
  <2>1. CASE \/ CreateRun(q) \/ MarkRunning(q) \/ PassLock(q) \/ FailLock(q)
             \/ PickPort(q)
    BY <2>1 DEF CreateRun, MarkRunning, PassLock, FailLock, PickPort
  <2>2. CASE \/ PlayStartGreen(q) \/ PlayStopBlue(q) \/ PlayDone(q)
             \/ PlayFails(q) \/ RemoveGreen(q) \/ StartGreen(q)
             \/ StartGreenPortTaken(q)
    BY <2>2 DEF PlayStartGreen, PlayStopBlue, PlayDone, PlayFails,
                RemoveGreen, StartGreen, StartGreenPortTaken
  <2>3. CASE \/ Probe(q) \/ Switch(q) \/ RemoveBlue(q) \/ ReadActive(q)
             \/ Supersede(q) \/ Record(q) \/ Succeed(q) \/ StartWatch(q)
    BY <2>3 DEF Probe, Switch, RemoveBlue, ReadActive, Supersede, Record,
                Succeed, StartWatch
  <2>4. QED
    BY <1>2, <2>1, <2>2, <2>3 DEF Forward
<1>3. CASE Backward(q)
  BY <1>3 DEF Backward, Throw, Repoint, UndoGreen, UndoPlay, UndoRecord,
              UndoFails, GiveUp
<1>4. CASE \/ CancelGuard(q) \/ CancelWrite(q) \/ OperatorRollback(q)
           \/ ManualRollback(q)
  BY <1>4 DEF CancelGuard, CancelWrite, OperatorRollback, ManualRollback,
              RbFindPrevious, RbFindsNone, RbFails, RbRepoint, RbRemoveGreen,
              RbDemote, RbPromote, RbRecord
<1>5. CASE Watch(q)
  BY <1>5 DEF Watch, CheckOk, CheckFails, OnDegrade, DegradedOnly, WatchEnds,
              WatchBreaks
<1>6. QED
  BY <1>1, <1>2, <1>3, <1>4, <1>5 DEF Acts

\* ... and no container of another application; without a rollback, none at
\* all unless its pipeline works.
LEMMA OthersKept ==
  ASSUME TypeOK, Undisturbed, Quiet, NEW q \in Run, Acts(q)
  PROVE  \/ container' = container
         \/ /\ Working(q)
            /\ \A a \in App, c \in {"blue", "green"} :
                 a # AppOf[q] => container'[<<a, c>>] = container[<<a, c>>]
<1> DEFINE Kept == \A a \in App, c \in {"blue", "green"} :
                 a # AppOf[q] => container'[<<a, c>>] = container[<<a, c>>]
<1> USE DEF TypeOK, Undisturbed, Quiet, dockerVars, Name
<1>1. CASE Plan(q)
  BY <1>1 DEF Plan
<1>2. CASE Forward(q)
  <2>1. CASE \/ CreateRun(q) \/ MarkRunning(q) \/ PassLock(q) \/ FailLock(q)
             \/ PickPort(q) \/ PlayDone(q) \/ PlayFails(q) \/ Probe(q)
             \/ Switch(q)
    BY <2>1 DEF CreateRun, MarkRunning, PassLock, FailLock, PickPort,
                PlayDone, PlayFails, Probe, Switch
  <2>2. CASE ReadActive(q) \/ Supersede(q) \/ Record(q) \/ Succeed(q)
               \/ StartWatch(q)
    BY <2>2 DEF ReadActive, Supersede, Record, Succeed, StartWatch
  <2>3. CASE PlayStartGreen(q) \/ StartGreen(q) \/ StartGreenPortTaken(q)
    <3>1. Working(q)
      BY <2>3 DEF PlayStartGreen, StartGreen, StartGreenPortTaken, Moves,
                  Working, Pipeline
    <3>2. \E up \in BOOLEAN : Put(greenName(q), q, up)
      BY <2>3 DEF PlayStartGreen, StartGreen, StartGreenPortTaken
    <3>3. Kept
      BY <3>2 DEF Put, greenName
    <3>4. QED
      BY <3>1, <3>3
  <2>4. CASE PlayStopBlue(q)
    <3>1. Working(q)
      BY <2>4 DEF PlayStopBlue, Moves, Working, Pipeline
    <3>2. Kept
      BY <2>4 DEF PlayStopBlue, blueName
    <3>3. QED
      BY <3>1, <3>2
  <2>5. CASE RemoveGreen(q) \/ RemoveBlue(q)
    <3>1. Working(q)
      BY <2>5 DEF RemoveGreen, RemoveBlue, Moves, Working, Pipeline
    <3>2. Kept
      BY <2>5 DEF RemoveGreen, RemoveBlue, Remove, greenName, blueName
    <3>3. QED
      BY <3>1, <3>2
  <2>6. QED
    BY <1>2, <2>1, <2>2, <2>3, <2>4, <2>5 DEF Forward
<1>3. CASE Backward(q)
  <2>1. CASE Throw(q) \/ Repoint(q) \/ UndoRecord(q) \/ UndoFails(q)
               \/ GiveUp(q)
    BY <2>1 DEF Throw, Repoint, UndoRecord, UndoFails, GiveUp
  <2>2. CASE UndoGreen(q)
    <3>1. Working(q)
      BY <2>2 DEF UndoGreen, Moves, Working, Undo
    <3>2. Kept
      BY <2>2 DEF UndoGreen, Remove, greenName
    <3>3. QED
      BY <3>1, <3>2
  <2>3. CASE UndoPlay(q)
    <3>1. Working(q)
      BY <2>3 DEF UndoPlay, Moves, Working, Undo
    <3>2. Kept
      BY <2>3 DEF UndoPlay, greenName, blueName
    <3>3. QED
      BY <3>1, <3>2
  <2>4. QED
    BY <1>3, <2>1, <2>2, <2>3 DEF Backward
<1>4. CASE CancelGuard(q) \/ CancelWrite(q) \/ OperatorRollback(q) \/ Watch(q)
  BY <1>4 DEF CancelGuard, CancelWrite, OperatorRollback, Watch, CheckOk,
              CheckFails, OnDegrade, DegradedOnly, WatchEnds, WatchBreaks
<1>5. CASE ManualRollback(q)
  BY <1>5 DEF ManualRollback, RbFindPrevious, RbFindsNone, RbFails, RbRepoint,
              RbRemoveGreen, RbDemote, RbPromote, RbRecord, RbMoves
<1>6. QED
  BY <1>1, <1>2, <1>3, <1>4, <1>5 DEF Acts

\* What the run itself does to its green container.
LEMMA OwnGreen ==
  ASSUME TypeOK, Quiet, NEW r \in Run, Acts(r), GreenInv,
         pc'[r] \in HasGreen
  PROVE  GreenRuns(r)'
<1> USE DeployAssumption DEF Moves, HasGreen, GreenInv, GreenRuns
<1>1. /\ greenName(r) \in Name /\ blueName(r) \in Name
      /\ greenName(r) # blueName(r)
  BY DEF greenName, blueName, Name, Version
<1>2. CASE Forward(r)
  <2>1. CASE PlayStartGreen(r) \/ StartGreen(r)
    <3>1. Put(greenName(r), r, TRUE) /\ port' = port
      BY <2>1 DEF PlayStartGreen, StartGreen, localVars
    <3>2. QED
      BY <1>1, <3>1 DEF Put, TypeOK
  <2>2. CASE PlayStopBlue(r)
    <3>1. /\ container'[greenName(r)] = container[greenName(r)]
          /\ port' = port /\ pc[r] = "playing"
      BY <1>1, <2>2 DEF PlayStopBlue, localVars, TypeOK
    <3>2. QED
      BY <3>1
  <2>3. CASE PlayDone(r) \/ Probe(r) \/ Switch(r)
    <3>1. /\ container' = container /\ port' = port
          /\ pc[r] \in {"played", "probe", "switch"}
      BY <2>3 DEF PlayDone, Probe, Switch, localVars, dockerVars
    <3>2. QED
      BY <3>1
  <2>4. CASE \/ CreateRun(r) \/ MarkRunning(r) \/ PassLock(r) \/ FailLock(r)
             \/ PickPort(r) \/ PlayFails(r) \/ RemoveGreen(r)
             \/ StartGreenPortTaken(r)
    <3>1. CASE PlayFails(r)
      <4>1. PICK t \in {"remove", "repoint"} : Moves(r, pc[r], t)
        BY <3>1 DEF PlayFails
      <4>2. QED
        BY <4>1 DEF TypeOK
    <3>2. CASE ~PlayFails(r)
      <4>1. PICK t \in {"mark", "lock", "pickPort", "done", "play", "start",
                        "repoint"} : pc' = [pc EXCEPT ![r] = t]
        BY <2>4, <3>2 DEF CreateRun, MarkRunning, PassLock, FailLock, PickPort,
                          RemoveGreen, StartGreenPortTaken
      <4>2. QED
        BY <4>1 DEF TypeOK
    <3>3. QED
      BY <3>1, <3>2
  <2>5. CASE \/ RemoveBlue(r) \/ ReadActive(r) \/ Supersede(r) \/ Record(r)
             \/ Succeed(r) \/ StartWatch(r)
    BY <2>5 DEF RemoveBlue, ReadActive, Supersede, Record, Succeed,
                StartWatch, TypeOK
  <2>6. QED
    BY <1>2, <2>1, <2>2, <2>3, <2>4, <2>5 DEF Forward
<1>3. CASE Plan(r) \/ Backward(r)
  BY <1>3 DEF Plan, Backward, Throw, Repoint, UndoGreen, UndoPlay, UndoRecord,
              UndoFails, GiveUp, TypeOK
<1>4. CASE CancelGuard(r) \/ CancelWrite(r) \/ OperatorRollback(r) \/ Watch(r)
  <2>1. container' = container /\ port' = port /\ pc' = pc
    BY <1>4 DEF CancelGuard, CancelWrite, OperatorRollback, Watch, CheckOk,
                CheckFails, OnDegrade, DegradedOnly, WatchEnds, WatchBreaks,
                runVars, localVars, dockerVars
  <2>2. QED
    BY <2>1
<1>5. CASE ManualRollback(r)
  BY <1>5 DEF ManualRollback, RbFindPrevious, RbFindsNone, RbFails, RbRepoint,
              RbRemoveGreen, RbDemote, RbPromote, RbRecord, RbMoves, Quiet
<1>6. QED
  BY <1>2, <1>3, <1>4, <1>5 DEF Acts

LEMMA GreenStep ==
  ASSUME TypeOK, Undisturbed, Quiet, OnePipeline, GreenInv, [Next]_vars
  PROVE  GreenInv'
<1>1. ASSUME NEW q \in Run, Acts(q) PROVE GreenInv'
  <2> SUFFICES ASSUME NEW r \in Run, pc'[r] \in HasGreen, r # q
               PROVE  GreenRuns(r)'
    BY <1>1, OwnGreen DEF GreenInv
  <2>1. pc[r] = pc'[r] /\ port'[r] = port[r]
    BY <1>1, OthersStay
  <2>2. GreenRuns(r) /\ Working(r)
    BY <2>1 DEF GreenInv, HasGreen, Working, Pipeline
  <2>3. container'[greenName(r)] = container[greenName(r)]
    <3>1. CASE container' = container
      BY <3>1
    <3>2. CASE /\ Working(q)
               /\ \A a \in App, c \in {"blue", "green"} : a # AppOf[q] =>
                    container'[<<a, c>>] = container[<<a, c>>]
      <4>1. env(q) # env(r)
        BY <2>2, <3>2 DEF OnePipeline
      <4>2. AppOf[r] \in App /\ AppOf[r] # AppOf[q]
        BY <4>1, DeployAssumption DEF env, Version
      <4>3. QED
        BY <3>2, <4>2 DEF greenName
    <3>3. QED
      BY <1>1, <3>1, <3>2, OthersKept
  <2>4. QED
    BY <2>1, <2>2, <2>3 DEF GreenRuns, greenName
<1>2. CASE Crash
  BY <1>2 DEF Crash, GreenInv, HasGreen
<1>3. CASE UNCHANGED vars
  BY <1>3 DEF vars, runVars, dockerVars, GreenInv, GreenRuns, greenName
<1>4. QED
  BY <1>1, <1>2, <1>3 DEF Next, Acts

\* Undisturbed, a pipeline points the proxy at its own green container,
\* whatever the pipelines of other environments start on which ports.
THEOREM SwitchIsToOwn == Spec => []SwitchesToOwn
<1>1. Init => GreenInv
  BY DEF Init, GreenInv, HasGreen
<1>2. /\ TypeOK /\ Exclusion /\ (Undisturbed => GreenInv) /\ [Next]_vars
      => (Undisturbed => GreenInv)'
  BY GreenStep DEF Exclusion, Undisturbed
<1>3. TypeOK /\ (Undisturbed => GreenInv) => SwitchesToOwn
  <2> SUFFICES ASSUME Undisturbed, GreenInv, NEW r \in Run,
                      pc[r] \in {"switch", "drain"}
               PROVE  Serves(r, port[r])
    BY DEF SwitchesToOwn
  <2>1. greenName(r) \in Name
    BY DeployAssumption DEF greenName, Name, Version
  <2>2. GreenRuns(r)
    BY DEF GreenInv, HasGreen
  <2>3. QED
    BY <2>1, <2>2 DEF GreenRuns, Serves
<1>4. QED
  BY <1>1, <1>2, <1>3, TypeCorrect, ExclusionInvariant, PTL DEF Spec

-----------------------------------------------------------------------------
(* What one step may change                                                *)

\* A step of a run writes nobody else's row and moves no other run.
SameRow(r) ==
  /\ state'[r] = state[r] /\ pc'[r] = pc[r] /\ base'[r] = base[r]
  /\ port'[r] = port[r] /\ started'[r] = started[r]
  /\ switched'[r] = switched[r] /\ prev'[r] = prev[r] /\ rb'[r] = rb[r]

LEMMA OthersKeepRow ==
  ASSUME TypeOK, NEW q \in Run, NEW r \in Run \ {q}, Acts(q)
  PROVE  SameRow(r)
<1> USE DEF TypeOK, Moves, RbMoves, runVars, localVars, rbVars, SameRow
<1>1. CASE Plan(q)
  BY <1>1 DEF Plan
<1>2. CASE Forward(q)
  <2>1. CASE \/ CreateRun(q) \/ MarkRunning(q) \/ PassLock(q) \/ FailLock(q)
             \/ PickPort(q)
    BY <2>1 DEF CreateRun, MarkRunning, PassLock, FailLock, PickPort
  <2>2. CASE \/ PlayStartGreen(q) \/ PlayStopBlue(q) \/ PlayDone(q)
             \/ PlayFails(q) \/ RemoveGreen(q)
    BY <2>2 DEF PlayStartGreen, PlayStopBlue, PlayDone, PlayFails, RemoveGreen
  <2>3. CASE \/ StartGreen(q) \/ StartGreenPortTaken(q) \/ Probe(q)
             \/ Switch(q) \/ RemoveBlue(q)
    BY <2>3 DEF StartGreen, StartGreenPortTaken, Probe, Switch, RemoveBlue
  <2>4. CASE \/ ReadActive(q) \/ Supersede(q) \/ Record(q) \/ Succeed(q)
             \/ StartWatch(q)
    BY <2>4 DEF ReadActive, Supersede, Record, Succeed, StartWatch
  <2>5. QED
    BY <1>2, <2>1, <2>2, <2>3, <2>4 DEF Forward
<1>3. CASE Backward(q)
  BY <1>3 DEF Backward, Throw, Repoint, UndoGreen, UndoPlay, UndoRecord,
              UndoFails, GiveUp
<1>4. CASE CancelGuard(q) \/ CancelWrite(q) \/ OperatorRollback(q)
  BY <1>4 DEF CancelGuard, CancelWrite, OperatorRollback, RbFindCurrent
<1>5. CASE ManualRollback(q)
  BY <1>5 DEF ManualRollback, RbFindPrevious, RbFindsNone, RbFails, RbRepoint,
              RbRemoveGreen, RbDemote, RbPromote, RbRecord
<1>6. CASE Watch(q)
  BY <1>6 DEF Watch, CheckOk, CheckFails, OnDegrade, RbFindCurrent,
              DegradedOnly, WatchEnds, WatchBreaks
<1>7. QED
  BY <1>1, <1>2, <1>3, <1>4, <1>5, <1>6 DEF Acts

\* The steps that touch a container, ...
ChangesContainers(q) ==
  \/ PlayStartGreen(q) \/ PlayStopBlue(q) \/ RemoveGreen(q) \/ StartGreen(q)
  \/ StartGreenPortTaken(q) \/ RemoveBlue(q) \/ UndoPlay(q)
  \/ UndoGreen(q) /\ started[q]
  \/ RbRemoveGreen(q)

\* ... the proxy ...
ChangesTarget(q) == Switch(q) \/ Repoint(q) \/ RbRepoint(q)

\* ... and the Deployment table.
ChangesRecord(q) ==
  \/ Supersede(q) \/ Record(q) \/ RbDemote(q) \/ RbPromote(q)

\* Every other step leaves the three, and the port of its run, alone.
LEMMA WhatChanges ==
  ASSUME NEW q \in Run, Acts(q)
  PROVE  /\ ChangesContainers(q) \/ container' = container
         /\ ChangesTarget(q) \/ target' = target
         /\ ChangesRecord(q) \/ status' = status
         /\ PickPort(q) \/ port' = port
<1> USE DEF ChangesContainers, ChangesTarget, ChangesRecord, dockerVars,
            recordVars, localVars, runVars
<1>1. CASE Plan(q)
  BY <1>1 DEF Plan
<1>2. CASE Forward(q)
  <2>1. CASE \/ CreateRun(q) \/ MarkRunning(q) \/ PassLock(q) \/ FailLock(q)
             \/ PickPort(q)
    BY <2>1 DEF CreateRun, MarkRunning, PassLock, FailLock, PickPort
  <2>2. CASE \/ PlayStartGreen(q) \/ PlayStopBlue(q) \/ PlayDone(q)
             \/ PlayFails(q) \/ RemoveGreen(q)
    BY <2>2 DEF PlayStartGreen, PlayStopBlue, PlayDone, PlayFails, RemoveGreen
  <2>3. CASE \/ StartGreen(q) \/ StartGreenPortTaken(q) \/ Probe(q)
             \/ Switch(q) \/ RemoveBlue(q)
    BY <2>3 DEF StartGreen, StartGreenPortTaken, Probe, Switch, RemoveBlue
  <2>4. CASE \/ ReadActive(q) \/ Supersede(q) \/ Record(q) \/ Succeed(q)
             \/ StartWatch(q)
    BY <2>4 DEF ReadActive, Supersede, Record, Succeed, StartWatch
  <2>5. QED
    BY <1>2, <2>1, <2>2, <2>3, <2>4 DEF Forward
<1>3. CASE Backward(q)
  <2>1. CASE Throw(q) \/ Repoint(q) \/ UndoRecord(q) \/ UndoFails(q)
               \/ GiveUp(q)
    BY <2>1 DEF Throw, Repoint, UndoRecord, UndoFails, GiveUp
  <2>2. CASE UndoGreen(q) \/ UndoPlay(q)
    BY <2>2 DEF UndoGreen, UndoPlay
  <2>3. QED
    BY <1>3, <2>1, <2>2 DEF Backward
<1>4. CASE CancelGuard(q) \/ CancelWrite(q) \/ OperatorRollback(q)
  BY <1>4 DEF CancelGuard, CancelWrite, OperatorRollback
<1>5. CASE ManualRollback(q)
  BY <1>5 DEF ManualRollback, RbFindPrevious, RbFindsNone, RbFails, RbRepoint,
              RbRemoveGreen, RbDemote, RbPromote, RbRecord
<1>6. CASE Watch(q)
  BY <1>6 DEF Watch, CheckOk, CheckFails, OnDegrade, DegradedOnly, WatchEnds,
              WatchBreaks
<1>7. QED
  BY <1>1, <1>2, <1>3, <1>4, <1>5, <1>6 DEF Acts

-----------------------------------------------------------------------------
(* A rollback leaves no green container running                            *)

\* Only the container that is named for it has the version of a run.
Named ==
  \A n \in Name, r \in Run : container[n].version = r => n = greenName(r)

GreenUp(r) ==
  container[greenName(r)].up /\ container[greenName(r)].version = r

\* The containers of one application.
LEMMA Names ==
  ASSUME NEW v \in Version
  PROVE  /\ blueName(v) \in Name /\ greenName(v) \in Name
         /\ \A w \in Version :
              /\ blueName(v) # greenName(w)
              /\ blueName(v) = blueName(w) <=> AppOf[v] = AppOf[w]
              /\ greenName(v) = greenName(w) <=> AppOf[v] = AppOf[w]
  BY DeployAssumption DEF blueName, greenName, Name

\* What UndoPlay makes of the containers.
LEMMA AfterUndoPlay ==
  ASSUME TypeOK, NEW q \in Run, UndoPlay(q)
  PROVE  /\ \A n \in Name :
              /\ container'[n].version = container[n].version
              /\ container'[n].port = container[n].port
              /\ container'[n].up => container[n].up \/ n = blueName(q)
         /\ PlayWorks \/ container' = container
<1> USE Names DEF TypeOK, Version
<1>1. CASE container' = container
  BY <1>1
<1>2. CASE PlayWorks /\ container' # container
  <2> DEFINE b == blueName(q)
             g == greenName(q)
             startable == Exists(b) /\ ~Bound(container[b].port)
             one == [container EXCEPT ![b].up = @ \/ startable]
             both == [one EXCEPT ![g].up = FALSE]
  <2>1. container' = both
    BY <1>2 DEF UndoPlay
  <2>2. /\ one \in [Name -> Container]
        /\ \A n \in Name :
             /\ one[n].version = container[n].version
             /\ one[n].port = container[n].port
             /\ n # b => one[n] = container[n]
    <3>1. (container[b].up \/ startable) \in BOOLEAN
      OBVIOUS
    <3>2. \A x \in BOOLEAN : \A n \in Name :
            LET k == [container EXCEPT ![b].up = x] IN
             /\ k[n].version = container[n].version
             /\ k[n].port = container[n].port
             /\ n # b => k[n] = container[n]
      BY DEF Container
    <3>3. one \in [Name -> Container]
      BY <3>1, UpType
    <3>4. QED
      BY <3>1, <3>2, <3>3
  <2>3. \A n \in Name :
             /\ both[n].version = one[n].version
             /\ both[n].port = one[n].port
             /\ both[n].up => one[n].up
    <3> HIDE DEF one
    <3>1. QED
      BY <2>2 DEF Container
  <2>4. QED
    <3> HIDE DEF one, both
    <3>1. QED
      BY <1>2, <2>1, <2>2, <2>3
<1>3. QED
  BY <1>1, <1>2 DEF UndoPlay

\* stopAndRemove leaves the other containers alone.
LEMMA AfterRemove ==
  ASSUME TypeOK, NEW m \in Name, Remove(m)
  PROVE  \A n \in Name :
           \/ container'[n] = container[n]
           \/ n = m /\ container'[n] = Absent
           \/ n = m /\ container'[n] = [container[n] EXCEPT !.up = FALSE]
  BY DEF TypeOK, Remove

\* ... and this one, if docker does what it is told, is gone.
LEMMA AfterRemoval ==
  ASSUME TypeOK, NEW m \in Name, Remove(m), "removal" \notin Faulty
  PROVE  container'[m] = Absent
  BY DEF TypeOK, Remove

\* No step puts a version into a container of another name.
LEMMA NamedStep ==
  ASSUME TypeOK, Named, NEW q \in Run, Acts(q)
  PROVE  Named'
<1> USE Names, DeployAssumption DEF TypeOK, Named, Version
<1>1. CASE container' = container
  BY <1>1 DEF greenName
<1>2. CASE PlayStartGreen(q) \/ StartGreen(q) \/ StartGreenPortTaken(q)
  <2>1. PICK x \in BOOLEAN : Put(greenName(q), q, x)
    BY <1>2 DEF PlayStartGreen, StartGreen, StartGreenPortTaken
  <2>2. \A n \in Name : container'[n].version =
          IF n = greenName(q) THEN q ELSE container[n].version
    BY <2>1 DEF Put
  <2>3. QED
    BY <2>2 DEF greenName
<1>3. CASE RemoveGreen(q) \/ RemoveBlue(q) \/ UndoGreen(q) \/ RbRemoveGreen(q)
  <2>1. \/ container' = container
        \/ \E m \in Name : Remove(m)
    BY <1>3 DEF RemoveGreen, RemoveBlue, UndoGreen, RbRemoveGreen
  <2>2. \A n \in Name : container'[n] \in
          {container[n], Absent, [container[n] EXCEPT !.up = FALSE]}
    BY <2>1, AfterRemove
  <2>3. ASSUME NEW n \in Name
        PROVE  container'[n].version \in {container[n].version, None}
    <3>1. container[n] \in Container
      OBVIOUS
    <3>2. [container[n] EXCEPT !.up = FALSE].version = container[n].version
      BY <3>1 DEF Container
    <3>3. Absent.version = None
      BY DEF Absent
    <3> DEFINE stopped == [container[n] EXCEPT !.up = FALSE]
    <3>4. container'[n] \in {container[n], Absent, stopped}
      BY <2>2
    <3> HIDE DEF stopped
    <3>5. stopped.version = container[n].version
      BY <3>2 DEF stopped
    <3>6. QED
      BY ONLY <3>3, <3>4, <3>5
  <2>4. QED
    BY <2>3 DEF greenName
<1>4. CASE PlayStopBlue(q)
  <2>1. \A n \in Name : container'[n].version = container[n].version
    BY <1>4 DEF PlayStopBlue, Container
  <2>2. QED
    BY <2>1 DEF greenName
<1>5. CASE UndoPlay(q)
  BY <1>5, AfterUndoPlay DEF greenName
<1>6. QED
  BY <1>1, <1>2, <1>3, <1>4, <1>5, WhatChanges DEF ChangesContainers

\* Two steps, both of the run itself, make its green container run.
LEMMA GreenAppears ==
  ASSUME TypeOK, NEW q \in Run, NEW r \in Run, Acts(q), GreenUp(r)'
  PROVE  \/ GreenUp(r)
         \/ q = r /\ (PlayStartGreen(r) \/ StartGreen(r))
<1> USE Names DEF TypeOK, GreenUp, Version
<1> DEFINE g == greenName(r)
<1>1. container'[g].up /\ container'[g].version = r /\ g \in Name
  BY DEF greenName
<1>2. CASE container' = container
  BY <1>1, <1>2
<1>3. CASE PlayStartGreen(q) \/ StartGreen(q) \/ StartGreenPortTaken(q)
  <2>1. PICK x \in BOOLEAN : Put(greenName(q), q, x)
    BY <1>3 DEF PlayStartGreen, StartGreen, StartGreenPortTaken
  <2>2. CASE greenName(q) = g
    <3>1. container'[g] = [up |-> x, port |-> port[q], version |-> q]
      BY <1>1, <2>1, <2>2 DEF Put
    <3>2. q = r
      BY <1>1, <3>1
    <3>3. CASE StartGreenPortTaken(q)
      BY <1>1, <3>3 DEF StartGreenPortTaken, Put
    <3>4. QED
      BY <1>3, <3>2, <3>3
  <2>3. CASE greenName(q) # g
    BY <1>1, <2>1, <2>3 DEF Put
  <2>4. QED
    BY <2>2, <2>3
<1>4. CASE RemoveGreen(q) \/ RemoveBlue(q) \/ UndoGreen(q) \/ RbRemoveGreen(q)
  <2>1. container' = container \/ \E m \in Name : Remove(m)
    BY <1>4 DEF RemoveGreen, RemoveBlue, UndoGreen, RbRemoveGreen
  <2>2. container'[g] \in
          {container[g], Absent, [container[g] EXCEPT !.up = FALSE]}
    BY <1>1, <2>1, AfterRemove
  <2>3. QED
    BY <1>1, <2>2 DEF Absent, Container
<1>5. CASE PlayStopBlue(q)
  <2>1. container'[g] = container[g]
    BY <1>1, <1>5 DEF PlayStopBlue
  <2>2. QED
    BY <1>1, <2>1
<1>6. CASE UndoPlay(q)
  <2>1. container'[g].version = container[g].version
    BY <1>1, <1>6, AfterUndoPlay
  <2>2. container[g].up
    BY <1>1, <1>6, AfterUndoPlay
  <2>3. QED
    BY <1>1, <2>1, <2>2
<1>7. QED
  BY <1>2, <1>3, <1>4, <1>5, <1>6, WhatChanges DEF ChangesContainers

\* What is removed does not run.
LEMMA GreenRemoved ==
  ASSUME TypeOK, NEW r \in Run, Remove(greenName(r)), "removal" \notin Faulty
  PROVE  ~GreenUp(r)'
<1>1. greenName(r) \in Name
  BY Names DEF Version
<1>2. container'[greenName(r)] = Absent
  BY <1>1, AfterRemoval
<1>3. QED
  BY <1>2 DEF GreenUp, greenName, Absent

\* Where the undo will look for the green container: wherever it runs and
\* its run may still be rolled back, greenStarted is set or the panel is
\* about to remove it before it starts its own.
Flagged == {"probe", "switch", "drain"} \cup AfterBlue
             \cup {"repoint", "undoGreen"}
Undone(r) == state[r] = "ROLLED_BACK" /\ NoRollback(r)

UndoInv(r) ==
  /\ pc[r] = "playing" => PlayWorks /\ ImageGiven
  /\ pc[r] = "played" => PlayWorks
  /\ Undone(r) => pc[r] = "done" /\ ~GreenUp(r)
  /\ GreenUp(r) =>
       /\ pc[r] \in Flagged
            \cup {"playing", "played", "remove", "done", "gaveUp", "lost"}
       /\ pc[r] = "remove" => PlayWorks
       /\ pc[r] \in Flagged => started[r]

\* The step of another run.
LEMMA OthersUndo ==
  ASSUME TypeOK, NEW q \in Run, NEW r \in Run \ {q}, Acts(q), UndoInv(r)
  PROVE  UndoInv(r)'
<1>1. SameRow(r)
  BY OthersKeepRow
<1>2. GreenUp(r)' => GreenUp(r)
  BY GreenAppears
<1>3. QED
  BY <1>1, <1>2 DEF UndoInv, Undone, NoRollback, SameRow

\* The step of the run itself.
LEMMA OwnUndo ==
  ASSUME TypeOK, GreenIsKnown, NEW r \in Run, Acts(r), UndoInv(r)
  PROVE  UndoInv(r)'
<1> USE DEF TypeOK, Moves, RbMoves, runVars, localVars, rbVars, UndoInv,
            Undone, NoRollback, Flagged, AfterBlue, Closing
<1>1. CASE Forward(r)
  <2>1. CASE PlayStartGreen(r) \/ StartGreen(r)
    BY <2>1 DEF PlayStartGreen, StartGreen
  <2> SUFFICES ASSUME ~(PlayStartGreen(r) \/ StartGreen(r)) PROVE UndoInv(r)'
    BY <2>1
  <2>2. GreenUp(r)' => GreenUp(r)
    BY GreenAppears
  <2>3. CASE RemoveGreen(r)
    <3>1. ~GreenUp(r)'
      BY <2>3, GreenRemoved DEF RemoveGreen, GreenIsKnown
    <3>2. QED
      BY <2>3, <3>1 DEF RemoveGreen
  <2>4. CASE \/ CreateRun(r) \/ MarkRunning(r) \/ PassLock(r) \/ FailLock(r)
             \/ PickPort(r)
    BY <2>2, <2>4 DEF CreateRun, MarkRunning, PassLock, FailLock, PickPort
  <2>5. CASE PlayStopBlue(r) \/ PlayDone(r)
    BY <2>2, <2>5 DEF PlayStopBlue, PlayDone
  <2>6. CASE PlayFails(r)
    BY <2>2, <2>6 DEF PlayFails
  <2>7. CASE StartGreenPortTaken(r) \/ Probe(r) \/ Switch(r) \/ RemoveBlue(r)
    BY <2>2, <2>7 DEF StartGreenPortTaken, Probe, Switch, RemoveBlue
  <2>8. CASE \/ ReadActive(r) \/ Supersede(r) \/ Record(r) \/ Succeed(r)
             \/ StartWatch(r)
    BY <2>2, <2>8 DEF ReadActive, Supersede, Record, Succeed, StartWatch
  <2>9. QED
    BY <1>1, <2>3, <2>4, <2>5, <2>6, <2>7, <2>8 DEF Forward
<1>2. CASE ~Forward(r)
  <2>1. ~(PlayStartGreen(r) \/ StartGreen(r))
    BY <1>2 DEF Forward
  <2>2. GreenUp(r)' => GreenUp(r)
    BY <2>1, GreenAppears
  <2>3. CASE Plan(r)
    BY <2>2, <2>3 DEF Plan
  <2>4. CASE UndoGreen(r)
    <3>1. ~GreenUp(r)'
      <4>1. CASE started[r]
        BY <4>1, <2>4, GreenRemoved DEF UndoGreen, GreenIsKnown
      <4>2. CASE ~started[r]
        BY <4>2, <2>2, <2>4 DEF UndoGreen
      <4>3. QED
        BY <4>1, <4>2
    <3>2. QED
      BY <2>4, <3>1 DEF UndoGreen
  <2>5. CASE Throw(r)
    <3>1. pc'[r] = "repoint" /\ state' = state /\ started' = started
             /\ rb' = rb
      BY <2>5 DEF Throw
    <3>2. pc[r] # "done"
      BY <2>5 DEF Throw, Throws, Pipeline
    <3>3. GreenUp(r) => pc[r] \in Flagged
      BY <2>5 DEF Throw, Throws, GreenIsKnown, Pipeline
    <3>4. QED
      BY <2>2, <3>1, <3>2, <3>3
  <2>6. CASE Repoint(r) \/ UndoPlay(r) \/ UndoRecord(r)
    BY <2>2, <2>6 DEF Repoint, UndoPlay, UndoRecord
  <2>7. CASE UndoFails(r) \/ GiveUp(r)
    BY <2>2, <2>7 DEF UndoFails, GiveUp, GreenIsKnown
  <2>8. CASE CancelGuard(r) \/ CancelWrite(r) \/ OperatorRollback(r)
    BY <2>2, <2>8 DEF CancelGuard, CancelWrite, OperatorRollback, RbFindCurrent
  <2>9. CASE ManualRollback(r)
    BY <2>2, <2>9 DEF ManualRollback, RbFindPrevious, RbFindsNone, RbFails,
                      RbRepoint, RbRemoveGreen, RbDemote, RbPromote, RbRecord
  <2>10. CASE Watch(r)
    BY <2>2, <2>10 DEF Watch, CheckOk, CheckFails, OnDegrade, RbFindCurrent,
                       DegradedOnly, WatchEnds, WatchBreaks
  <2>11. QED
    BY <1>2, <2>3, <2>4, <2>5, <2>6, <2>7, <2>8, <2>9, <2>10
       DEF Acts, Backward
<1>3. QED
  BY <1>1, <1>2

\* A rollback that reaches its end has removed the green container.
THEOREM RollbackLeavesNoGreen == Spec => []NoGreenLeft
<1> DEFINE Inv == Named /\ (GreenIsKnown => \A r \in Run : UndoInv(r))
<1>1. Init => Inv
  <2> SUFFICES ASSUME Init PROVE Inv
    OBVIOUS
  <2>1. \A n \in Name : container[n].version \in Seed \cup {None}
    <3> SUFFICES ASSUME NEW n \in Name
                 PROVE  container[n].version \in Seed \cup {None}
      OBVIOUS
    <3>1. CASE \E s \in Seed : n = blueName(s)
      <4> DEFINE s == CHOOSE s \in Seed : n = blueName(s)
      <4>1. s \in Seed
        BY <3>1
      <4>2. container[n].version = s
        BY <3>1 DEF Init
      <4>3. QED
        BY <4>1, <4>2
    <3>2. CASE ~ \E s \in Seed : n = blueName(s)
      BY <3>2 DEF Init, Absent
    <3>3. QED
      BY <3>1, <3>2
  <2>2. Named
    BY <2>1, DeployAssumption DEF Named, Version
  <2>3. \A r \in Run : ~GreenUp(r)
    BY <2>1, Names, DeployAssumption DEF GreenUp, Version
  <2>4. QED
    BY <2>2, <2>3 DEF Init, UndoInv, Undone, NoRollback
<1>2. TypeOK /\ Inv /\ [Next]_vars => Inv'
  <2> SUFFICES ASSUME TypeOK, Inv, [Next]_vars PROVE Inv'
    OBVIOUS
  <2>1. ASSUME NEW q \in Run, Acts(q) PROVE Inv'
    BY <2>1, NamedStep, OthersUndo, OwnUndo DEF GreenIsKnown
  <2>2. CASE Crash
    BY <2>2 DEF Crash, Named, GreenIsKnown, UndoInv, Undone, NoRollback,
                GreenUp, Flagged, AfterBlue, Closing, TypeOK, localVars,
                greenName
  <2>3. CASE UNCHANGED vars
    BY <2>3 DEF vars, runVars, localVars, dockerVars, rbVars, Named,
                GreenIsKnown, UndoInv, Undone, NoRollback, GreenUp, greenName
  <2>4. QED
    BY <2>1, <2>2, <2>3 DEF Next, Acts
<1>3. Inv => NoGreenLeft
  BY DEF Named, NoGreenLeft, UndoInv, Undone, GreenUp
<1>4. QED
  BY <1>1, <1>2, <1>3, TypeCorrect, PTL DEF Spec

-----------------------------------------------------------------------------
(* First deploys                                                           *)

\* A run is given one port, once.
PortOnce ==
  \A r \in Run : pc[r] \in Request \cup {"pickPort"} => ~Given(r)

\* Where a first deploy stands.  A run without a port has done nothing; one
\* that has switched is past the switch, and in the undo only if the drain may
\* throw; what the record says of it is written at its end.
PlaceInv(r) ==
  /\ pc[r] \notin {"playing", "played"}
  /\ ~Given(r) => /\ ~started[r] /\ ~switched[r]
                  /\ pc[r] \in Request \cup {"pickPort"} \cup Undo \cup Ended
  /\ switched[r] => pc[r] \in {"drain"} \cup AfterBlue \cup Undo \cup Ended
  /\ pc[r] \in {"drain"} \cup AfterBlue => switched[r]
  /\ switched[r] /\ pc[r] \in Undo => "drain" \in Faulty
  /\ state[r] = "ROLLED_BACK" => pc[r] = "done"

\* The rows of the Deployment table: a run has one once it has written it,
\* and what a pipeline is about to supersede has one.
Recording(r) == pc[r] \notin {"succeed", "alert", "done", "lost"}
RowInv ==
  /\ \A r \in Run : /\ status[r] # "none" => Given(r)
                    /\ Recording(r) => status[r] = "none"
                    /\ pc[r] \in {"succeed", "alert"} => status[r] # "none"
                    /\ prev[r] # None => status[prev[r]] # "none"
  /\ \A s \in Seed : status[s] # "none"

\* Until its run removes it, and after an undo, blue runs on its port.
Before  == {"play", "remove", "start", "probe", "switch"}
OnBlue(r) ==
  \/ pc[r] \in Before \cup {"drain"} \cup Undo
  \/ /\ pc[r] \in {"done", "gaveUp"}
     /\ state[r] = "ROLLED_BACK" \/ status[r] = "none"
BlueOf(s) ==
  container[blueName(s)] = [up |-> TRUE, port |-> SeedPort[s], version |-> s]
BlueInv ==
  \A s \in Seed :
    (\A r \in Run : Given(r) /\ AppOf[r] = AppOf[s] => OnBlue(r))
      => BlueOf(s)

\* From its start to its end green runs on the port of its run.
GreenStands(r) ==
  \/ pc[r] \in {"probe", "switch", "drain"} \cup AfterBlue
  \/ pc[r] = "repoint" /\ switched[r]
  \/ pc[r] = "done" /\ status[r] # "none"
StandsInv == \A r \in Run : GreenStands(r) => GreenRuns(r)

\* The proxy points at a container that nobody is about to remove: a blue
\* whose run does not drain it, or a green that was switched to.
Kept(n) ==
  \/ \E s \in Seed : /\ n = blueName(s)
                     /\ \A r \in Run : Given(r) /\ AppOf[r] = AppOf[s] =>
                          pc[r] # "drain"
  \/ \E r \in Run : /\ n = greenName(r)
                    /\ Given(r) /\ switched[r] /\ pc[r] # "undoGreen"
TargetInv ==
  ProxyUp => \E n \in Name : /\ Kept(n) /\ container[n].up
                             /\ container[n].port = target
                             /\ container[n].version \in Version

FirstInv == /\ \A r \in Run : PlaceInv(r)
            /\ RowInv /\ BlueInv /\ StandsInv /\ TargetInv

\* A step that leaves the row alone, or cancels it, and changes nothing else
\* of what the argument is about.
Aside(q) ==
  /\ UNCHANGED <<pc, localVars, dockerVars, recordVars>>
  /\ state'[q] \in {state[q], "CANCELLED"}

\* A run without a rollback had none before, and its step is the pipeline's
\* or changes nothing of what follows.
LEMMA IdleBefore ==
  ASSUME TypeOK, NEW q \in Run, Acts(q), NoRollback(q)'
  PROVE  /\ NoRollback(q)
         /\ Aside(q) \/ Plan(q) \/ Forward(q) \/ Backward(q)
<1> USE DEF TypeOK, RbMoves, NoRollback, runVars, rbVars, localVars,
            dockerVars, recordVars
<1>1. CASE Plan(q)
  BY <1>1 DEF Plan
<1>2. CASE Forward(q)
  <2>1. CASE \/ CreateRun(q) \/ MarkRunning(q) \/ PassLock(q) \/ FailLock(q)
             \/ PickPort(q)
    BY <1>2, <2>1 DEF CreateRun, MarkRunning, PassLock, FailLock, PickPort
  <2>2. CASE \/ PlayStartGreen(q) \/ PlayStopBlue(q) \/ PlayDone(q)
             \/ PlayFails(q) \/ RemoveGreen(q)
    BY <1>2, <2>2
       DEF PlayStartGreen, PlayStopBlue, PlayDone, PlayFails, RemoveGreen
  <2>3. CASE \/ StartGreen(q) \/ StartGreenPortTaken(q) \/ Probe(q)
             \/ Switch(q) \/ RemoveBlue(q)
    BY <1>2, <2>3
       DEF StartGreen, StartGreenPortTaken, Probe, Switch, RemoveBlue
  <2>4. CASE \/ ReadActive(q) \/ Supersede(q) \/ Record(q) \/ Succeed(q)
             \/ StartWatch(q)
    BY <1>2, <2>4 DEF ReadActive, Supersede, Record, Succeed, StartWatch
  <2>5. QED
    BY <1>2, <2>1, <2>2, <2>3, <2>4 DEF Forward
<1>3. CASE Backward(q)
  <2>1. rb' = rb
    <3>1. CASE UndoGreen(q) \/ UndoPlay(q)
      BY <3>1 DEF UndoGreen, UndoPlay
    <3>2. CASE Throw(q) \/ Repoint(q) \/ UndoRecord(q) \/ UndoFails(q)
                 \/ GiveUp(q)
      BY <3>2 DEF Throw, Repoint, UndoRecord, UndoFails, GiveUp
    <3>3. QED
      BY <1>3, <3>1, <3>2 DEF Backward
  <2>2. QED
    BY <1>3, <2>1
<1>4. CASE CancelGuard(q) \/ CancelWrite(q)
  <2>1. CASE CancelGuard(q)
    BY <2>1 DEF CancelGuard, Aside
  <2>2. CASE CancelWrite(q)
    BY <2>2 DEF CancelWrite, Aside
  <2>3. QED
    BY <1>4, <2>1, <2>2
<1>5. CASE OperatorRollback(q) \/ ManualRollback(q)
  <2>1. CASE OperatorRollback(q)
    BY <2>1 DEF OperatorRollback, RbFindCurrent, Aside
  <2>2. CASE RbFindsNone(q)
    BY <2>2 DEF RbFindsNone, Aside
  <2>3. CASE \/ RbFindPrevious(q) \/ RbFails(q) \/ RbRepoint(q)
             \/ RbRemoveGreen(q) \/ RbDemote(q) \/ RbPromote(q)
             \/ RbRecord(q)
    BY <2>3 DEF RbFindPrevious, RbFails, RbRepoint, RbRemoveGreen, RbDemote,
                RbPromote, RbRecord
  <2>4. QED
    BY <1>5, <2>1, <2>2, <2>3 DEF ManualRollback
<1>6. CASE Watch(q)
  <2>1. CASE OnDegrade(q)
    BY <2>1 DEF OnDegrade, RbFindCurrent, Aside
  <2>2. CASE CheckOk(q) \/ CheckFails(q) \/ DegradedOnly(q) \/ WatchEnds(q)
               \/ WatchBreaks(q)
    BY <2>2
       DEF CheckOk, CheckFails, DegradedOnly, WatchEnds, WatchBreaks, Aside
  <2>3. QED
    BY <1>6, <2>1, <2>2 DEF Watch
<1>7. QED
  BY <1>1, <1>2, <1>3, <1>4, <1>5, <1>6 DEF Acts

\* A run takes a port once: nothing leads back to before pickFreePort.
LEMMA Onward ==
  ASSUME TypeOK, NEW r \in Run, Acts(r),
         pc'[r] \in Request \cup {"pickPort"}
  PROVE  pc[r] \in Request \cup {"pickPort"} /\ ~PickPort(r)
<1> USE DEF TypeOK, Moves, Request, runVars
<1>1. CASE Plan(r)
  BY <1>1 DEF Plan, PickPort
<1>2. CASE Forward(r)
  <2>1. CASE \/ CreateRun(r) \/ MarkRunning(r) \/ PassLock(r) \/ FailLock(r)
    BY <2>1 DEF CreateRun, MarkRunning, PassLock, FailLock, PickPort
  <2>2. CASE \/ PickPort(r) \/ PlayStartGreen(r) \/ PlayStopBlue(r)
             \/ PlayDone(r) \/ PlayFails(r) \/ RemoveGreen(r)
    BY <2>2 DEF PickPort, PlayStartGreen, PlayStopBlue, PlayDone, PlayFails,
                RemoveGreen
  <2>3. CASE \/ StartGreen(r) \/ StartGreenPortTaken(r) \/ Probe(r)
             \/ Switch(r) \/ RemoveBlue(r)
    BY <2>3 DEF StartGreen, StartGreenPortTaken, Probe, Switch, RemoveBlue
  <2>4. CASE \/ ReadActive(r) \/ Supersede(r) \/ Record(r) \/ Succeed(r)
             \/ StartWatch(r)
    BY <2>4 DEF ReadActive, Supersede, Record, Succeed, StartWatch
  <2>5. QED
    BY <1>2, <2>1, <2>2, <2>3, <2>4 DEF Forward
<1>3. CASE Backward(r)
  BY <1>3 DEF Backward, Throw, Repoint, UndoGreen, UndoPlay, UndoRecord,
              UndoFails, GiveUp
<1>4. CASE ~(Plan(r) \/ Forward(r) \/ Backward(r))
  <2>1. pc' = pc
    BY <1>4 DEF Acts, CancelGuard, CancelWrite, OperatorRollback,
                ManualRollback, RbFindPrevious, RbFindsNone, RbFails,
                RbRepoint, RbRemoveGreen, RbDemote, RbPromote, RbRecord, Watch,
                CheckOk, CheckFails, OnDegrade, DegradedOnly, WatchEnds,
                WatchBreaks
  <2>2. port' = port
    BY <1>4, WhatChanges DEF Forward
  <2>3. ~PickPort(r)
    BY <1>4 DEF Forward
  <2>4. QED
    BY <2>1, <2>3
<1>5. QED
  BY <1>1, <1>2, <1>3, <1>4

\* The port of a run stays the one it was given.
LEMMA PortStays ==
  ASSUME TypeOK, PortOnce, [Next]_vars, NEW r \in Run
  PROVE  /\ Given(r) => port'[r] = port[r]
         /\ pc'[r] \in Request \cup {"pickPort"} => ~Given(r)'
<1>1. ASSUME NEW q \in Run, Acts(q), q # r
      PROVE  port'[r] = port[r] /\ pc'[r] = pc[r]
  BY <1>1, OthersKeepRow DEF SameRow
<1>2. CASE Acts(r)
  <2>1. PickPort(r) => ~Given(r)
    BY DEF PortOnce, PickPort, Moves
  <2>2. QED
    BY <1>2, <2>1, WhatChanges, Onward DEF PortOnce, Given
<1>3. CASE Crash \/ UNCHANGED vars
  BY <1>3 DEF Crash, vars, runVars, localVars, PortOnce, Given, TypeOK, Request
<1>4. QED
  BY <1>1, <1>2, <1>3 DEF Next, Acts, PortOnce, Given

\* What was a second deploy remains one.
LEMMA FirstBefore ==
  ASSUME TypeOK, PortOnce, [Next]_vars, FirstDeploys'
  PROVE  FirstDeploys
<1>1. \A r \in Run : NoRollback(r)
  <2> SUFFICES ASSUME NEW r \in Run PROVE NoRollback(r)
    OBVIOUS
  <2>1. NoRollback(r)'
    BY DEF FirstDeploys
  <2>2. ASSUME NEW q \in Run, Acts(q) PROVE NoRollback(r)
    BY <2>1, <2>2, IdleBefore, OthersKeepRow DEF SameRow, NoRollback
  <2>3. CASE Crash \/ UNCHANGED vars
    BY <2>1, <2>3 DEF Crash, vars, rbVars, TypeOK, NoRollback
  <2>4. QED
    BY <2>2, <2>3 DEF Next, Acts
<1>2. \A r \in Run : Given(r) => Given(r)'
  BY PortStays DEF Given
<1>3. QED
  BY <1>1, <1>2 DEF FirstDeploys

\* A step of a run while only first deploys are made: without the play and
\* without rollbacks.
FirstStep(q) == FirstDeploys /\ FirstDeploys' /\ Acts(q)

\* Of the steps of a run these touch the containers, the proxy, the rows.
LEMMA FirstActs ==
  ASSUME TypeOK, PortOnce, NEW q \in Run, FirstStep(q), PlaceInv(q)
  PROVE  /\ Aside(q) \/ Plan(q) \/ Forward(q) \/ Backward(q)
         /\ ~(PlayStartGreen(q) \/ PlayStopBlue(q) \/ PlayDone(q))
         /\ \/ container' = container
            \/ /\ Given(q)
               /\ \/ RemoveGreen(q) \/ StartGreen(q) \/ StartGreenPortTaken(q)
                  \/ RemoveBlue(q)
                  \/ UndoGreen(q) /\ started[q]
         /\ target' = target \/ Switch(q) \/ Repoint(q)
         /\ status' = status \/ Supersede(q) \/ Record(q)
<1> USE DEF FirstStep
<1>1. NoRollback(q) /\ NoRollback(q)' /\ ~PlayWorks
  BY IdleBefore DEF FirstDeploys
<1>2. ~ (RbRepoint(q) \/ RbRemoveGreen(q) \/ RbDemote(q) \/ RbPromote(q))
  BY <1>1 DEF RbRepoint, RbRemoveGreen, RbDemote, RbPromote, RbMoves,
              NoRollback
<1>3. Aside(q) \/ Plan(q) \/ Forward(q) \/ Backward(q)
  BY <1>1, IdleBefore
<1>4. ~(PlayStartGreen(q) \/ PlayStopBlue(q) \/ PlayDone(q))
  BY <1>1 DEF PlaceInv, PlayStartGreen, PlayStopBlue, PlayDone, Moves
<1>5. UndoPlay(q) => container' = container
  BY <1>1, AfterUndoPlay
<1>6. (\/ RemoveGreen(q) \/ StartGreen(q) \/ StartGreenPortTaken(q)
       \/ RemoveBlue(q)
       \/ UndoGreen(q) /\ started[q]) => Given(q)
  <2>1. CASE RemoveGreen(q) \/ StartGreen(q) \/ StartGreenPortTaken(q)
               \/ RemoveBlue(q)
    <3>1. pc[q] \in {"remove", "start", "drain"}
      BY <2>1 DEF RemoveGreen, StartGreen, StartGreenPortTaken, RemoveBlue,
                  Moves
    <3>2. QED
      BY <3>1 DEF PlaceInv, Request, Undo, Ended
  <2>2. CASE started[q]
    BY <2>2 DEF PlaceInv
  <2>3. QED
    BY <2>1, <2>2
<1>7. QED
  BY <1>2, <1>3, <1>4, <1>5, <1>6, WhatChanges
     DEF ChangesContainers, ChangesTarget, ChangesRecord

\* Where a throw comes from, when only what comes before the removal of blue
\* may throw.
LEMMA ThrowsEarly ==
  ASSUME FirstDeploys, NEW q \in Run, Throw(q)
  PROVE  /\ pc[q] \in Pipeline \ AfterBlue
         /\ pc[q] = "drain" => "drain" \in Faulty
<1>1. Throws(q)
  BY DEF Throw
<1>2. pc[q] \in Pipeline \cup Closing
  BY <1>1 DEF Throws, Pipeline
<1>3. pc[q] \in {"drain"} \cup AfterBlue => pc[q] \in Faulty
  BY <1>1 DEF Throws, AfterBlue, Closing
<1>4. Faulty \cap AfterBlue = {}
  BY DEF FirstDeploys
<1>5. Closing \subseteq AfterBlue
  BY DEF AfterBlue
<1>6. QED
  BY <1>2, <1>3, <1>4, <1>5

\* Where a first deploy stands, after its own step and after another's.
LEMMA OwnPlace ==
  ASSUME TypeOK, PortOnce, NEW q \in Run, FirstStep(q), PlaceInv(q)
  PROVE  PlaceInv(q)'
<1> USE DEF TypeOK, Moves, Request, AfterBlue, Closing, Undo, Ended, PlaceInv,
            Given, localVars
<1>1. CASE Aside(q) \/ Plan(q)
  BY <1>1 DEF Aside, Plan
<1>2. CASE Forward(q)
  <2>1. ~(PlayStartGreen(q) \/ PlayStopBlue(q) \/ PlayDone(q))
    BY FirstActs
  <2>2. CASE \/ CreateRun(q) \/ MarkRunning(q) \/ PassLock(q) \/ FailLock(q)
    BY <2>2 DEF CreateRun, MarkRunning, PassLock, FailLock
  <2>3. CASE PickPort(q)
    <3>1. port'[q] # NoPort /\ pc'[q] = "play" /\ state' = state
          /\ switched' = switched /\ pc[q] = "pickPort"
      BY <2>3, DeployAssumption DEF PickPort, Free
    <3>2. QED
      BY <3>1
  <2>4. CASE PlayFails(q)
    BY <2>4 DEF PlayFails
  <2>5. CASE RemoveGreen(q) \/ StartGreen(q) \/ StartGreenPortTaken(q)
    BY <2>5 DEF RemoveGreen, StartGreen, StartGreenPortTaken
  <2>6. CASE Probe(q) \/ Switch(q) \/ RemoveBlue(q)
    BY <2>6 DEF Probe, Switch, RemoveBlue
  <2>7. CASE \/ ReadActive(q) \/ Supersede(q) \/ Record(q) \/ Succeed(q)
             \/ StartWatch(q)
    BY <2>7 DEF ReadActive, Supersede, Record, Succeed, StartWatch
  <2>8. QED
    BY <1>2, <2>1, <2>2, <2>3, <2>4, <2>5, <2>6, <2>7 DEF Forward
<1>3. CASE Backward(q)
  <2>1. CASE Throw(q)
    BY <2>1, ThrowsEarly DEF Throw, FirstStep, Pipeline
  <2>2. CASE Repoint(q) \/ UndoGreen(q) \/ UndoPlay(q) \/ UndoRecord(q)
    BY <2>2 DEF Repoint, UndoGreen, UndoPlay, UndoRecord
  <2>3. CASE UndoFails(q) \/ GiveUp(q)
    BY <2>3 DEF UndoFails, GiveUp
  <2>4. QED
    BY <1>3, <2>1, <2>2, <2>3 DEF Backward
<1>4. QED
  BY <1>1, <1>2, <1>3, FirstActs

LEMMA PlaceStep ==
  ASSUME TypeOK, PortOnce, NEW q \in Run, FirstStep(q),
         \A r \in Run : PlaceInv(r)
  PROVE  \A r \in Run : PlaceInv(r)'
<1> SUFFICES ASSUME NEW r \in Run, r # q PROVE PlaceInv(r)'
  BY OwnPlace
<1>1. SameRow(r)
  BY OthersKeepRow DEF FirstStep
<1>2. QED
  BY <1>1 DEF SameRow, PlaceInv, Given

\* A row that exists stays.
LEMMA RowsStay ==
  ASSUME TypeOK, PortOnce, NEW q \in Run, FirstStep(q), PlaceInv(q)
  PROVE  \A v \in Version : status[v] # "none" => status'[v] # "none"
<1>1. CASE Supersede(q) \/ Record(q)
  BY <1>1 DEF Supersede, Record, TypeOK
<1>2. QED
  BY <1>1, FirstActs

\* A run has its row in the table when it has written it.
LEMMA OwnRow ==
  ASSUME TypeOK, PortOnce, NEW q \in Run, FirstStep(q), PlaceInv(q),
         Recording(q) => status[q] = "none",
         pc[q] \in {"succeed", "alert"} => status[q] # "none"
  PROVE  /\ Recording(q)' => Recording(q) /\ ~Record(q)
         /\ (pc[q] \in {"succeed", "alert"})' => status'[q] # "none"
         /\ pc'[q] = "done" /\ pc[q] # "done" => status'[q] = status[q]
<1> USE DEF TypeOK, Moves, Recording, recordVars
<1>0. status'[q] = "none" => status[q] = "none"
  BY RowsStay DEF Version
<1>1. CASE Aside(q) \/ Plan(q)
  BY <1>0, <1>1 DEF Aside, Plan, Record
<1>2. CASE Forward(q)
  <2>1. ~(PlayStartGreen(q) \/ PlayStopBlue(q) \/ PlayDone(q))
    BY FirstActs
  <2>2. CASE Record(q)
    BY <2>2 DEF Record, Version
  <2>3. CASE \/ CreateRun(q) \/ MarkRunning(q) \/ PassLock(q) \/ FailLock(q)
             \/ PickPort(q)
    BY <2>3 DEF CreateRun, MarkRunning, PassLock, FailLock, PickPort, Record
  <2>4. CASE PlayFails(q)
    BY <2>4 DEF PlayFails, Record
  <2>5. CASE \/ RemoveGreen(q) \/ StartGreen(q) \/ StartGreenPortTaken(q)
             \/ Probe(q) \/ Switch(q) \/ RemoveBlue(q)
    BY <2>5 DEF RemoveGreen, StartGreen, StartGreenPortTaken, Probe, Switch,
                RemoveBlue, Record
  <2>6. CASE ReadActive(q) \/ Supersede(q) \/ Succeed(q) \/ StartWatch(q)
    BY <1>0, <2>6 DEF ReadActive, Supersede, Succeed, StartWatch, Record
  <2>7. QED
    BY <1>2, <2>1, <2>2, <2>3, <2>4, <2>5, <2>6 DEF Forward
<1>3. CASE Backward(q)
  <2>1. CASE Throw(q)
    BY <2>1, ThrowsEarly
       DEF Throw, FirstStep, Pipeline, AfterBlue, Closing, Record
  <2>2. CASE \/ Repoint(q) \/ UndoGreen(q) \/ UndoPlay(q) \/ UndoRecord(q)
             \/ UndoFails(q) \/ GiveUp(q)
    BY <2>2 DEF Repoint, UndoGreen, UndoPlay, UndoRecord, UndoFails, GiveUp,
                Record
  <2>3. QED
    BY <1>3, <2>1, <2>2 DEF Backward
<1>4. QED
  BY <1>1, <1>2, <1>3, FirstActs

\* Only the read of the record of truth sets prev.
LEMMA PrevStays ==
  ASSUME NEW q \in Run, Aside(q) \/ Plan(q) \/ Forward(q) \/ Backward(q),
         ~ReadActive(q)
  PROVE  prev' = prev
<1> USE DEF localVars
<1>1. CASE Aside(q) \/ Plan(q)
  BY <1>1 DEF Aside, Plan
<1>2. CASE Forward(q)
  <2>1. CASE \/ CreateRun(q) \/ MarkRunning(q) \/ PassLock(q) \/ FailLock(q)
             \/ PickPort(q) \/ PlayStartGreen(q) \/ PlayStopBlue(q)
    BY <2>1 DEF CreateRun, MarkRunning, PassLock, FailLock, PickPort,
                PlayStartGreen, PlayStopBlue
  <2>2. CASE \/ PlayDone(q) \/ PlayFails(q) \/ RemoveGreen(q) \/ StartGreen(q)
             \/ StartGreenPortTaken(q) \/ Probe(q) \/ Switch(q)
    BY <2>2 DEF PlayDone, PlayFails, RemoveGreen, StartGreen,
                StartGreenPortTaken, Probe, Switch
  <2>3. CASE \/ RemoveBlue(q) \/ Supersede(q) \/ Record(q) \/ Succeed(q)
             \/ StartWatch(q)
    BY <2>3 DEF RemoveBlue, Supersede, Record, Succeed, StartWatch
  <2>4. QED
    BY <1>2, <2>1, <2>2, <2>3 DEF Forward
<1>3. CASE Backward(q)
  BY <1>3 DEF Backward, Throw, Repoint, UndoGreen, UndoPlay, UndoRecord,
              UndoFails, GiveUp
<1>4. QED
  BY <1>1, <1>2, <1>3

\* What the rows say of the runs is kept.
LEMMA RowStep ==
  ASSUME TypeOK, PortOnce, NEW q \in Run, FirstStep(q), [Next]_vars,
         \A r \in Run : PlaceInv(r), RowInv
  PROVE  RowInv'
<1> USE DeployAssumption DEF Version
<1>0. \A v \in Version : status[v] # "none" => status'[v] # "none"
  BY RowsStay
<1>1. \A v \in Version : status'[v] # "none" =>
         status[v] # "none" \/ (v = q /\ Record(q))
  <2>1. CASE Supersede(q)
    <3>1. pc[q] = "supersede" /\ (prev[q] # None => status[prev[q]] # "none")
      BY <2>1 DEF Supersede, Moves, RowInv
    <3>2. QED
      BY <2>1, <3>1 DEF Supersede, TypeOK
  <2>2. CASE Record(q)
    BY <2>2 DEF Record, TypeOK
  <2>3. QED
    BY <2>1, <2>2, FirstActs
<1>2. ASSUME NEW r \in Run
      PROVE  /\ status'[r] # "none" => Given(r)'
             /\ Recording(r)' => status'[r] = "none"
             /\ (pc[r] \in {"succeed", "alert"})' => status'[r] # "none"
  <2>1. Given(r) => Given(r)'
    BY PortStays DEF Given
  <2>2. Record(q) => Given(q)
    BY DEF Record, Moves, PlaceInv, Request, Undo, Ended
  <2>3. CASE r = q
    BY <1>1, <2>1, <2>2, <2>3, OwnRow DEF RowInv
  <2>4. CASE r # q
    <3>1. SameRow(r)
      BY <2>4, OthersKeepRow DEF FirstStep
    <3>2. QED
      BY <1>0, <1>1, <2>1, <2>4, <3>1 DEF RowInv, SameRow, Recording
  <2>5. QED
    BY <2>3, <2>4
<1>3. ASSUME NEW r \in Run, prev'[r] # None PROVE status'[prev'[r]] # "none"
  <2>1. prev'[r] \in Version
    BY <1>3, NextType DEF TypeOK
  <2>2. CASE ReadActive(q) /\ r = q
    <3>1. status[prev'[r]] = "active"
      BY <1>3, <2>2 DEF ReadActive, Latest, TypeOK
    <3>2. QED
      BY <1>0, <2>1, <3>1
  <2>3. CASE prev'[r] = prev[r]
    BY <1>0, <1>3, <2>1, <2>3 DEF RowInv
  <2>4. CASE r # q
    BY <2>3, <2>4, OthersKeepRow DEF FirstStep, SameRow
  <2>5. ~ReadActive(q) => prev' = prev
    BY FirstActs, PrevStays
  <2>6. QED
    BY <2>2, <2>3, <2>4, <2>5
<1>4. QED
  BY <1>0, <1>2, <1>3 DEF RowInv

\* A row appears when its run records it.
LEMMA RowsAppear ==
  ASSUME TypeOK, PortOnce, NEW q \in Run, FirstStep(q), PlaceInv(q), RowInv
  PROVE  \A v \in Version : status'[v] # "none" =>
           status[v] # "none" \/ (v = q /\ Record(q))
<1> USE DeployAssumption DEF Version
<1>1. CASE Supersede(q)
  <2>1. pc[q] = "supersede" /\ (prev[q] # None => status[prev[q]] # "none")
    BY <1>1 DEF Supersede, Moves, RowInv
  <2>2. QED
    BY <1>1, <2>1 DEF Supersede, TypeOK
<1>2. CASE Record(q)
  BY <1>2 DEF Record, TypeOK
<1>3. QED
  BY <1>1, <1>2, FirstActs

\* The containers a step touches are those of its run's own application.
LEMMA WhichContainer ==
  ASSUME TypeOK, PortOnce, NEW q \in Run, FirstStep(q), PlaceInv(q),
         NEW n \in Name, container'[n] # container[n]
  PROVE  /\ Given(q)
         /\ \/ /\ n = greenName(q)
               /\ \/ RemoveGreen(q) \/ StartGreen(q) \/ StartGreenPortTaken(q)
                  \/ UndoGreen(q) /\ started[q]
            \/ n = blueName(q) /\ RemoveBlue(q)
<1> USE Names DEF TypeOK, Version
<1>1. Given(q)
  BY FirstActs
<1>2. CASE RemoveGreen(q) \/ (UndoGreen(q) /\ started[q])
  BY <1>1, <1>2 DEF RemoveGreen, UndoGreen, Remove
<1>3. CASE StartGreen(q) \/ StartGreenPortTaken(q)
  BY <1>1, <1>3 DEF StartGreen, StartGreenPortTaken, Put
<1>4. CASE RemoveBlue(q)
  BY <1>1, <1>4 DEF RemoveBlue, Remove
<1>5. QED
  BY <1>2, <1>3, <1>4, FirstActs

\* A run that has its blue container up afterwards had it up before.
LEMMA OnBlueBefore ==
  ASSUME TypeOK, PortOnce, NEW q \in Run, FirstStep(q), PlaceInv(q), RowInv,
         Given(q), OnBlue(q)'
  PROVE  OnBlue(q) /\ ~RemoveBlue(q)
<1> USE DEF TypeOK, Moves, OnBlue, Before, Undo, PlaceInv, recordVars
<1>0. pc[q] \notin Request \cup {"pickPort"}
  BY DEF PortOnce
<1>1. CASE Aside(q) \/ Plan(q)
  BY <1>0, <1>1 DEF Aside, Plan, RemoveBlue, Request
<1>2. CASE Forward(q)
  <2>1. ~(PlayStartGreen(q) \/ PlayStopBlue(q) \/ PlayDone(q))
    BY FirstActs
  <2>2. CASE \/ CreateRun(q) \/ MarkRunning(q) \/ PassLock(q) \/ FailLock(q)
             \/ PickPort(q)
    BY <1>0, <2>2
       DEF CreateRun, MarkRunning, PassLock, FailLock, PickPort, Request
  <2>3. CASE PlayFails(q) \/ RemoveGreen(q)
    BY <2>3 DEF PlayFails, RemoveGreen, RemoveBlue
  <2>4. CASE \/ StartGreen(q) \/ StartGreenPortTaken(q) \/ Probe(q)
             \/ Switch(q)
    BY <2>4 DEF StartGreen, StartGreenPortTaken, Probe, Switch, RemoveBlue
  <2>5. CASE \/ RemoveBlue(q) \/ ReadActive(q) \/ Supersede(q) \/ Record(q)
             \/ Succeed(q)
    BY <2>5 DEF RemoveBlue, ReadActive, Supersede, Record, Succeed
  <2>6. CASE StartWatch(q)
    BY <2>6 DEF StartWatch, RowInv
  <2>7. QED
    BY <1>2, <2>1, <2>2, <2>3, <2>4, <2>5, <2>6 DEF Forward
<1>3. CASE Backward(q)
  <2>1. CASE Throw(q)
    BY <1>0, <2>1, ThrowsEarly
       DEF Throw, FirstStep, Pipeline, AfterBlue, RemoveBlue
  <2>2. CASE Repoint(q) \/ UndoGreen(q) \/ UndoPlay(q) \/ UndoRecord(q)
    BY <2>2 DEF Repoint, UndoGreen, UndoPlay, UndoRecord, RemoveBlue
  <2>3. CASE UndoFails(q) \/ GiveUp(q)
    BY <1>0, <2>3 DEF UndoFails, GiveUp, RemoveBlue, Request
  <2>4. QED
    BY <1>3, <2>1, <2>2, <2>3 DEF Backward
<1>4. QED
  BY <1>1, <1>2, <1>3, FirstActs

\* A step removes no blue container but that of its own application.
LEMMA BlueStep ==
  ASSUME TypeOK, PortOnce, NEW q \in Run, FirstStep(q), [Next]_vars,
         \A r \in Run : PlaceInv(r), RowInv, BlueInv
  PROVE  BlueInv'
<1> SUFFICES ASSUME NEW s \in Seed,
                    \A r \in Run :
                      Given(r)' /\ AppOf[r] = AppOf[s] => OnBlue(r)'
             PROVE  BlueOf(s)'
  BY DEF BlueInv
<1>1. \A r \in Run : Given(r) => Given(r)'
  BY PortStays DEF Given
<1>2. ASSUME NEW r \in Run, Given(r), AppOf[r] = AppOf[s]
      PROVE  OnBlue(r)
  <2>1. OnBlue(r)'
    BY <1>1, <1>2
  <2>2. CASE r = q
    BY <1>2, <2>1, <2>2, OnBlueBefore
  <2>3. CASE r # q
    <3>1. SameRow(r)
      BY <2>3, OthersKeepRow DEF FirstStep
    <3>2. status'[r] = "none" => status[r] = "none"
      BY RowsStay DEF Version
    <3>3. QED
      BY <2>1, <3>1, <3>2 DEF SameRow, OnBlue
  <2>4. QED
    BY <2>2, <2>3
<1>3. BlueOf(s)
  BY <1>2 DEF BlueInv
<1>4. blueName(s) \in Name
  BY Names DEF Version
<1>5. container'[blueName(s)] = container[blueName(s)]
  <2> SUFFICES ASSUME container'[blueName(s)] # container[blueName(s)]
               PROVE  FALSE
    OBVIOUS
  <2>1. /\ Given(q)
        /\ \/ blueName(s) = greenName(q)
           \/ blueName(s) = blueName(q) /\ RemoveBlue(q)
    BY <1>4, WhichContainer
  <2>2. AppOf[q] = AppOf[s] /\ RemoveBlue(q)
    BY <2>1, Names DEF Version
  <2>3. OnBlue(q)'
    BY <1>1, <2>1, <2>2
  <2>4. QED
    BY <2>1, <2>2, <2>3, OnBlueBefore
<1>6. QED
  BY <1>3, <1>5 DEF BlueOf, blueName

-----------------------------------------------------------------------------
(* Green                                                                   *)

\* Green stands from its start on, and its run leaves it alone.
LEMMA StandsBefore ==
  ASSUME TypeOK, PortOnce, NEW q \in Run, FirstStep(q), PlaceInv(q), RowInv,
         GreenStands(q)', ~StartGreen(q)
  PROVE  /\ GreenStands(q)
         /\ ~(\/ RemoveGreen(q) \/ StartGreenPortTaken(q)
              \/ (UndoGreen(q) /\ started[q]))
<1> USE DEF TypeOK, Moves, GreenStands, AfterBlue, Closing
<1>0. /\ pc'[q] = "done" /\ pc[q] # "done" => status'[q] = status[q]
      /\ Recording(q) => status[q] = "none"
  BY OwnRow DEF RowInv
<1>1. CASE Aside(q) \/ Plan(q)
  BY <1>1 DEF Aside, Plan, RemoveGreen, StartGreenPortTaken, UndoGreen,
              localVars, recordVars
<1>2. CASE Forward(q)
  <2>1. ~(PlayStartGreen(q) \/ PlayStopBlue(q) \/ PlayDone(q))
    BY FirstActs
  <2>2. CASE FailLock(q)
    BY <1>0, <2>2 DEF FailLock, Recording
  <2>3. CASE CreateRun(q) \/ MarkRunning(q) \/ PassLock(q) \/ PickPort(q)
    BY <2>3 DEF CreateRun, MarkRunning, PassLock, PickPort
  <2>4. CASE PlayFails(q) \/ RemoveGreen(q) \/ StartGreenPortTaken(q)
    <3>1. /\ pc[q] \in {"play", "playing", "remove", "start"}
          /\ pc'[q] \in {"remove", "repoint", "start"}
          /\ switched' = switched
      BY <2>4 DEF PlayFails, RemoveGreen, StartGreenPortTaken, localVars
    <3>2. ~switched[q]
      BY <3>1 DEF PlaceInv, Undo, Ended
    <3>3. QED
      BY <3>1, <3>2
  <2>5. CASE Probe(q) \/ Switch(q) \/ RemoveBlue(q)
    BY <2>5 DEF Probe, Switch, RemoveBlue, RemoveGreen, StartGreenPortTaken,
                UndoGreen
  <2>6. CASE \/ ReadActive(q) \/ Supersede(q) \/ Record(q) \/ Succeed(q)
             \/ StartWatch(q)
    BY <2>6 DEF ReadActive, Supersede, Record, Succeed, StartWatch,
                RemoveGreen, StartGreenPortTaken, UndoGreen
  <2>7. QED
    BY <1>2, <2>1, <2>2, <2>3, <2>4, <2>5, <2>6 DEF Forward
<1>3. CASE Backward(q)
  <2>1. CASE Throw(q)
    <3>1. /\ pc[q] \in Pipeline \ AfterBlue /\ pc'[q] = "repoint"
          /\ switched' = switched
      BY <2>1, ThrowsEarly DEF Throw, FirstStep, localVars
    <3>2. switched[q]
      BY <3>1
    <3>3. pc[q] = "drain"
      BY <3>1, <3>2 DEF PlaceInv, Undo, Ended, Pipeline
    <3>4. QED
      BY <3>3 DEF RemoveGreen, StartGreenPortTaken, UndoGreen
  <2>2. CASE Repoint(q) \/ UndoGreen(q) \/ UndoPlay(q)
    BY <2>2 DEF Repoint, UndoGreen, UndoPlay
  <2>3. CASE UndoRecord(q)
    BY <1>0, <2>3 DEF UndoRecord, Recording
  <2>4. CASE UndoFails(q) \/ GiveUp(q)
    BY <1>0, <2>4 DEF UndoFails, GiveUp, Recording
  <2>5. QED
    BY <1>3, <2>1, <2>2, <2>3, <2>4 DEF Backward
<1>4. QED
  BY <1>1, <1>2, <1>3, FirstActs

\* A green container stands while other runs work.
LEMMA StandsStep ==
  ASSUME TypeOK, PortOnce, NEW q \in Run, FirstStep(q), [Next]_vars,
         \A r \in Run : PlaceInv(r), RowInv, StandsInv
  PROVE  StandsInv'
<1> SUFFICES ASSUME NEW r \in Run, GreenStands(r)' PROVE GreenRuns(r)'
  BY DEF StandsInv
<1>1. greenName(r) \in Name
  BY Names DEF Version
<1>2. CASE StartGreen(q) /\ r = q
  BY <1>1, <1>2 DEF StartGreen, Put, GreenRuns, TypeOK, greenName
<1>3. CASE ~(StartGreen(q) /\ r = q)
  <2>1. GreenStands(r)
    <3>1. CASE r = q
      BY <1>3, <3>1, StandsBefore
    <3>2. CASE r # q
      <4>1. SameRow(r)
        BY <3>2, OthersKeepRow DEF FirstStep
      <4>2. status'[r] # "none" => status[r] # "none"
        BY <3>2, RowsAppear DEF Version
      <4>3. QED
        BY <4>1, <4>2 DEF SameRow, GreenStands
    <3>3. QED
      BY <3>1, <3>2
  <2>2. GreenRuns(r)
    BY <2>1 DEF StandsInv
  <2>3. Given(r)
    BY <2>1 DEF GreenStands, PlaceInv, RowInv, AfterBlue, Closing, Request,
                Undo, Ended
  <2>4. container'[greenName(r)] = container[greenName(r)]
    <3> SUFFICES ASSUME container'[greenName(r)] # container[greenName(r)]
                 PROVE  FALSE
      OBVIOUS
    <3>1. /\ Given(q)
          /\ \/ /\ greenName(r) = greenName(q)
                /\ \/ RemoveGreen(q) \/ StartGreen(q)
                   \/ StartGreenPortTaken(q)
                   \/ UndoGreen(q) /\ started[q]
             \/ greenName(r) = blueName(q)
      BY <1>1, WhichContainer
    <3>2. /\ AppOf[q] = AppOf[r]
          /\ \/ RemoveGreen(q) \/ StartGreen(q) \/ StartGreenPortTaken(q)
             \/ UndoGreen(q) /\ started[q]
      BY <3>1, Names DEF Version
    <3>3. q = r
      BY <2>3, <3>1, <3>2 DEF FirstStep, FirstDeploys
    <3>4. QED
      BY <1>3, <3>2, <3>3, StandsBefore
  <2>5. port'[r] = port[r]
    BY <2>3, PortStays
  <2>6. QED
    BY <2>2, <2>4, <2>5 DEF GreenRuns, greenName
<1>4. QED
  BY <1>2, <1>3

-----------------------------------------------------------------------------
(* The proxy                                                               *)

\* What a step does to the place of its run, as far as the proxy goes.
LEMMA WhereTo ==
  ASSUME TypeOK, PortOnce, NEW q \in Run, FirstStep(q), PlaceInv(q)
  PROVE  /\ switched[q] => switched'[q]
         /\ pc'[q] = "drain" => pc[q] = "drain" \/ Switch(q)
         /\ pc'[q] = "undoGreen" => pc[q] = "undoGreen" \/ Repoint(q)
<1> USE DEF TypeOK, Moves, localVars
<1>1. CASE Aside(q) \/ Plan(q)
  BY <1>1 DEF Aside, Plan
<1>2. CASE Forward(q)
  <2>1. ~(PlayStartGreen(q) \/ PlayStopBlue(q) \/ PlayDone(q))
    BY FirstActs
  <2>2. CASE \/ CreateRun(q) \/ MarkRunning(q) \/ PassLock(q) \/ FailLock(q)
             \/ PickPort(q) \/ PlayFails(q)
    BY <2>2
       DEF CreateRun, MarkRunning, PassLock, FailLock, PickPort, PlayFails
  <2>3. CASE \/ RemoveGreen(q) \/ StartGreen(q) \/ StartGreenPortTaken(q)
             \/ Probe(q) \/ Switch(q) \/ RemoveBlue(q)
    BY <2>3 DEF RemoveGreen, StartGreen, StartGreenPortTaken, Probe, Switch,
                RemoveBlue
  <2>4. CASE \/ ReadActive(q) \/ Supersede(q) \/ Record(q) \/ Succeed(q)
             \/ StartWatch(q)
    BY <2>4 DEF ReadActive, Supersede, Record, Succeed, StartWatch
  <2>5. QED
    BY <1>2, <2>1, <2>2, <2>3, <2>4 DEF Forward
<1>3. CASE Backward(q)
  BY <1>3 DEF Backward, Throw, Repoint, UndoGreen, UndoPlay, UndoRecord,
              UndoFails, GiveUp
<1>4. QED
  BY <1>1, <1>2, <1>3, FirstActs

\* Back on blue: a run that has switched and throws finds blue up.
LEMMA BlueIsBack ==
  ASSUME FirstDeploys, NEW q \in Run, PlaceInv(q), BlueInv,
         pc[q] = "repoint", switched[q]
  PROVE  \E s \in Seed : AppOf[s] = AppOf[q] /\ BlueOf(s)
<1>1. Given(q) /\ "drain" \in Faulty
  BY DEF PlaceInv, Undo
<1>2. PICK s \in Seed : AppOf[s] = AppOf[q]
  BY <1>1 DEF FirstDeploys
<1>3. ASSUME NEW r \in Run, Given(r), AppOf[r] = AppOf[s] PROVE OnBlue(r)
  BY <1>1, <1>2, <1>3 DEF FirstDeploys, OnBlue, Undo
<1>4. QED
  BY <1>2, <1>3 DEF BlueInv

\* A step that does not point the proxy elsewhere leaves alone the container it
\* points at, and nobody is about to remove that either.
LEMMA TargetKept ==
  ASSUME TypeOK, PortOnce, NEW q \in Run, FirstStep(q), [Next]_vars, FirstInv,
         ProxyUp, ~Switch(q), ~(Repoint(q) /\ switched[q])
  PROVE  /\ target' = target
         /\ \E n \in Name : /\ Kept(n)' /\ container'[n] = container[n]
                            /\ container[n].up /\ container[n].port = target
                            /\ container[n].version \in Version
<1> USE Names DEF Version
<1>1. target' = target
  BY FirstActs DEF FirstInv, Repoint
<1>2. PICK n \in Name : /\ Kept(n) /\ container[n].up
                        /\ container[n].port = target
                        /\ container[n].version \in Version
  BY <1>1 DEF FirstInv, TargetInv, ProxyUp
<1>3. Kept(n)' /\ container'[n] = container[n]
  <2> DEFINE Undrained(s) ==
               /\ n = blueName(s)
               /\ \A r \in Run : Given(r) /\ AppOf[r] = AppOf[s] =>
                    pc[r] # "drain"
  <2>1. CASE \E s \in Seed : Undrained(s)
    <3>1. PICK s \in Seed : Undrained(s)
      BY <2>1
    <3>2. ASSUME NEW r \in Run, Given(r)', AppOf[r] = AppOf[s]
          PROVE  pc'[r] # "drain"
      <4>1. CASE r = q
        <5>1. CASE Given(q)
          BY <3>1, <3>2, <4>1, <5>1, WhereTo DEF FirstInv
        <5>2. CASE ~Given(q)
          BY <4>1, <5>2, WhereTo DEF FirstInv, PlaceInv, Request, Undo, Ended
        <5>3. QED
          BY <5>1, <5>2
      <4>2. CASE r # q
        BY <3>1, <3>2, <4>2, OthersKeepRow DEF FirstStep, SameRow, Given
      <4>3. QED
        BY <4>1, <4>2
    <3>3. Kept(n)'
      BY <3>1, <3>2 DEF Kept, blueName
    <3>4. container'[n] = container[n]
      <4> SUFFICES ASSUME container'[n] # container[n] PROVE FALSE
        OBVIOUS
      <4>1. /\ Given(q)
            /\ n = greenName(q) \/ (n = blueName(q) /\ RemoveBlue(q))
        BY WhichContainer DEF FirstInv
      <4>2. AppOf[q] = AppOf[s] /\ RemoveBlue(q)
        BY <3>1, <4>1
      <4>3. pc[q] = "drain"
        BY <4>2 DEF RemoveBlue, Moves
      <4>4. QED
        BY <3>1, <4>1, <4>2, <4>3
    <3>5. QED
      BY <3>3, <3>4
  <2>2. CASE \E r \in Run : /\ n = greenName(r)
                            /\ Given(r) /\ switched[r] /\ pc[r] # "undoGreen"
    <3>1. PICK r \in Run : /\ n = greenName(r)
                           /\ Given(r) /\ switched[r] /\ pc[r] # "undoGreen"
      BY <2>2
    <3>2. Given(r)' /\ switched'[r] /\ pc'[r] # "undoGreen"
      <4>1. Given(r)'
        BY <3>1, PortStays DEF Given
      <4>2. CASE r = q
        BY <3>1, <4>1, <4>2, WhereTo DEF FirstInv
      <4>3. CASE r # q
        BY <3>1, <4>1, <4>3, OthersKeepRow DEF FirstStep, SameRow
      <4>4. QED
        BY <4>2, <4>3
    <3>3. Kept(n)'
      BY <3>1, <3>2 DEF Kept, greenName
    <3>4. container'[n] = container[n]
      <4> SUFFICES ASSUME container'[n] # container[n] PROVE FALSE
        OBVIOUS
      <4>1. /\ Given(q)
            /\ \/ /\ n = greenName(q)
                  /\ \/ RemoveGreen(q) \/ StartGreen(q)
                     \/ StartGreenPortTaken(q)
                     \/ UndoGreen(q) /\ started[q]
               \/ n = blueName(q)
        BY WhichContainer DEF FirstInv
      <4>2. /\ AppOf[q] = AppOf[r]
            /\ pc[q] \in {"remove", "start", "undoGreen"}
        BY <3>1, <4>1 DEF RemoveGreen, StartGreen, StartGreenPortTaken,
                          UndoGreen, Moves
      <4>3. q = r
        BY <3>1, <4>1, <4>2 DEF FirstStep, FirstDeploys
      <4>4. QED
        BY <3>1, <4>2, <4>3 DEF FirstInv, PlaceInv, AfterBlue, Closing, Undo,
                                Ended
    <3>5. QED
      BY <3>3, <3>4
  <2>3. QED
    BY <1>2, <2>1, <2>2 DEF Kept
<1>4. QED
  BY <1>1, <1>2, <1>3

\* Whatever a first deploy does, the proxy points at a container that is up.
LEMMA TargetStep ==
  ASSUME TypeOK, PortOnce, NEW q \in Run, FirstStep(q), [Next]_vars, FirstInv
  PROVE  TargetInv'
<1> USE Names DEF Version
<1> SUFFICES ASSUME ProxyUp'
             PROVE  \E n \in Name : /\ Kept(n)' /\ container'[n].up
                                    /\ container'[n].port = target'
                                    /\ container'[n].version \in Version
  BY DEF TargetInv
<1>1. CASE Switch(q)
  <2>1. /\ pc[q] = "switch" /\ pc'[q] = "drain" /\ switched'[q]
        /\ target' = port[q] /\ container' = container /\ port' = port
    BY <1>1 DEF Switch, Moves, TypeOK
  <2>2. GreenRuns(q)
    BY <2>1 DEF FirstInv, StandsInv, GreenStands
  <2>3. Given(q)
    BY <2>1 DEF FirstInv, PlaceInv, Request, Undo, Ended
  <2>4. Kept(greenName(q))'
    BY <2>1, <2>3 DEF Kept, Given, greenName
  <2>5. QED
    BY <2>1, <2>2, <2>4 DEF GreenRuns
<1>2. CASE Repoint(q) /\ switched[q]
  <2>1. /\ pc[q] = "repoint" /\ pc'[q] = "undoGreen" /\ port' = port
        /\ container' = container
        /\ target' = IF target # NoPort /\ container[blueName(q)].up
                     THEN container[blueName(q)].port ELSE target
    BY <1>2 DEF Repoint, Moves, PointAt, TypeOK, localVars
  <2>2. PICK s \in Seed : AppOf[s] = AppOf[q] /\ BlueOf(s)
    BY <1>2, <2>1, BlueIsBack DEF FirstInv, FirstStep
  <2>3. blueName(s) = blueName(q)
    BY <2>2
  <2>4. /\ container[blueName(s)].up /\ container[blueName(s)].port = target'
        /\ container[blueName(s)].version = s
    <3>1. target # NoPort
      BY <2>1 DEF ProxyUp
    <3>2. QED
      BY <2>1, <2>2, <2>3, <3>1 DEF BlueOf
  <2>5. Given(q)
    BY <1>2 DEF FirstInv, PlaceInv
  <2>6. \A r \in Run : Given(r)' /\ AppOf[r] = AppOf[s] => pc'[r] # "drain"
    BY <2>1, <2>2, <2>5 DEF FirstStep, FirstDeploys, Given
  <2>7. Kept(blueName(s))'
    BY <2>6 DEF Kept, blueName
  <2>8. QED
    BY <2>1, <2>4, <2>7
<1>3. CASE ~Switch(q) /\ ~(Repoint(q) /\ switched[q])
  <2>1. target' = target
    BY <1>3, FirstActs DEF FirstInv, Repoint
  <2>2. ProxyUp
    BY <2>1 DEF ProxyUp
  <2>3. QED
    BY <1>3, <2>2, TargetKept
<1>4. QED
  BY <1>1, <1>2, <1>3

-----------------------------------------------------------------------------
(* First deploys drop no request                                           *)

\* It holds before the first run.
LEMMA FirstStart == Init => PortOnce /\ (FirstDeploys => FirstInv)
<1> SUFFICES ASSUME Init PROVE PortOnce /\ FirstInv
  OBVIOUS
<1> USE DeployAssumption, Names DEF Version
<1>1. \A r \in Run : ~Given(r) /\ pc[r] = "idle" /\ ~started[r]
                     /\ ~switched[r] /\ state[r] = "NONE" /\ prev[r] = None
  BY DEF Init, Given
<1>2. \A r \in Run : status[r] = "none"
  BY DEF Init
<1>3. \A s \in Seed : status[s] # "none"
  BY DEF Init
<1>4. ASSUME NEW s \in Seed PROVE BlueOf(s)
  <2>1. \A t \in Seed : blueName(t) = blueName(s) => t = s
    OBVIOUS
  <2>2. (CHOOSE t \in Seed : blueName(s) = blueName(t)) = s
    BY <2>1
  <2>3. QED
    BY <2>2 DEF Init, BlueOf
<1>5. TargetInv
  <2> SUFFICES ASSUME ProxyUp
               PROVE  \E n \in Name : /\ Kept(n) /\ container[n].up
                                      /\ container[n].port = target
                                      /\ container[n].version \in Version
    BY DEF TargetInv
  <2>1. PICK s \in Seed : target = SeedPort[s]
    BY DEF Init, ProxyUp
  <2>2. Kept(blueName(s))
    BY <1>1 DEF Kept
  <2>3. BlueOf(s)
    BY <1>4
  <2>4. /\ container[blueName(s)].up /\ container[blueName(s)].port = target
        /\ container[blueName(s)].version = s
    BY <2>1, <2>3 DEF BlueOf
  <2>5. QED
    BY <2>2, <2>4
<1>6. QED
  BY <1>1, <1>2, <1>3, <1>4, <1>5
     DEF PortOnce, FirstInv, PlaceInv, RowInv, BlueInv, StandsInv, GreenStands,
         Recording, Request, AfterBlue, Closing

\* A process that dies takes the proxy with it, and what was in progress.
LEMMA FirstCrash ==
  ASSUME TypeOK, FirstInv, Crash PROVE FirstInv'
<1>1. /\ \A r \in Run : pc'[r] = IF pc[r] \in {"idle", "done", "gaveUp"}
                                 THEN pc[r] ELSE "lost"
      /\ target' = NoPort
      /\ UNCHANGED <<state, port, started, switched, prev, container, status>>
  BY DEF Crash, TypeOK, localVars, recordVars
<1>2. \A r \in Run : PlaceInv(r)'
  BY <1>1 DEF FirstInv, PlaceInv, Given, Request, Undo, Ended, AfterBlue,
              Closing
<1>3. RowInv'
  BY <1>1 DEF FirstInv, RowInv, Given, Recording
<1>4. BlueInv'
  <2> SUFFICES ASSUME NEW s \in Seed,
                      \A r \in Run :
                        Given(r)' /\ AppOf[r] = AppOf[s] => OnBlue(r)'
               PROVE  BlueOf(s)'
    BY DEF BlueInv
  <2>1. \A r \in Run : Given(r) /\ AppOf[r] = AppOf[s] => OnBlue(r)
    BY <1>1 DEF Given, OnBlue, Before, Undo
  <2>2. BlueOf(s)
    BY <2>1 DEF FirstInv, BlueInv
  <2>3. QED
    BY <1>1, <2>2 DEF BlueOf, blueName
<1>5. StandsInv'
  BY <1>1
     DEF FirstInv, StandsInv, GreenStands, GreenRuns, greenName, AfterBlue,
         Closing
<1>6. TargetInv'
  BY <1>1 DEF TargetInv, ProxyUp
<1>7. QED
  BY <1>2, <1>3, <1>4, <1>5, <1>6 DEF FirstInv

\* It is inductive, as long as only first deploys are made.
LEMMA FirstInduction ==
  ASSUME TypeOK, PortOnce, FirstDeploys => FirstInv, [Next]_vars
  PROVE  PortOnce' /\ (FirstDeploys' => FirstInv')
<1>1. PortOnce'
  BY PortStays DEF PortOnce
<1> SUFFICES ASSUME FirstDeploys' PROVE FirstInv'
  BY <1>1
<1>2. FirstDeploys /\ FirstInv
  BY FirstBefore
<1>3. ASSUME NEW q \in Run, Acts(q) PROVE FirstInv'
  <2>1. FirstStep(q)
    BY <1>2, <1>3 DEF FirstStep
  <2>2. \A r \in Run : PlaceInv(r)'
    BY <1>2, <2>1, PlaceStep DEF FirstInv
  <2>3. RowInv' /\ BlueInv' /\ StandsInv'
    BY <1>2, <2>1, RowStep, BlueStep, StandsStep DEF FirstInv
  <2>4. TargetInv'
    BY <1>2, <2>1, TargetStep
  <2>5. QED
    BY <2>2, <2>3, <2>4 DEF FirstInv
<1>4. CASE Crash
  BY <1>2, <1>4, FirstCrash
<1>5. CASE UNCHANGED vars
  <2>1. UNCHANGED <<state, pc, port, started, switched, prev, container,
                    target, status>>
    BY <1>5 DEF vars, runVars, dockerVars, recordVars
  <2>2. QED
    BY <1>2, <2>1
       DEF FirstInv, PlaceInv, RowInv, BlueInv, StandsInv, TargetInv, Given,
           Recording, OnBlue, BlueOf, GreenStands, GreenRuns, Kept, ProxyUp,
           blueName, greenName
<1>6. QED
  BY <1>3, <1>4, <1>5 DEF Next, Acts

\* So it holds of every first deploy.
LEMMA FirstInvariant == Spec => [](PortOnce /\ (FirstDeploys => FirstInv))
<1>1. TypeOK /\ PortOnce /\ (FirstDeploys => FirstInv) /\ [Next]_vars
        => (PortOnce /\ (FirstDeploys => FirstInv))'
  BY FirstInduction
<1>2. QED
  BY <1>1, FirstStart, TypeCorrect, PTL DEF Spec

\* First deploys drop no request: the proxy forwards to a container that runs
\* a version, for any number of runs, applications and environments.
THEOREM FirstDeploysServed == Spec => []FirstDeploysServe
<1>1. PortOnce /\ (FirstDeploys => FirstInv) => FirstDeploysServe
  BY DEF FirstInv, TargetInv, FirstDeploysServe, TrafficServed, Served, Serves
<1>2. QED
  BY <1>1, FirstInvariant, PTL

-----------------------------------------------------------------------------
(* One application behind the proxy                                        *)

\* What the proxy points at, by where the run is that was given a port.
AtBlue(r) ==
  \/ pc[r] \in Before \cup (Undo \ {"repoint"})
  \/ pc[r] = "repoint" /\ ~switched[r]
  \/ pc[r] = "done" /\ state[r] = "ROLLED_BACK"
  \/ /\ pc[r] \in {"done", "gaveUp"}
     /\ status[r] = "none" /\ "catch" \notin Faulty
Pointed(r) ==
  /\ AtBlue(r) /\ ProxyUp => \A s \in Seed : target = SeedPort[s]
  /\ pc[r] \in {"drain"} \cup AfterBlue => target = port[r]
  /\ pc[r] = "repoint" /\ switched[r] => target = port[r]
  /\ pc[r] = "done" /\ status[r] # "none" => target \in {port[r], NoPort}
  /\ pc[r] = "lost" => target = NoPort

\* What is active, likewise.
OnlyActive(S) == \A v \in Version : status[v] = "active" <=> v \in S
Unrecorded(r) ==
  \/ Recording(r) /\ pc[r] # "record"
  \/ pc[r] = "done" /\ status[r] = "none"
InRecord(r) ==
  \/ pc[r] \in {"succeed", "alert"}
  \/ pc[r] = "done" /\ status[r] # "none"
Rows(r) ==
  /\ Unrecorded(r) => OnlyActive(Seed)
  /\ Unrecorded(r) /\ pc[r] \in {"done", "gaveUp"} /\ switched[r] =>
       "drain" \in Faulty
  /\ pc[r] = "supersede" => \A s \in Seed : s = prev[r]
  /\ pc[r] = "record" => OnlyActive({})
  /\ InRecord(r) => OnlyActive({r})

\* No port has two containers that run.
PortsApart ==
  \A m, n \in Name :
    (/\ container[m].up /\ container[n].up
     /\ container[m].port = container[n].port) => m = n

AloneInv ==
  /\ (\A r \in Run : ~Given(r)) =>
       /\ ProxyUp => \A s \in Seed : target = SeedPort[s]
       /\ OnlyActive(Seed)
       /\ \A r \in Run : base[r] \in Seed \cup {None}
  /\ \A r \in Run : Given(r) => /\ Pointed(r) /\ Rows(r)
                                /\ base[r] \in Seed \cup {None}
  /\ PortsApart

\* What was a second application remains one.
LEMMA AloneBefore ==
  ASSUME TypeOK, PortOnce, [Next]_vars, Alone' PROVE Alone
<1>1. FirstDeploys
  BY FirstBefore DEF Alone
<1>2. \A r \in Run : Given(r) => Given(r)'
  BY PortStays DEF Given
<1>3. QED
  BY <1>1, <1>2 DEF Alone, OneApplication

\* One run that was given a port, and one seed.
LEMMA OneOfEach ==
  ASSUME Alone
  PROVE  /\ \A q, r \in Run : Given(q) /\ Given(r) => q = r
         /\ \A s, t \in Seed : s = t
         /\ \A s \in Seed, r \in Run : Given(r) => AppOf[s] = AppOf[r]
<1>1. \A v, w \in Seed \cup {r \in Run : Given(r)} : AppOf[v] = AppOf[w]
  BY DEF Alone, OneApplication
<1>2. \A q, r \in Run : Given(q) /\ Given(r) => AppOf[q] = AppOf[r]
  BY <1>1
<1>3. \A s \in Seed, r \in Run : Given(r) => AppOf[s] = AppOf[r]
  BY <1>1
<1>4. \A s, t \in Seed : AppOf[s] = AppOf[t]
  BY <1>1
<1>5. QED
  BY <1>2, <1>3, <1>4, DeployAssumption DEF Alone, FirstDeploys

\* Who was not given a port changes nothing outside its row.
LEMMA WithoutPort ==
  ASSUME TypeOK, PortOnce, NEW q \in Run, FirstStep(q), PlaceInv(q), ~Given(q)
  PROVE  container' = container /\ target' = target /\ status' = status
<1>1. /\ pc[q] \notin {"switch", "supersede", "record"}
      /\ ~switched[q]
  BY DEF PlaceInv, Request, Undo, Ended
<1>2. ~Switch(q) /\ ~Supersede(q) /\ ~Record(q)
  BY <1>1 DEF Switch, Supersede, Record, Moves
<1>3. Repoint(q) => target' = target
  BY <1>1 DEF Repoint
<1>4. QED
  BY <1>2, <1>3, FirstActs

\* Only the plan sets base.
LEMMA BaseStays ==
  ASSUME NEW q \in Run, Aside(q) \/ Forward(q) \/ Backward(q)
  PROVE  base' = base
<1> USE DEF localVars
<1>1. CASE Aside(q)
  BY <1>1 DEF Aside
<1>2. CASE Forward(q)
  <2>1. CASE \/ CreateRun(q) \/ MarkRunning(q) \/ PassLock(q) \/ FailLock(q)
             \/ PickPort(q) \/ PlayStartGreen(q) \/ PlayStopBlue(q)
    BY <2>1 DEF CreateRun, MarkRunning, PassLock, FailLock, PickPort,
                PlayStartGreen, PlayStopBlue
  <2>2. CASE \/ PlayDone(q) \/ PlayFails(q) \/ RemoveGreen(q) \/ StartGreen(q)
             \/ StartGreenPortTaken(q) \/ Probe(q) \/ Switch(q)
    BY <2>2 DEF PlayDone, PlayFails, RemoveGreen, StartGreen,
                StartGreenPortTaken, Probe, Switch
  <2>3. CASE \/ RemoveBlue(q) \/ ReadActive(q) \/ Supersede(q) \/ Record(q)
             \/ Succeed(q) \/ StartWatch(q)
    BY <2>3 DEF RemoveBlue, ReadActive, Supersede, Record, Succeed, StartWatch
  <2>4. QED
    BY <1>2, <2>1, <2>2, <2>3 DEF Forward
<1>3. CASE Backward(q)
  BY <1>3 DEF Backward, Throw, Repoint, UndoGreen, UndoPlay, UndoRecord,
              UndoFails, GiveUp
<1>4. QED
  BY <1>1, <1>2, <1>3

\* Who was given a port is past the request.
LEMMA PastThePort ==
  ASSUME PortOnce, NEW q \in Run, Given(q)
  PROVE  ~(\/ CreateRun(q) \/ MarkRunning(q) \/ PassLock(q) \/ FailLock(q)
           \/ PickPort(q))
<1>1. pc[q] \notin {"create", "mark", "lock", "pickPort"}
  BY DEF PortOnce, Request
<1>2. QED
  BY <1>1
     DEF CreateRun, MarkRunning, PassLock, FailLock, PickPort, Moves

\* A green container starts on a port nothing else listens on.
LEMMA PortsApartStep ==
  ASSUME TypeOK, PortOnce, NEW q \in Run, FirstStep(q), PlaceInv(q), PortsApart
  PROVE  PortsApart'
<1> USE Names DEF TypeOK, Version
<1>1. CASE StartGreen(q)
  <2>1. /\ \A n \in Name : ~(container[n].up /\ container[n].port = port[q])
        /\ \A n \in Name : container'[n] =
             IF n = greenName(q)
             THEN [up |-> TRUE, port |-> port[q], version |-> q]
             ELSE container[n]
    BY <1>1 DEF StartGreen, Put, Bound
  <2>2. \A n \in Name :
          /\ n # greenName(q) => container'[n] = container[n]
          /\ n = greenName(q) => container'[n].port = port[q]
    BY <2>1
  <2>3. QED
    BY <2>1, <2>2 DEF PortsApart
<1>2. CASE ~StartGreen(q)
  <2>1. \A n \in Name : container'[n] = container[n] \/ ~container'[n].up
    <3> SUFFICES ASSUME NEW n \in Name, container'[n] # container[n]
                 PROVE  ~container'[n].up
      OBVIOUS
    <3>1. /\ \/ n = greenName(q)
             \/ n = blueName(q)
          /\ \/ RemoveGreen(q) /\ n = greenName(q)
             \/ StartGreenPortTaken(q) /\ n = greenName(q)
             \/ UndoGreen(q) /\ started[q] /\ n = greenName(q)
             \/ n = blueName(q) /\ RemoveBlue(q)
      BY <1>2, WhichContainer
    <3>2. CASE StartGreenPortTaken(q) /\ n = greenName(q)
      <4>1. container'[n] = [up |-> FALSE, port |-> port[q], version |-> q]
        BY <3>2 DEF StartGreenPortTaken, Put
      <4>2. QED
        BY <4>1
    <3>3. CASE \/ RemoveGreen(q) /\ n = greenName(q)
               \/ UndoGreen(q) /\ started[q] /\ n = greenName(q)
               \/ n = blueName(q) /\ RemoveBlue(q)
      <4>1. Remove(n)
        BY <3>3 DEF RemoveGreen, UndoGreen, RemoveBlue
      <4>2. container'[n] \in {Absent, [container[n] EXCEPT !.up = FALSE]}
        BY <4>1, AfterRemove
      <4>3. container[n] \in Container
        BY DEF TypeOK
      <4>4. QED
        BY <4>2, <4>3 DEF Absent, Container
    <3>4. QED
      BY <3>1, <3>2, <3>3
  <2>2. QED
    BY <2>1 DEF PortsApart
<1>3. QED
  BY <1>1, <1>2

\* The run that was given a port moves: what the proxy points at.
LEMMA OwnPointed ==
  ASSUME TypeOK, PortOnce, NEW q \in Run, FirstStep(q), [Next]_vars, Alone,
         FirstInv, Given(q), Pointed(q)
  PROVE  Pointed(q)'
<1> USE DEF TypeOK, Moves, Pointed, AtBlue, Before, Undo, AfterBlue, Closing,
            ProxyUp
<1>0. /\ pc[q] \notin Request \cup {"pickPort"}
      /\ PlaceInv(q)
      /\ port'[q] = port[q]
      /\ Recording(q) => status[q] = "none"
      /\ pc[q] \in {"succeed", "alert"} => status[q] # "none"
      /\ pc'[q] = "done" /\ pc[q] # "done" => status'[q] = status[q]
  <2>1. PlaceInv(q) /\ RowInv
    BY DEF FirstInv
  <2>2. /\ Recording(q) => status[q] = "none"
        /\ pc[q] \in {"succeed", "alert"} => status[q] # "none"
    BY <2>1 DEF RowInv
  <2>3. QED
    BY <2>1, <2>2, OwnRow, PortStays DEF PortOnce
<1>1. CASE Aside(q) \/ Plan(q)
  BY <1>0, <1>1 DEF Aside, Plan, Request, localVars, dockerVars, recordVars
<1>2. CASE Forward(q)
  <2>1. ~(PlayStartGreen(q) \/ PlayStopBlue(q) \/ PlayDone(q))
    BY <1>0, FirstActs
  <2>2. ~(\/ CreateRun(q) \/ MarkRunning(q) \/ PassLock(q) \/ FailLock(q)
          \/ PickPort(q))
    BY PastThePort
  <2>3. CASE \/ PlayFails(q) \/ RemoveGreen(q) \/ StartGreen(q)
             \/ StartGreenPortTaken(q) \/ Probe(q)
    <3>1. /\ pc[q] \in Before /\ target' = target
          /\ switched'[q] = switched[q]
          /\ pc'[q] \in Before \cup {"repoint"}
      BY <1>0, <2>3 DEF PlayFails, RemoveGreen, StartGreen,
                        StartGreenPortTaken, Probe, PlaceInv, localVars,
                        dockerVars
    <3>2. ~switched[q]
      BY <1>0, <3>1 DEF PlaceInv, Ended
    <3>3. QED
      BY <3>1, <3>2
  <2>4. CASE Switch(q)
    BY <1>0, <2>4 DEF Switch
  <2>5. CASE \/ RemoveBlue(q) \/ ReadActive(q) \/ Supersede(q) \/ Record(q)
             \/ Succeed(q)
    BY <1>0, <2>5 DEF RemoveBlue, ReadActive, Supersede, Record, Succeed,
                      dockerVars
  <2>6. CASE StartWatch(q)
    BY <1>0, <2>6 DEF StartWatch, PlaceInv, dockerVars
  <2>7. QED
    BY <1>2, <2>1, <2>2, <2>3, <2>4, <2>5, <2>6 DEF Forward
<1>3. CASE Backward(q)
  <2>1. CASE Throw(q)
    <3>1. /\ pc[q] \in Before \cup {"drain"} /\ pc'[q] = "repoint"
          /\ target' = target /\ switched' = switched
      BY <1>0, <2>1, ThrowsEarly
         DEF FirstStep, Throw, Pipeline, PlaceInv, localVars, dockerVars
    <3>2. CASE pc[q] = "drain"
      <4>1. target = port[q]
        BY <3>2
      <4>2. switched[q]
        BY <1>0, <3>2 DEF PlaceInv
      <4>3. QED
        BY <1>0, <3>1, <4>1, <4>2
    <3>3. CASE pc[q] \in Before
      <4>1. ~switched[q]
        BY <1>0, <3>3 DEF PlaceInv, Ended
      <4>2. QED
        BY <3>1, <3>3, <4>1
    <3>4. QED
      BY <3>1, <3>2, <3>3
  <2>2. CASE Repoint(q)
    <3>1. /\ pc[q] = "repoint" /\ pc'[q] = "undoGreen"
          /\ switched' = switched
      BY <2>2 DEF Repoint, localVars
    <3>2. CASE ~switched[q]
      BY <2>2, <3>1, <3>2 DEF Repoint
    <3>3. CASE switched[q]
      <4>1. PICK s \in Seed : AppOf[s] = AppOf[q] /\ BlueOf(s)
        BY <1>0, <3>1, <3>3, BlueIsBack DEF FirstInv, FirstStep
      <4>2. blueName(s) = blueName(q)
        BY <4>1, Names DEF Version
      <4>3. container[blueName(q)].up
              /\ container[blueName(q)].port = SeedPort[s]
        BY <4>1, <4>2 DEF BlueOf
      <4>4. target' # NoPort => target' = SeedPort[s]
        BY <2>2, <3>3, <4>3 DEF Repoint, PointAt
      <4>5. \A t \in Seed : t = s
        BY OneOfEach
      <4>6. QED
        BY <3>1, <4>4, <4>5
    <3>4. QED
      BY <3>2, <3>3
  <2>3. CASE UndoGreen(q) \/ UndoPlay(q)
    BY <2>3 DEF UndoGreen, UndoPlay
  <2>4. CASE UndoRecord(q)
    BY <1>0, <2>4 DEF UndoRecord, Recording, dockerVars
  <2>5. CASE UndoFails(q)
    BY <2>5 DEF UndoFails, Alone, dockerVars
  <2>6. CASE GiveUp(q)
    <3>1. /\ pc'[q] = "gaveUp" /\ target' = target /\ state' = state
          /\ status' = status
          /\ pc[q] = "undoRecord" \/ (pc[q] = "repoint" /\ "catch" \in Faulty)
      BY <1>0, <2>6 DEF GiveUp, Request, dockerVars, recordVars
    <3>2. status'[q] = "none" /\ state[q] # "ROLLED_BACK"
      BY <1>0, <3>1 DEF Recording, PlaceInv
    <3>3. QED
      BY <3>1, <3>2
  <2>7. QED
    BY <1>3, <2>1, <2>2, <2>3, <2>4, <2>5, <2>6 DEF Backward
<1>4. QED
  BY <1>0, <1>1, <1>2, <1>3, FirstActs

\* ... and what is active.
LEMMA OwnRows ==
  ASSUME TypeOK, PortOnce, NEW q \in Run, FirstStep(q), [Next]_vars, Alone,
         FirstInv, Given(q), Rows(q)
  PROVE  Rows(q)'
<1> USE DEF TypeOK, Moves, Rows, Unrecorded, InRecord, OnlyActive, Recording
<1>0. /\ pc[q] \notin Request \cup {"pickPort"}
      /\ PlaceInv(q)
      /\ Recording(q) => status[q] = "none"
      /\ pc[q] \in {"succeed", "alert"} => status[q] # "none"
      /\ pc'[q] = "done" /\ pc[q] # "done" => status'[q] = status[q]
  <2>1. PlaceInv(q) /\ RowInv
    BY DEF FirstInv
  <2>2. /\ Recording(q) => status[q] = "none"
        /\ pc[q] \in {"succeed", "alert"} => status[q] # "none"
    BY <2>1 DEF RowInv
  <2>3. QED
    BY <2>1, <2>2, OwnRow DEF PortOnce
<1>1. CASE Aside(q) \/ Plan(q)
  BY <1>0, <1>1 DEF Aside, Plan, Request, localVars, recordVars
<1>2. CASE Forward(q)
  <2>1. ~(PlayStartGreen(q) \/ PlayStopBlue(q) \/ PlayDone(q))
    BY <1>0, FirstActs
  <2>2. ~(\/ CreateRun(q) \/ MarkRunning(q) \/ PassLock(q) \/ FailLock(q)
          \/ PickPort(q))
    BY PastThePort
  <2>3. CASE \/ PlayFails(q) \/ RemoveGreen(q) \/ StartGreen(q)
             \/ StartGreenPortTaken(q) \/ Probe(q) \/ Switch(q)
             \/ RemoveBlue(q)
    <3> DEFINE BeforeRead ==
                 /\ pc[q] \in Before \cup {"drain"} /\ status' = status
                 /\ pc'[q] \in Before \cup {"repoint", "drain", "read"}
    <3>1. ASSUME \/ PlayFails(q) \/ RemoveGreen(q) \/ StartGreen(q)
                 \/ StartGreenPortTaken(q)
          PROVE  BeforeRead
      BY <1>0, <3>1 DEF PlayFails, RemoveGreen, StartGreen,
                        StartGreenPortTaken, PlaceInv, recordVars, Before
    <3>2. ASSUME Probe(q) \/ Switch(q) \/ RemoveBlue(q)
          PROVE  BeforeRead
      BY <3>2 DEF Probe, Switch, RemoveBlue, recordVars, Before
    <3>3. BeforeRead
      BY <2>3, <3>1, <3>2
    <3>4. QED
      BY <3>3 DEF Before
  <2>4. CASE ReadActive(q)
    <3>1. /\ pc[q] = "read" /\ pc'[q] = "supersede" /\ status' = status
          /\ prev'[q] \in Version \cup {None}
          /\ Latest(prev'[q], env(q), "active")
      BY <2>4 DEF ReadActive, recordVars
    <3>2. OnlyActive(Seed)
      BY <3>1
    <3>3. ASSUME NEW s \in Seed PROVE s = prev'[q]
      <4>1. env(s) = env(q)
        BY OneOfEach DEF env
      <4>2. s \in {d \in Version : status[d] = "active" /\ env(d) = env(q)}
        BY <3>2, <4>1 DEF Version
      <4>3. prev'[q] # None /\ status[prev'[q]] = "active"
              /\ prev'[q] \in Version
        BY <3>1, <4>2 DEF Latest
      <4>4. prev'[q] \in Seed
        BY <3>2, <4>3
      <4>5. QED
        BY <4>4, OneOfEach
    <3>4. QED
      BY <3>1, <3>2, <3>3
  <2>5. CASE Supersede(q)
    <3>1. /\ pc[q] = "supersede" /\ pc'[q] = "record"
          /\ \A v \in Version : status'[v] = IF v = prev[q] THEN "superseded"
                                             ELSE status[v]
      BY <2>5 DEF Supersede
    <3>2. OnlyActive(Seed) /\ \A s \in Seed : s = prev[q]
      BY <3>1
    <3>3. \A v \in Version : status'[v] # "active"
      BY <3>1, <3>2
    <3>4. QED
      BY <3>1, <3>3
  <2>6. CASE Record(q)
    <3>1. /\ pc[q] = "record" /\ pc'[q] = "succeed"
          /\ \A v \in Version : status'[v] = IF v = q THEN "active"
                                             ELSE status[v]
      BY <2>6 DEF Record, Version
    <3>2. QED
      BY <3>1
  <2>7. CASE Succeed(q)
    BY <2>7 DEF Succeed, recordVars
  <2>8. CASE StartWatch(q)
    BY <1>0, <2>8 DEF StartWatch, recordVars
  <2>9. QED
    BY <1>2, <2>1, <2>2, <2>3, <2>4, <2>5, <2>6, <2>7, <2>8 DEF Forward
<1>3. CASE Backward(q)
  <2>1. pc[q] \in Before \cup {"drain"} \cup Undo /\ status' = status
    <3>1. CASE Throw(q)
      BY <1>0, <3>1, ThrowsEarly
         DEF FirstStep, Throw, Pipeline, AfterBlue, PlaceInv, Before,
             recordVars
    <3>2. CASE \/ Repoint(q) \/ UndoGreen(q) \/ UndoPlay(q) \/ UndoRecord(q)
               \/ UndoFails(q)
      BY <3>2 DEF Repoint, UndoGreen, UndoPlay, UndoRecord, UndoFails, Undo,
                  recordVars
    <3>3. CASE GiveUp(q)
      BY <1>0, <3>3 DEF GiveUp, Request, Undo, recordVars
    <3>4. QED
      BY <1>3, <3>1, <3>2, <3>3 DEF Backward
  <2>2. /\ switched' = switched
        /\ pc'[q] \in Undo \cup {"done", "gaveUp"}
        /\ pc'[q] \in {"done", "gaveUp"} => pc[q] \in Undo
    <3>1. CASE Throw(q) \/ Repoint(q) \/ UndoGreen(q) \/ UndoPlay(q)
      BY <3>1 DEF Throw, Repoint, UndoGreen, UndoPlay, Undo, localVars
    <3>2. CASE UndoRecord(q) \/ UndoFails(q)
      BY <3>2 DEF UndoRecord, UndoFails, Undo, localVars
    <3>3. CASE GiveUp(q)
      BY <1>0, <3>3 DEF GiveUp, Request, Undo, localVars
    <3>4. QED
      BY <1>3, <3>1, <3>2, <3>3 DEF Backward
  <2>3. QED
    BY <1>0, <2>1, <2>2 DEF PlaceInv, Before, Undo
<1>4. QED
  BY <1>0, <1>1, <1>2, <1>3, FirstActs

\* The step of a run that has no port yet.
LEMMA AloneAside ==
  ASSUME TypeOK, PortOnce, NEW q \in Run, FirstStep(q), [Next]_vars, Alone,
         Alone', FirstInv, AloneInv, ~Given(q)
  PROVE  AloneInv'
<1>1. container' = container /\ target' = target /\ status' = status
  BY WithoutPort DEF FirstInv
<1>2. PortsApart'
  BY <1>1 DEF AloneInv, PortsApart
<1>3. \A r \in Run \ {q} : SameRow(r)
  BY OthersKeepRow DEF FirstStep
<1>4. ASSUME NEW r \in Run, Given(r)
      PROVE  /\ Pointed(r)' /\ Rows(r)' /\ base'[r] \in Seed \cup {None}
             /\ ~Given(q)'
  <2>1. r # q /\ Given(r)'
    BY <1>4, PortStays DEF Given
  <2>2. SameRow(r)
    BY <1>3, <2>1
  <2>3. Pointed(r) /\ Rows(r) /\ base[r] \in Seed \cup {None}
    BY <1>4 DEF AloneInv
  <2>4. Pointed(r)'
    BY <1>1, <2>2, <2>3 DEF SameRow, Pointed, AtBlue, ProxyUp
  <2>5. Rows(r)'
    BY <1>1, <2>2, <2>3
       DEF SameRow, Rows, Unrecorded, InRecord, Recording, OnlyActive
  <2>6. ~Given(q)'
    <3> SUFFICES ASSUME Given(q)' PROVE FALSE
      OBVIOUS
    <3>1. AppOf[q] = AppOf[r]
      BY <2>1 DEF Alone, OneApplication
    <3>2. QED
      BY <2>1, <3>1 DEF Alone, FirstDeploys
  <2>7. QED
    BY <2>2, <2>3, <2>4, <2>5, <2>6 DEF SameRow
<1>5. CASE \E r \in Run : Given(r)
  <2>1. PICK r \in Run : Given(r)
    BY <1>5
  <2>2. \A x \in Run : Given(x)' => Given(x)
    BY <1>3, <1>4, <2>1 DEF SameRow, Given
  <2>3. Given(r)'
    BY <2>1, PortStays DEF Given
  <2>4. QED
    BY <1>2, <1>4, <2>2, <2>3 DEF AloneInv
<1>6. CASE ~ \E r \in Run : Given(r)
  <2>1. /\ ProxyUp => \A s \in Seed : target = SeedPort[s]
        /\ OnlyActive(Seed)
        /\ \A r \in Run : base[r] \in Seed \cup {None}
    BY <1>6 DEF AloneInv
  <2>2. /\ ProxyUp' => \A s \in Seed : target' = SeedPort[s]
        /\ OnlyActive(Seed)'
    BY <1>1, <2>1 DEF ProxyUp, OnlyActive
  <2>3. \A r \in Run : base'[r] \in Seed \cup {None}
    <3>1. CASE Plan(q)
      <4>1. PICK v \in Version \cup {None} :
              /\ Latest(v, env(q), "active")
              /\ base' = [base EXCEPT ![q] = v]
        BY <3>1 DEF Plan
      <4>2. v \in Seed \cup {None}
        BY <2>1, <4>1 DEF Latest, OnlyActive
      <4>3. QED
        BY <2>1, <4>1, <4>2 DEF TypeOK
    <3>2. CASE ~Plan(q)
      BY <2>1, <3>2, FirstActs, BaseStays DEF FirstInv
    <3>3. QED
      BY <3>1, <3>2
  <2>4. ASSUME NEW r \in Run, Given(r)' PROVE Pointed(r)' /\ Rows(r)'
    <3>1. r = q /\ PickPort(q)
      <4>1. r = q
        BY <1>3, <1>6, <2>4 DEF SameRow, Given
      <4>2. QED
        BY <1>6, <2>4, <4>1, WhatChanges DEF FirstStep, Given
    <3>2. pc[q] = "pickPort" /\ pc'[q] = "play" /\ state' = state
      BY <3>1 DEF PickPort, Moves, TypeOK
    <3>3. Pointed(q)'
      BY <2>2, <3>2 DEF Pointed, AfterBlue, Closing
    <3>4. Rows(q)'
      BY <2>2, <3>2 DEF Rows, InRecord
    <3>5. QED
      BY <3>1, <3>3, <3>4
  <2>5. QED
    BY <1>2, <2>2, <2>3, <2>4 DEF AloneInv
<1>7. QED
  BY <1>5, <1>6

\* The step of the run that was given the port.
LEMMA AloneActs ==
  ASSUME TypeOK, PortOnce, NEW q \in Run, FirstStep(q), [Next]_vars, Alone,
         FirstInv, AloneInv, Given(q)
  PROVE  AloneInv'
<1>1. Pointed(q)' /\ Rows(q)'
  BY OwnPointed, OwnRows DEF AloneInv
<1>2. base'[q] \in Seed \cup {None}
  <2>1. ~Plan(q)
    BY DEF Plan, Moves, PortOnce, Request
  <2>2. base' = base
    BY <2>1, FirstActs, BaseStays DEF FirstInv
  <2>3. QED
    BY <2>2 DEF AloneInv
<1>3. \A r \in Run : Given(r)' => r = q
  <2> SUFFICES ASSUME NEW r \in Run, Given(r)', r # q PROVE FALSE
    OBVIOUS
  <2>1. Given(r)
    BY OthersKeepRow DEF FirstStep, SameRow, Given
  <2>2. QED
    BY <2>1, OneOfEach
<1>4. Given(q)'
  BY PortStays DEF Given
<1>5. PortsApart'
  BY PortsApartStep DEF AloneInv, FirstInv
<1>6. QED
  BY <1>1, <1>2, <1>3, <1>4, <1>5 DEF AloneInv

\* It holds before the first run.
LEMMA AloneStart == Init => (Alone => AloneInv)
<1> SUFFICES ASSUME Init, Alone PROVE AloneInv
  OBVIOUS
<1> USE DeployAssumption, Names DEF Version
<1>1. \A r \in Run : ~Given(r) /\ base[r] = None
  BY DEF Init, Given
<1>2. OnlyActive(Seed)
  BY DEF Init, OnlyActive
<1>3. ProxyUp => \A s \in Seed : target = SeedPort[s]
  BY OneOfEach DEF Init, ProxyUp
<1>4. \A n \in Name : container[n].up => \E s \in Seed : n = blueName(s)
  BY DEF Init, Absent
<1>5. \A s, t \in Seed : s = t
  BY OneOfEach
<1>6. PortsApart
  <2> SUFFICES ASSUME NEW m \in Name, NEW n \in Name,
                      container[m].up, container[n].up
               PROVE  m = n
    BY DEF PortsApart
  <2>1. PICK s \in Seed : m = blueName(s)
    BY <1>4
  <2>2. PICK t \in Seed : n = blueName(t)
    BY <1>4
  <2>3. QED
    BY <1>5, <2>1, <2>2
<1>7. QED
  BY <1>1, <1>2, <1>3, <1>6 DEF AloneInv

\* A process that dies leaves the rows and the containers alone.
LEMMA AloneCrash ==
  ASSUME TypeOK, AloneInv, Crash PROVE AloneInv'
<1>1. /\ \A r \in Run : pc'[r] = IF pc[r] \in {"idle", "done", "gaveUp"}
                                 THEN pc[r] ELSE "lost"
      /\ target' = NoPort
      /\ UNCHANGED <<state, base, port, switched, prev, container, status>>
  BY DEF Crash, TypeOK, localVars, recordVars
<1>2. \A r \in Run : Pointed(r)'
  BY <1>1 DEF Pointed, ProxyUp, AfterBlue, Closing
<1>3. \A r \in Run : Rows(r) => Rows(r)'
  BY <1>1 DEF Rows, Unrecorded, InRecord, Recording, OnlyActive
<1>4. (OnlyActive(Seed) => OnlyActive(Seed)') /\ (PortsApart => PortsApart')
  BY <1>1 DEF OnlyActive, PortsApart
<1>5. QED
  BY <1>1, <1>2, <1>3, <1>4 DEF AloneInv, Given, ProxyUp

\* It is inductive, as long as one application is deployed.
LEMMA AloneInduction ==
  ASSUME TypeOK, PortOnce, FirstDeploys => FirstInv, Alone => AloneInv,
         [Next]_vars
  PROVE  Alone' => AloneInv'
<1> SUFFICES ASSUME Alone' PROVE AloneInv'
  OBVIOUS
<1>1. Alone /\ FirstDeploys' /\ FirstDeploys /\ FirstInv /\ AloneInv
  BY AloneBefore DEF Alone
<1>2. ASSUME NEW q \in Run, Acts(q) PROVE AloneInv'
  <2>1. FirstStep(q)
    BY <1>1, <1>2 DEF FirstStep
  <2>2. QED
    BY <1>1, <2>1, AloneAside, AloneActs
<1>3. CASE Crash
  BY <1>1, <1>3, AloneCrash
<1>4. CASE UNCHANGED vars
  <2>1. UNCHANGED <<state, pc, base, port, started, switched, prev, container,
                    target, status>>
    BY <1>4 DEF vars, runVars, dockerVars, recordVars
  <2>2. QED
    BY <1>1, <2>1
       DEF AloneInv, Pointed, Rows, AtBlue, Unrecorded, InRecord, Recording,
           OnlyActive, PortsApart, Given, ProxyUp
<1>5. QED
  BY <1>2, <1>3, <1>4 DEF Next, Acts

\* So it holds of every first deploy that has the proxy to itself.
LEMMA AloneInvariant ==
  Spec => []((FirstDeploys => FirstInv) /\ (Alone => AloneInv))
<1>1. TypeOK /\ PortOnce /\ (FirstDeploys => FirstInv) /\ (Alone => AloneInv)
        /\ [Next]_vars => (Alone => AloneInv)'
  BY AloneInduction
<1>2. QED
  BY <1>1, AloneStart, FirstInvariant, TypeCorrect, PTL DEF Spec

-----------------------------------------------------------------------------
(* Record and traffic                                                      *)

\* Where blue is up and pointed at, the seed is what is served.
LEMMA SeedServed ==
  ASSUME Alone, FirstInv, AloneInv, ProxyUp,
         \A r \in Run : Given(r) => AtBlue(r) /\ OnBlue(r)
  PROVE  \A s \in Seed : Served(s) /\ \A v \in Version : Served(v) => v = s
<1> SUFFICES ASSUME NEW s \in Seed
             PROVE  Served(s) /\ \A v \in Version : Served(v) => v = s
  OBVIOUS
<1>1. target = SeedPort[s]
  <2>1. CASE \E r \in Run : Given(r)
    BY <2>1 DEF AloneInv, Pointed
  <2>2. CASE ~ \E r \in Run : Given(r)
    BY <2>2 DEF AloneInv
  <2>3. QED
    BY <2>1, <2>2
<1>2. BlueOf(s)
  BY DEF FirstInv, BlueInv
<1>3. /\ blueName(s) \in Name
      /\ container[blueName(s)].up /\ container[blueName(s)].port = target
      /\ container[blueName(s)].version = s
  BY <1>1, <1>2, Names DEF BlueOf, Version
<1>4. \A n \in Name : container[n].up /\ container[n].port = target
        => n = blueName(s)
  BY <1>3 DEF AloneInv, PortsApart
<1>5. QED
  BY <1>3, <1>4 DEF Served, Serves

\* A first deploy that has the proxy to itself and is rolled back leaves the
\* former version served, whatever threw, whoever cancelled it and however
\* many runs were refused meanwhile, if the undo could reach the proxy.
THEOREM FirstDeployIsRestored == Spec => []FirstDeployRestored
<1>1. TypeOK /\ (FirstDeploys => FirstInv) /\ (Alone => AloneInv)
        => FirstDeployRestored
  <2> SUFFICES ASSUME TypeOK, FirstInv, Alone, AloneInv, NEW r \in Run,
                      state[r] = "ROLLED_BACK", pc[r] = "done", started[r],
                      base[r] # None, ProxyUp
               PROVE  Served(base[r])
    BY DEF FirstDeployRestored, RollbackRestores, Alone
  <2>1. Given(r)
    BY DEF FirstInv, PlaceInv
  <2>2. \A q \in Run : Given(q) => AtBlue(q) /\ OnBlue(q)
    BY <2>1, OneOfEach DEF AtBlue, OnBlue
  <2>3. base[r] \in Seed
    BY <2>1 DEF AloneInv
  <2>4. QED
    BY <2>2, <2>3, SeedServed
<1>2. QED
  BY <1>1, AloneInvariant, TypeCorrect, PTL

\* Once a first deploy that has the proxy to itself is over, the deployment
\* that is active is the version the proxy serves, and no other version is.
THEOREM FirstDeployIsRecorded == Spec => []FirstDeployRecorded
<1>1. TypeOK /\ PortOnce /\ (FirstDeploys => FirstInv) /\ (Alone => AloneInv)
        => FirstDeployRecorded
  <2> SUFFICES ASSUME TypeOK, PortOnce, FirstInv, Alone, AloneInv,
                      "catch" \notin Faulty, AtRest, ProxyUp
               PROVE  \A v \in Version : status[v] = "active" <=> Served(v)
    BY DEF FirstDeployRecorded, RecordMatchesTraffic, Alone
  <2>1. ASSUME NEW r \in Run, Given(r) PROVE pc[r] \in {"done", "gaveUp"}
    <3>1. pc[r] \in {"idle", "done", "gaveUp", "lost"}
      BY DEF AtRest, Ended
    <3>2. pc[r] # "idle"
      BY <2>1 DEF PortOnce, Request
    <3>3. pc[r] # "lost"
      BY <2>1 DEF AloneInv, Pointed, ProxyUp
    <3>4. QED
      BY <3>1, <3>2, <3>3
  <2>2. CASE \E r \in Run : Given(r) /\ status[r] # "none"
    <3>1. PICK r \in Run : Given(r) /\ status[r] # "none"
      BY <2>2
    <3>2. pc[r] = "done"
      BY <2>1, <3>1 DEF FirstInv, RowInv, Recording
    <3>3. target = port[r] /\ OnlyActive({r})
      BY <3>1, <3>2 DEF AloneInv, Pointed, ProxyUp, Rows, InRecord
    <3>4. GreenRuns(r)
      BY <3>1, <3>2 DEF FirstInv, StandsInv, GreenStands
    <3>5. /\ greenName(r) \in Name
          /\ container[greenName(r)].up
          /\ container[greenName(r)].port = target
          /\ container[greenName(r)].version = r
      BY <3>3, <3>4, Names DEF GreenRuns, Version
    <3>6. \A n \in Name : container[n].up /\ container[n].port = target
            => n = greenName(r)
      BY <3>5 DEF AloneInv, PortsApart
    <3>7. \A v \in Version : Served(v) <=> v = r
      BY <3>5, <3>6 DEF Served, Serves
    <3>8. QED
      BY <3>3, <3>7 DEF OnlyActive
  <2>3. CASE \A r \in Run : Given(r) => status[r] = "none"
    <3>1. \A r \in Run : Given(r) => /\ AtBlue(r) /\ OnBlue(r)
                                     /\ Unrecorded(r)
      BY <2>1, <2>3 DEF AtBlue, OnBlue, Unrecorded, Recording
    <3>2. OnlyActive(Seed)
      <4>1. CASE \E r \in Run : Given(r)
        BY <3>1, <4>1 DEF AloneInv, Rows
      <4>2. CASE ~ \E r \in Run : Given(r)
        BY <4>2 DEF AloneInv
      <4>3. QED
        BY <4>1, <4>2
    <3>3. Seed # {}
      <4> SUFFICES ASSUME Seed = {} PROVE FALSE
        OBVIOUS
      <4>1. PICK n \in Name : Kept(n)
        BY DEF FirstInv, TargetInv
      <4>2. PICK r \in Run : Given(r) /\ switched[r]
        BY <4>1 DEF Kept
      <4>3. "drain" \in Faulty
        BY <2>1, <3>1, <4>2 DEF AloneInv, Rows
      <4>4. QED
        BY <4>2, <4>3 DEF Alone, FirstDeploys
    <3>4. PICK s \in Seed : TRUE
      BY <3>3
    <3>5. \A v \in Version : Served(v) <=> v = s
      BY <3>1, <3>4, SeedServed
    <3>6. \A v \in Version : v \in Seed <=> v = s
      BY <3>4, OneOfEach
    <3>7. QED
      BY <3>2, <3>5, <3>6 DEF OnlyActive
  <2>4. QED
    BY <2>2, <2>3
<1>2. QED
  BY <1>1, AloneInvariant, FirstInvariant, TypeCorrect, PTL

-----------------------------------------------------------------------------
(* A first deploy does what BlueGreen promises                             *)

\* Who is served when one container listens on the port that is pointed at.
LEMMA OnlyServed ==
  ASSUME NEW c, NEW t, NEW n \in Name, c[n].up, c[n].port = t,
         c[n].version \in Version,
         \A m \in Name : c[m].up /\ c[m].port = t => m = n
  PROVE  {v \in Version : \E m \in Name :
            c[m].up /\ c[m].port = t /\ c[m].version = v} = {c[n].version}
  OBVIOUS

\* A step that does not point the proxy elsewhere leaves who is served.
LEMMA SameServed ==
  ASSUME TypeOK, PortOnce, NEW q \in Run, FirstStep(q), [Next]_vars, FirstInv,
         PortsApart, PortsApart', ~Switch(q), ~(Repoint(q) /\ switched[q])
  PROVE  ProxyUp' = ProxyUp /\ ServedVersions' = ServedVersions
<1>1. target' = target
  BY FirstActs DEF FirstInv, Repoint
<1>2. CASE ~ProxyUp
  BY <1>1, <1>2 DEF ProxyUp, ServedVersions
<1>3. CASE ProxyUp
  <2>1. PICK n \in Name : /\ container'[n] = container[n]
                          /\ container[n].up /\ container[n].port = target
                          /\ container[n].version \in Version
    BY <1>3, TargetKept
  <2>2. \A m \in Name : container[m].up /\ container[m].port = target => m = n
    BY <2>1 DEF PortsApart
  <2>3. \A m \in Name : container'[m].up /\ container'[m].port = target'
                          => m = n
    BY <1>1, <2>1 DEF PortsApart
  <2>4. ServedVersions = {container[n].version}
    BY <1>3, <2>1, <2>2, OnlyServed DEF ServedVersions, Served, Serves
  <2>5. ServedVersions' = {container[n].version}
    BY <1>1, <1>3, <2>1, <2>3, OnlyServed
       DEF ServedVersions, Served, Serves, ProxyUp
  <2>6. QED
    BY <1>1, <2>4, <2>5 DEF ProxyUp
<1>4. QED
  BY <1>2, <1>3

\* From the switch to the undo a run is served alone.
OnGreen(r) ==
  \/ pc[r] \in {"drain"} \cup AfterBlue
  \/ pc[r] = "repoint" /\ switched[r]

LEMMA GreenServed ==
  ASSUME TypeOK, FirstInv, AloneInv, NEW q \in Run, Given(q), OnGreen(q)
  PROVE  ProxyUp /\ ServedVersions = {q}
<1>1. target = port[q] /\ ProxyUp
  BY DEF AloneInv, Pointed, OnGreen, ProxyUp, Given
<1>2. GreenRuns(q)
  BY DEF FirstInv, StandsInv, GreenStands, OnGreen
<1>3. /\ greenName(q) \in Name
      /\ container[greenName(q)].up
      /\ container[greenName(q)].port = target
      /\ container[greenName(q)].version = q
      /\ q \in Version
  BY <1>1, <1>2, Names DEF GreenRuns, Version
<1>4. \A m \in Name : container[m].up /\ container[m].port = target
        => m = greenName(q)
  BY <1>3 DEF AloneInv, PortsApart
<1>5. QED
  BY <1>1, <1>3, <1>4, OnlyServed DEF ServedVersions, Served, Serves

\* Before the switch the seed is.
LEMMA BlueServed ==
  ASSUME Alone, FirstInv, AloneInv,
         \A r \in Run : Given(r) => AtBlue(r) /\ OnBlue(r) /\ ~switched[r]
  PROVE  ServedVersions = IF ProxyUp THEN Seed ELSE {}
<1> SUFFICES ASSUME ProxyUp PROVE ServedVersions = Seed
  BY DEF ServedVersions
<1>1. PICK n \in Name : Kept(n)
  BY DEF FirstInv, TargetInv
<1>2. PICK s \in Seed : TRUE
  BY <1>1 DEF Kept
<1>3. Served(s) /\ \A v \in Version : Served(v) => v = s
  BY SeedServed
<1>4. Seed = {s}
  BY OneOfEach
<1>5. QED
  BY <1>3, <1>4 DEF ServedVersions, Version

-----------------------------------------------------------------------------

\* The switch moves traffic from the seed to the version of the run, ...
LEMMA PromisedSwitch ==
  ASSUME TypeOK, PortOnce, Alone, FirstInv, AloneInv, NEW q \in Run, Given(q),
         Switch(q)
  PROVE  Promised!SwitchTo(q)
<1>1. /\ pc[q] = "switch" /\ target' = port[q] /\ container' = container
      /\ status' = status
  BY DEF Switch, Moves, recordVars
<1>2. \A r \in Run : Given(r) => AtBlue(r) /\ OnBlue(r) /\ ~switched[r]
  BY <1>1, OneOfEach
     DEF FirstInv, PlaceInv, AtBlue, OnBlue, Before, AfterBlue, Closing, Undo,
         Ended
<1>3. ActiveVersions = Seed
  <2>1. OnlyActive(Seed)
    BY <1>1 DEF AloneInv, Rows, Unrecorded, Recording
  <2>2. QED
    BY <2>1 DEF OnlyActive, ActiveVersions, Version
<1>4. ServedVersions = IF ProxyUp THEN Seed ELSE {}
  BY <1>2, BlueServed
<1>5. ProxyUp' = TRUE
  BY <1>1 DEF ProxyUp, Given
<1>6. ServedVersions' = {q}
  <2>1. GreenRuns(q)
    BY <1>1 DEF FirstInv, StandsInv, GreenStands
  <2>2. /\ greenName(q) \in Name
        /\ container'[greenName(q)].up
        /\ container'[greenName(q)].port = target'
        /\ container'[greenName(q)].version = q
        /\ q \in Version
    BY <1>1, <2>1, Names DEF GreenRuns, Version
  <2>3. \A m \in Name : container'[m].up /\ container'[m].port = target'
          => m = greenName(q)
    BY <1>1, <2>2 DEF AloneInv, PortsApart
  <2>4. QED
    BY <1>5, <2>2, <2>3, OnlyServed DEF ServedVersions, Served, Serves
<1>7. ActiveVersions' = ActiveVersions
  BY <1>1 DEF ActiveVersions
<1>8. QED
  BY <1>3, <1>4, <1>5, <1>6, <1>7 DEF Promised!SwitchTo

\* ... the undo moves it back, ...
LEMMA PromisedBack ==
  ASSUME TypeOK, PortOnce, Alone, FirstInv, AloneInv, NEW q \in Run,
         Repoint(q), switched[q]
  PROVE  Promised!SwitchBack(q)
<1>1. /\ pc[q] = "repoint" /\ container' = container /\ status' = status
      /\ target' = IF target # NoPort /\ container[blueName(q)].up
                   THEN container[blueName(q)].port ELSE target
  BY DEF Repoint, Moves, PointAt, recordVars
<1>2. Given(q)
  BY DEF FirstInv, PlaceInv
<1>3. ProxyUp /\ ServedVersions = {q}
  BY <1>1, <1>2, GreenServed DEF OnGreen
<1>4. PICK s \in Seed : AppOf[s] = AppOf[q] /\ BlueOf(s)
  BY <1>1, BlueIsBack DEF FirstInv, Alone
<1>5. blueName(s) = blueName(q) /\ blueName(s) \in Name /\ s \in Version
  BY <1>4, Names DEF Version
<1>6. /\ container[blueName(s)].up
      /\ container[blueName(s)].port = SeedPort[s]
      /\ container[blueName(s)].version = s
  BY <1>4 DEF BlueOf
<1>7. target' = SeedPort[s]
  BY <1>1, <1>3, <1>5, <1>6 DEF ProxyUp
<1>8. ProxyUp' = TRUE
  BY <1>7, DeployAssumption DEF ProxyUp
<1>9. ServedVersions' = {s}
  <2>1. /\ container'[blueName(s)].up
        /\ container'[blueName(s)].port = target'
        /\ container'[blueName(s)].version = s
    BY <1>1, <1>6, <1>7
  <2>2. \A m \in Name : container'[m].up /\ container'[m].port = target'
          => m = blueName(s)
    BY <1>1, <1>5, <2>1 DEF AloneInv, PortsApart
  <2>3. QED
    BY <1>5, <1>8, <2>1, <2>2, OnlyServed DEF ServedVersions, Served, Serves
<1>10. Seed = {s}
  BY OneOfEach
<1>11. ActiveVersions = Seed /\ ActiveVersions' = ActiveVersions
  <2>1. OnlyActive(Seed)
    BY <1>1, <1>2 DEF AloneInv, Rows, Unrecorded, Recording
  <2>2. QED
    BY <1>1, <2>1 DEF OnlyActive, ActiveVersions, Version
<1>12. QED
  BY <1>3, <1>8, <1>9, <1>10, <1>11 DEF Promised!SwitchBack

\* ... and the record of truth follows it, in the two statements that write.
LEMMA PromisedRecord ==
  ASSUME TypeOK, FirstInv, AloneInv, NEW q \in Run, Given(q),
         ProxyUp' = ProxyUp, ServedVersions' = ServedVersions
  PROVE  /\ Supersede(q) => Promised!Supersede(q)
         /\ Record(q) => Promised!Activate(q)
<1>1. ASSUME Supersede(q) PROVE Promised!Supersede(q)
  <2>1. /\ pc[q] = "supersede"
        /\ \A v \in Version : status'[v] = IF v = prev[q] THEN "superseded"
                                           ELSE status[v]
    BY <1>1 DEF Supersede, Moves
  <2>2. ProxyUp /\ ServedVersions = {q}
    BY <2>1, GreenServed DEF OnGreen, AfterBlue
  <2>3. OnlyActive(Seed) /\ \A s \in Seed : s = prev[q]
    BY <2>1 DEF AloneInv, Rows, Unrecorded, Recording
  <2>4. ActiveVersions = Seed
    BY <2>3 DEF OnlyActive, ActiveVersions, Version
  <2>5. ActiveVersions' = {}
    BY <2>1, <2>3 DEF OnlyActive, ActiveVersions
  <2>6. QED
    BY <2>2, <2>4, <2>5 DEF Promised!Supersede
<1>2. ASSUME Record(q) PROVE Promised!Activate(q)
  <2>1. /\ pc[q] = "record"
        /\ \A v \in Version : status'[v] = IF v = q THEN "active"
                                           ELSE status[v]
    BY <1>2 DEF Record, Moves, TypeOK
  <2>2. ProxyUp /\ ServedVersions = {q}
    BY <2>1, GreenServed DEF OnGreen, AfterBlue
  <2>3. OnlyActive({})
    BY <2>1 DEF AloneInv, Rows
  <2>4. ActiveVersions = {}
    BY <2>3 DEF OnlyActive, ActiveVersions
  <2>5. ActiveVersions' = {q}
    BY <2>1, <2>3 DEF OnlyActive, ActiveVersions, Version
  <2>6. QED
    BY <2>2, <2>4, <2>5 DEF Promised!Activate
<1>3. QED
  BY <1>1, <1>2

\* Every step of the pipelines is one of those, or changes nothing of what is
\* promised.
LEMMA PromisedStep ==
  ASSUME TypeOK, PortOnce, Alone, Alone', FirstInv, AloneInv, AloneInv',
         [Next]_vars
  PROVE  Promised!Next \/ UNCHANGED Promised!vars
<1>1. ASSUME NEW q \in Run, Acts(q)
      PROVE  Promised!Next \/ UNCHANGED Promised!vars
  <2>1. FirstStep(q) /\ PlaceInv(q)
    BY <1>1 DEF FirstStep, Alone, FirstInv
  <2>2. CASE ~Given(q)
    <3>1. container' = container /\ target' = target /\ status' = status
      BY <2>1, <2>2, WithoutPort
    <3>2. QED
      BY <3>1 DEF Promised!vars, ProxyUp, ServedVersions, ActiveVersions,
                  Served, Serves
  <2>3. CASE Given(q) /\ Switch(q)
    BY <2>3, PromisedSwitch DEF Promised!Next
  <2>4. CASE Repoint(q) /\ switched[q]
    BY <2>4, PromisedBack DEF Promised!Next
  <2>5. CASE Given(q) /\ ~Switch(q) /\ ~(Repoint(q) /\ switched[q])
    <3>1. ProxyUp' = ProxyUp /\ ServedVersions' = ServedVersions
      BY <2>1, <2>5, SameServed DEF AloneInv
    <3>2. CASE Supersede(q) \/ Record(q)
      BY <2>5, <3>1, <3>2, PromisedRecord DEF Promised!Next
    <3>3. CASE ~Supersede(q) /\ ~Record(q)
      <4>1. status' = status
        BY <2>1, <3>3, FirstActs
      <4>2. QED
        BY <3>1, <4>1 DEF Promised!vars, ActiveVersions
    <3>4. QED
      BY <3>2, <3>3
  <2>6. QED
    BY <2>2, <2>3, <2>4, <2>5
<1>2. CASE Crash
  <2>1. target' = NoPort /\ status' = status
    BY <1>2 DEF Crash, recordVars
  <2>2. QED
    BY <2>1 DEF Promised!Next, Promised!Die, ProxyUp, ServedVersions,
                ActiveVersions
<1>3. CASE UNCHANGED vars
  <2>1. container' = container /\ target' = target /\ status' = status
    BY <1>3 DEF vars, dockerVars, recordVars
  <2>2. QED
    BY <2>1 DEF Promised!vars, ProxyUp, ServedVersions, ActiveVersions,
                Served, Serves
<1>4. QED
  BY <1>1, <1>2, <1>3 DEF Next, Acts

\* What is deployed to begin with is the old version.
LEMMA PromisedStart ==
  ASSUME Init, Alone, FirstInv, AloneInv
  PROVE  Promised!Init
<1> USE DeployAssumption
<1>1. \A r \in Run : ~Given(r)
  BY DEF Init, Given
<1>2. ServedVersions = IF ProxyUp THEN Seed ELSE {}
  BY <1>1, BlueServed
<1>3. ActiveVersions = Seed
  BY <1>1 DEF AloneInv, OnlyActive, ActiveVersions, Version
<1>4. ProxyUp = (Seed # {})
  <2>1. CASE Seed = {}
    BY <2>1 DEF Init, ProxyUp
  <2>2. CASE Seed # {}
    <3>1. PICK s \in Seed : target = SeedPort[s]
      BY <2>2 DEF Init
    <3>2. QED
      BY <2>2, <3>1 DEF ProxyUp
  <2>3. QED
    BY <2>1, <2>2
<1>5. QED
  BY <1>2, <1>3, <1>4 DEF Promised!Init

\* All that a first deploy holds to that has the proxy to itself.
FirstAlone == /\ TypeOK /\ PortOnce
              /\ FirstDeploys => FirstInv
              /\ Alone => AloneInv

LEMMA FirstAloneInvariant == Spec => []FirstAlone
  BY TypeCorrect, FirstInvariant, AloneInvariant, PTL DEF FirstAlone

LEMMA PromisedInduction ==
  FirstAlone /\ FirstAlone' /\ [Next]_vars /\ Alone'
    => Promised!Next \/ UNCHANGED Promised!vars
<1> SUFFICES ASSUME FirstAlone, FirstAlone', [Next]_vars, Alone'
             PROVE  Promised!Next \/ UNCHANGED Promised!vars
  OBVIOUS
<1>1. Alone
  BY AloneBefore DEF FirstAlone
<1>2. QED
  BY <1>1, PromisedStep DEF FirstAlone, Alone

\* A first deploy that has the proxy to itself goes through the steps of
\* BlueGreen and no other: traffic moves to the new version and back in one
\* step each, never both, and the record follows it, whatever throws, whoever
\* cancels and whenever the process dies.
THEOREM FirstDeployPromises == Spec => FirstDeployIsBlueGreen
<1>1. Init /\ FirstAlone => (Alone => Promised!Init)
  BY PromisedStart DEF FirstAlone, Alone
<1>2. FirstAlone /\ FirstAlone' /\ [Next]_vars
        => [Alone' => Promised!Next \/ UNCHANGED Promised!vars]_vars
  BY PromisedInduction
<1>3. QED
  BY <1>1, <1>2, FirstAloneInvariant, PTL DEF Spec, FirstDeployIsBlueGreen

\* In other words, a behaviour in which nothing but such a deploy is made is,
\* for those who send requests and those who read the Deployment table, a
\* behaviour of BlueGreen.
THEOREM FirstDeployImplements == Spec /\ []Alone => Promised!Spec
<1>1. Init /\ FirstAlone /\ Alone => Promised!Init
  BY PromisedStart DEF FirstAlone, Alone
<1>2. FirstAlone /\ FirstAlone' /\ [Next]_vars /\ Alone'
        => [Promised!Next]_(Promised!vars)
  BY PromisedInduction
<1>3. QED
  BY <1>1, <1>2, FirstAloneInvariant, PTL DEF Spec, Promised!Spec

\* Whenever the proxy is up during such a deploy it serves one version: the one
\* the record says, or the new one ahead of the record.
THEOREM FirstDeployKeepsPromise == Spec => [](Alone => Promised!Promise)
<1>1. Promised!Init => Promised!Promise
  BY DEF Promised!Init, Promised!Promise
<1>2. Promised!Promise /\ (Promised!Next \/ UNCHANGED Promised!vars)
        => Promised!Promise'
  BY DEF Promised!Promise, Promised!Next, Promised!vars, Promised!SwitchTo,
         Promised!SwitchBack, Promised!Supersede, Promised!Activate,
         Promised!Die
<1>3. Init /\ FirstAlone => (Alone => Promised!Promise)
  BY <1>1, PromisedStart DEF FirstAlone, Alone
<1>4. FirstAlone /\ FirstAlone' /\ [Next]_vars /\ (Alone => Promised!Promise)
        => (Alone => Promised!Promise)'
  <2> SUFFICES ASSUME FirstAlone, FirstAlone', [Next]_vars,
                      Alone => Promised!Promise, Alone'
               PROVE  Promised!Promise'
    OBVIOUS
  <2>1. Alone
    BY AloneBefore DEF FirstAlone
  <2>2. QED
    BY <1>2, <2>1, PromisedInduction
<1>5. QED
  BY <1>3, <1>4, FirstAloneInvariant, PTL DEF Spec
=============================================================================
