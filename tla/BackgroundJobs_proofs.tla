------------------------ MODULE BackgroundJobs_proofs ------------------------
(***************************************************************************)
(* What holds of the job runner for every set of jobs and viewers, every   *)
(* bound, with and without crashes and rejected writes.                    *)
(***************************************************************************)
EXTENDS BackgroundJobs, SequenceTheorems, TLAPS

\* The columns that decide the life cycle, with their types.
LifecycleTypeOK ==
  /\ state \in [Job -> State]
  /\ fiber \in [Job -> Fiber]
  /\ outcome \in [Job -> Terminal \cup {"none"}]

\* Where the async function is decides what the row says: this is what makes
\* the life cycle inductive.
FiberMatchesRow(j) ==
  /\ fiber[j] = "none" <=> state[j] = "ABSENT"
  /\ fiber[j] \in {"created", "starting"} => state[j] = "QUEUED"
  /\ fiber[j] \in {"working", "settling"} => state[j] = "RUNNING"
  /\ fiber[j] = "settling" => outcome[j] \in Terminal
  /\ state[j] \in Terminal => fiber[j] = "done"

IInv == LifecycleTypeOK /\ \A j \in Job : FiberMatchesRow(j)

\* The initial state: no row, no function.
LEMMA InitIInv == Init => IInv
  BY DEF Init, IInv, LifecycleTypeOK, FiberMatchesRow, State, Fiber, Terminal

\* One step changes the life cycle columns of one job only, the way the
\* runner of that job does; a crash stops every function and leaves the rows.
LEMMA NextIInv == IInv /\ [Next]_vars => IInv'
<1> SUFFICES ASSUME IInv, [Next]_vars PROVE IInv'
  OBVIOUS
<1> USE DEF IInv, LifecycleTypeOK, FiberMatchesRow, State, Fiber, Terminal,
            FiberMoves
<1>1. ASSUME NEW j \in Job, CreateJob(j) PROVE IInv'
  BY <1>1 DEF CreateJob
<1>2. ASSUME NEW j \in Job, RequestCancel(j) PROVE IInv'
  BY <1>2 DEF RequestCancel, rowVars
<1>3. ASSUME NEW j \in Job, Runner(j) PROVE IInv'
  <2>1. CASE RunJob(j)
    BY <2>1 DEF RunJob, rowVars
  <2>2. CASE MarkRunning(j)
    BY <2>2 DEF MarkRunning
  <2>3. CASE MarkRunningRejected(j)
    BY <2>3 DEF MarkRunningRejected, rowVars
  <2>4. CASE RecordOutcome(j)
    BY <2>4 DEF RecordOutcome, Finally
  <2>5. CASE OutcomeRejected(j)
    BY <2>5 DEF OutcomeRejected, rowVars
  <2>6. CASE FailureRejected(j)
    BY <2>6 DEF FailureRejected, Finally, rowVars
  <2>7. QED
    BY <1>3, <2>1, <2>2, <2>3, <2>4, <2>5, <2>6 DEF Runner
<1>4. ASSUME NEW j \in Job, Work(j) PROVE IInv'
  <2>1. CASE EmitLine(j)
    BY <2>1 DEF EmitLine, rowVars, memoryVars
  <2>2. CASE ReportProgress(j)
    BY <2>2 DEF ReportProgress, memoryVars
  <2>3. CASE WorkReturns(j)
    BY <2>3 DEF WorkReturns, Settles, rowVars
  <2>4. CASE WorkThrows(j)
    BY <2>4 DEF WorkThrows, Settles, rowVars
  <2>5. QED
    BY <1>4, <2>1, <2>2, <2>3, <2>4 DEF Work
<1>5. ASSUME NEW j \in Job, Logger(j) PROVE IInv'
  BY <1>5 DEF Logger, ReadLog, WriteLog, WriteLogRejected, rowVars, memoryVars
<1>6. ASSUME NEW v \in Viewer, Poll(v) \/ \E j \in Job : OpenStream(v, j)
      PROVE IInv'
  BY <1>6 DEF Poll, OpenStream, rowVars, memoryVars
<1>7. CASE Crash
  BY <1>7 DEF Crash, rowVars
<1>8. CASE UNCHANGED vars
  BY <1>8 DEF vars, rowVars, memoryVars
<1>9. QED
  BY <1>1, <1>2, <1>3, <1>4, <1>5, <1>6, <1>7, <1>8 DEF Next

\* The invariant holds in every reachable state.
LEMMA Invariance == Spec => []IInv
  BY InitIInv, NextIInv, PTL DEF Spec

\* A step either leaves the state column alone or is one step of the abstract
\* life cycle of one job.
LEMMA StepRefines == IInv /\ [Next]_vars => [Lifecycle!Next]_state
<1> SUFFICES ASSUME IInv, [Next]_vars
             PROVE Lifecycle!Next \/ UNCHANGED state
  OBVIOUS
<1>1. ASSUME NEW j \in Job, CreateJob(j) PROVE Lifecycle!Enqueue(j)
  BY <1>1 DEF CreateJob, Lifecycle!Enqueue, Lifecycle!Move
<1>2. ASSUME NEW j \in Job, MarkRunning(j) PROVE Lifecycle!Start(j)
  BY <1>2 DEF MarkRunning, FiberMoves, Lifecycle!Start, Lifecycle!Move,
              IInv, FiberMatchesRow
<1>3. ASSUME NEW j \in Job, RecordOutcome(j) PROVE Lifecycle!Finish(j)
  BY <1>3 DEF RecordOutcome, Finally, FiberMoves, Lifecycle!Finish,
              Lifecycle!Move, Lifecycle!Terminal, Terminal, IInv,
              FiberMatchesRow
<1>4. ASSUME NEW j \in Job,
             \/ RequestCancel(j) \/ RunJob(j) \/ MarkRunningRejected(j)
             \/ OutcomeRejected(j) \/ FailureRejected(j)
             \/ Work(j) \/ Logger(j)
      PROVE UNCHANGED state
  BY <1>4 DEF RequestCancel, RunJob, MarkRunningRejected, OutcomeRejected,
              FailureRejected, Work, EmitLine, ReportProgress, WorkReturns,
              WorkThrows, Settles, Logger, ReadLog, WriteLog,
              WriteLogRejected, rowVars
<1>5. ASSUME NEW v \in Viewer, Poll(v) \/ \E j \in Job : OpenStream(v, j)
      PROVE UNCHANGED state
  BY <1>5 DEF Poll, OpenStream, rowVars
<1>6. CASE Crash
  BY <1>6 DEF Crash, rowVars
<1>7. CASE UNCHANGED vars
  BY <1>7 DEF vars, rowVars
<1>8. QED
  BY <1>1, <1>2, <1>3, <1>4, <1>5, <1>6, <1>7
  DEF Next, Runner, Lifecycle!Next

\* The job runner implements JobLifecycle: whatever crashes, is rejected or
\* is cancelled, a row walks QUEUED, RUNNING, one terminal value.
THEOREM RunnerImplementsLifecycle == Spec => LifecycleSpec
<1>1. Init => Lifecycle!Init
  BY DEF Init, Lifecycle!Init
<1>2. QED
  BY <1>1, Invariance, StepRefines, PTL
  DEF Spec, LifecycleSpec, Lifecycle!Spec

\* A terminal state is never overwritten.
THEOREM TerminalStateIsFinal == Spec => TerminalIsFinal
<1>1. IInv /\ [Next]_vars =>
        [\A j \in Job : state[j] \in Terminal => state'[j] = state[j]]_vars
  <2> SUFFICES ASSUME IInv, [Next]_vars, NEW j \in Job, state[j] \in Terminal
               PROVE state'[j] = state[j]
    OBVIOUS
  <2>1. CASE UNCHANGED state
    BY <2>1
  <2>2. ASSUME NEW i \in Job,
               \/ Lifecycle!Enqueue(i) \/ Lifecycle!Start(i)
               \/ Lifecycle!Finish(i)
        PROVE state'[j] = state[j]
    BY <2>2 DEF Lifecycle!Enqueue, Lifecycle!Start, Lifecycle!Finish,
                Lifecycle!Move, Terminal, IInv, LifecycleTypeOK
  <2>3. QED
    BY <2>1, <2>2, StepRefines DEF Lifecycle!Next
<1>2. QED
  BY <1>1, Invariance, PTL DEF Spec, TerminalIsFinal

-----------------------------------------------------------------------------
(* Types, and who is in `running`                                          *)

\* A stream that is open is of a job.
OpenHasJob == \A v \in Viewer : stream[v].open => stream[v].job \in Job

\* Nothing has happened yet.
LEMMA InitTypes == Init => TypeOK /\ OpenHasJob
  BY EmptySeq, JobAssumption DEF Init, TypeOK, OpenHasJob, State, Fiber,
     Terminal, Stream

\* A turn of a stream keeps its job.
LEMMA StreamMoves ==
  ASSUME NEW s \in Stream,
         NEW got \in Seq(Line), NEW n \in Nat, NEW more \in BOOLEAN
  PROVE  LET new == [s EXCEPT !.got = got, !.sentLen = n, !.open = more]
         IN  new \in Stream /\ new.job = s.job
  BY DEF Stream

\* A turn of a stream sends part of a log.
LEMMA PollTypes ==
  ASSUME TypeOK, OpenHasJob, NEW v \in Viewer, Poll(v)
  PROVE  stream' \in [Viewer -> Stream] /\ OpenHasJob'
<1> DEFINE s == stream[v]
           l == log[s.job]
           part == SubSeq(l, s.sentLen + 1, Len(l))
           more == state[s.job] \in {"QUEUED", "RUNNING"}
           new == [s EXCEPT !.got = @ \o part, !.sentLen = Len(l),
                            !.open = more]
<1>1. s \in Stream /\ s.job \in Job /\ l \in Seq(Line)
  BY DEF Poll, TypeOK, OpenHasJob
<1>2. Len(l) \in Nat /\ \A i \in 1..Len(l) : l[i] \in Line
  BY <1>1, LenProperties, ElementOfSeq
<1>3. part \in Seq(Line)
  <2>1. \A i \in (s.sentLen + 1)..Len(l) : l[i] \in Line
    BY <1>1, <1>2 DEF Stream
  <2>2. QED
    BY <1>1, <1>2, <2>1, SubSeqProperties DEF Stream
<1>4. s.got \o part \in Seq(Line)
  BY <1>1, <1>3, ConcatProperties DEF Stream
<1>5. new \in Stream /\ new.job \in Job
  <2>1. more \in BOOLEAN
    OBVIOUS
  <2> HIDE DEF part, s, l, more
  <2>2. \A g \in Seq(Line), n \in Nat, o \in BOOLEAN :
          LET x == [s EXCEPT !.got = g, !.sentLen = n, !.open = o]
          IN  x \in Stream /\ x.job = s.job
    BY <1>1, StreamMoves
  <2>3. QED
    BY <1>1, <1>2, <1>4, <2>1, <2>2
<1>6. stream' = [stream EXCEPT ![v] = new]
  BY DEF Poll
<1> HIDE DEF new, part
<1>7. QED
  BY <1>5, <1>6 DEF TypeOK, OpenHasJob

\* A step of ctx.log.
LEMMA LoggerTypes ==
  ASSUME TypeOK, NEW j \in Job, Logger(j)
  PROVE  /\ log' \in [Job -> Seq(Line)]
         /\ appends' \in [Job -> SUBSET LogCall]
<1>1. PICK a \in appends[j] :
        ReadLog(j, a) \/ WriteLog(j, a) \/ WriteLogRejected(j, a)
  BY DEF Logger
<1>2. a \in LogCall
  BY DEF TypeOK
<1>3. CASE ReadLog(j, a)
  <2>1. [line |-> a.line, read |-> TRUE, seen |-> log[j]] \in LogCall
    BY <1>2 DEF TypeOK, LogCall
  <2>2. QED
    BY <1>3, <2>1 DEF ReadLog, TypeOK, rowVars
<1>4. CASE WriteLog(j, a)
  <2>1. Append(a.seen, a.line) \in Seq(Line)
    BY <1>2, AppendProperties DEF LogCall
  <2>2. QED
    BY <1>4, <2>1 DEF WriteLog, TypeOK
<1>5. CASE WriteLogRejected(j, a)
  BY <1>5 DEF WriteLogRejected, TypeOK, rowVars
<1>6. QED
  BY <1>1, <1>3, <1>4, <1>5

\* One action at a time.
LEMMA NextTypes ==
  TypeOK /\ OpenHasJob /\ IInv /\ [Next]_vars => TypeOK' /\ OpenHasJob'
<1> SUFFICES ASSUME TypeOK, OpenHasJob, IInv, [Next]_vars
             PROVE  TypeOK' /\ OpenHasJob'
  OBVIOUS
<1> USE JobAssumption
<1>1. ASSUME NEW j \in Job, CreateJob(j) \/ RequestCancel(j) \/ Runner(j)
      PROVE  TypeOK' /\ OpenHasJob'
  <2>1. UNCHANGED <<log, emitted, appends, stream, crashes>>
    BY <1>1 DEF CreateJob, RequestCancel, Runner, RunJob, MarkRunning,
                MarkRunningRejected, RecordOutcome, OutcomeRejected,
                FailureRejected, rowVars, logVars
  <2>2. running' \subseteq Job /\ cancelRegistry' \subseteq Job
    BY <1>1 DEF CreateJob, RequestCancel, Runner, RunJob, MarkRunning,
                MarkRunningRejected, RecordOutcome, OutcomeRejected,
                FailureRejected, Finally, TypeOK
  <2>3. /\ state' \in [Job -> State] /\ fiber' \in [Job -> Fiber]
        /\ outcome' \in [Job -> Terminal \cup {"none"}]
    BY NextIInv DEF IInv, LifecycleTypeOK
  <2>4. \/ progress' = progress
        \/ \E n \in 0..100 : progress' = [progress EXCEPT ![j] = n]
    BY <1>1 DEF CreateJob, RequestCancel, Runner, RunJob, MarkRunning,
                MarkRunningRejected, RecordOutcome, OutcomeRejected,
                FailureRejected, rowVars, TypeOK
  <2>5. progress' \in [Job -> 0..100]
    BY <2>4 DEF TypeOK
  <2>6. QED
    BY <2>1, <2>2, <2>3, <2>5 DEF TypeOK, OpenHasJob
<1>2. ASSUME NEW j \in Job, EmitLine(j) PROVE TypeOK' /\ OpenHasJob'
  <2>1. emitted[j] + 1 \in Line
    BY <1>2 DEF EmitLine, TypeOK, Line
  <2>2. [line |-> emitted[j] + 1, read |-> FALSE, seen |-> <<>>] \in LogCall
    BY <2>1, EmptySeq DEF LogCall
  <2>3. emitted' \in [Job -> 0..MaxLines]
    BY <1>2, <2>1 DEF EmitLine, TypeOK, Line
  <2>4. appends' \in [Job -> SUBSET LogCall]
    BY <1>2, <2>2 DEF EmitLine, TypeOK
  <2>5. QED
    BY <1>2, <2>3, <2>4 DEF EmitLine, TypeOK, OpenHasJob, rowVars, memoryVars
<1>3. ASSUME NEW j \in Job,
             ReportProgress(j) \/ WorkReturns(j) \/ WorkThrows(j)
      PROVE  TypeOK' /\ OpenHasJob'
  <2>1. CASE ReportProgress(j)
    <3>1. PICK pct \in {5, 100} : progress' = [progress EXCEPT ![j] = pct]
      BY <2>1 DEF ReportProgress
    <3>2. progress' \in [Job -> 0..100]
      BY <3>1 DEF TypeOK
    <3>3. QED
      BY <2>1, <3>2 DEF ReportProgress, TypeOK, OpenHasJob, memoryVars, logVars
  <2>2. CASE WorkReturns(j) \/ WorkThrows(j)
    BY <2>2 DEF WorkReturns, WorkThrows, Settles, FiberMoves, TypeOK, Fiber,
                Terminal, OpenHasJob, rowVars, logVars
  <2>3. QED
    BY <1>3, <2>1, <2>2
<1>4. ASSUME NEW j \in Job, Logger(j) PROVE TypeOK' /\ OpenHasJob'
  <2>1. UNCHANGED <<state, progress, memoryVars, emitted, stream, crashes>>
    BY <1>4 DEF Logger, ReadLog, WriteLog, WriteLogRejected, rowVars
  <2>2. log' \in [Job -> Seq(Line)] /\ appends' \in [Job -> SUBSET LogCall]
    BY <1>4, LoggerTypes
  <2>3. QED
    BY <2>1, <2>2 DEF TypeOK, OpenHasJob, memoryVars
<1>5. ASSUME NEW v \in Viewer, Poll(v) PROVE TypeOK' /\ OpenHasJob'
  BY <1>5, PollTypes DEF Poll, TypeOK, rowVars, memoryVars, logVars
<1>6. ASSUME NEW v \in Viewer, NEW j \in Job, OpenStream(v, j)
      PROVE  TypeOK' /\ OpenHasJob'
  <2>1. [job |-> j, open |-> TRUE, sentLen |-> 0, got |-> <<>>] \in Stream
    BY EmptySeq DEF Stream
  <2>2. QED
    BY <1>6, <2>1 DEF OpenStream, TypeOK, OpenHasJob, rowVars, memoryVars,
                      logVars
<1>7. CASE Crash
  <2>1. stream' \in [Viewer -> Stream] /\ OpenHasJob'
    <3>1. stream' = [v \in Viewer |-> [stream[v] EXCEPT !.open = FALSE]]
      BY <1>7 DEF Crash
    <3>2. ASSUME NEW v \in Viewer
          PROVE  stream'[v] \in Stream /\ ~stream'[v].open
      BY <3>1 DEF TypeOK, Stream
    <3>3. QED
      BY <3>1, <3>2 DEF OpenHasJob
  <2>2. /\ fiber' \in [Job -> Fiber] /\ appends' \in [Job -> SUBSET LogCall]
        /\ crashes' \in 0..MaxCrashes
    BY <1>7 DEF Crash, TypeOK, Fiber
  <2>3. QED
    BY <1>7, <2>1, <2>2 DEF Crash, TypeOK, rowVars
<1>8. CASE UNCHANGED vars
  BY <1>8 DEF vars, rowVars, memoryVars, logVars, TypeOK, OpenHasJob
<1>9. QED
  BY <1>1, <1>2, <1>3, <1>4, <1>5, <1>6, <1>7, <1>8 DEF Next, Work

\* Type invariant of the job runner.
THEOREM TypeCorrect == Spec => []TypeOK
  BY InitTypes, NextTypes, Invariance, PTL DEF Spec

\* While the process lives and the database answers, a RUNNING row belongs to
\* a function that is at its work or settling, and such a function is
\* registered.
RunnerInv ==
  crashes = 0 /\ ~DbFaults => \A j \in Job :
    /\ state[j] = "RUNNING" => fiber[j] \in {"working", "settling"}
    /\ fiber[j] \in {"starting", "working", "settling"} => j \in running

\* Only the runner of a job moves its function, and it leaves the registry
\* with its last step.
LEMMA NextRunner == TypeOK /\ IInv /\ RunnerInv /\ [Next]_vars => RunnerInv'
<1> SUFFICES ASSUME TypeOK, IInv, RunnerInv, [Next]_vars,
                    crashes' = 0, ~DbFaults, NEW i \in Job
             PROVE  /\ state'[i] = "RUNNING" =>
                         fiber'[i] \in {"working", "settling"}
                    /\ fiber'[i] \in {"starting", "working", "settling"} =>
                         i \in running'
  BY DEF RunnerInv
<1> USE DEF FiberMoves
<1>1. CASE Crash
  BY <1>1 DEF Crash, TypeOK
<1>2. CASE ~Crash
  <2>1. crashes = 0
    BY <1>2 DEF Next, vars, CreateJob, RequestCancel, Runner, RunJob,
       MarkRunning, MarkRunningRejected, RecordOutcome, OutcomeRejected,
       FailureRejected, Work, EmitLine, ReportProgress, WorkReturns,
       WorkThrows, Settles, Logger, ReadLog, WriteLog, WriteLogRejected, Poll,
       OpenStream
  <2>2. /\ state[i] = "RUNNING" => fiber[i] \in {"working", "settling"}
        /\ fiber[i] \in {"starting", "working", "settling"} => i \in running
    BY <2>1 DEF RunnerInv
  <2>3. ASSUME NEW j \in Job, CreateJob(j) \/ RunJob(j) \/ MarkRunning(j)
        PROVE  /\ state'[i] = "RUNNING" =>
                    fiber'[i] \in {"working", "settling"}
               /\ fiber'[i] \in {"starting", "working", "settling"} =>
                    i \in running'
    BY <2>2, <2>3 DEF CreateJob, RunJob, MarkRunning, rowVars, TypeOK
  <2>4. ASSUME NEW j \in Job, RecordOutcome(j)
        PROVE  /\ state'[i] = "RUNNING" =>
                    fiber'[i] \in {"working", "settling"}
               /\ fiber'[i] \in {"starting", "working", "settling"} =>
                    i \in running'
    BY <2>2, <2>4 DEF RecordOutcome, Finally, TypeOK, IInv, FiberMatchesRow,
                      Terminal
  <2>5. ASSUME NEW j \in Job, WorkReturns(j) \/ WorkThrows(j)
        PROVE  /\ state'[i] = "RUNNING" =>
                    fiber'[i] \in {"working", "settling"}
               /\ fiber'[i] \in {"starting", "working", "settling"} =>
                    i \in running'
    BY <2>2, <2>5 DEF WorkReturns, WorkThrows, Settles, rowVars, TypeOK
  <2>6. ASSUME NEW j \in Job,
               \/ MarkRunningRejected(j) \/ OutcomeRejected(j)
               \/ FailureRejected(j)
        PROVE  FALSE
    BY <2>6 DEF MarkRunningRejected, OutcomeRejected, FailureRejected
  <2>7. ASSUME UNCHANGED <<state, fiber, running>>
        PROVE  /\ state'[i] = "RUNNING" =>
                    fiber'[i] \in {"working", "settling"}
               /\ fiber'[i] \in {"starting", "working", "settling"} =>
                    i \in running'
    BY <2>2, <2>7
  <2>8. ASSUME NEW j \in Job,
               \/ RequestCancel(j) \/ EmitLine(j) \/ ReportProgress(j)
               \/ Logger(j)
        PROVE  UNCHANGED <<state, fiber, running>>
    BY <2>8 DEF RequestCancel, EmitLine, ReportProgress, Logger, ReadLog,
                WriteLog, WriteLogRejected, rowVars, memoryVars
  <2>9. ASSUME NEW v \in Viewer, Poll(v) \/ \E j \in Job : OpenStream(v, j)
        PROVE  UNCHANGED <<state, fiber, running>>
    BY <2>9 DEF Poll, OpenStream, rowVars, memoryVars
  <2>10. UNCHANGED vars => UNCHANGED <<state, fiber, running>>
    BY DEF vars, rowVars, memoryVars
  <2>11. QED
    BY <1>2, <2>3, <2>4, <2>5, <2>6, <2>7, <2>8, <2>9, <2>10
       DEF Next, Runner, Work
<1>3. QED
  BY <1>1, <1>2

\* As long as the process lives and the database answers, a row says RUNNING
\* only while its function is registered.
THEOREM RunningRowsAreRun == Spec => []RunningRowsHaveRunner
<1>1. Init => RunnerInv
  BY DEF Init, RunnerInv
<1>2. RunnerInv => RunningRowsHaveRunner
  BY DEF RunnerInv, RunningRowsHaveRunner
<1>3. QED
  BY <1>1, <1>2, NextRunner, Invariance, TypeCorrect, PTL DEF Spec

-----------------------------------------------------------------------------
(* The log of a job that awaits its lines                                  *)

\* One call of ctx.log is in flight, of the line emitted last, and what it
\* has read is still what the row holds.
CallInv(j) ==
  /\ \A a \in appends[j] : \A b \in appends[j] : a = b
  /\ \A a \in appends[j] : /\ fiber[j] = "working" /\ a.line = emitted[j]
                           /\ a.read => a.seen = log[j]

\* The row holds the lines emitted before that one, in their order ...
OrderInv(j) ==
  /\ \A n \in 1..Len(log[j]) :
       /\ log[j][n] <= emitted[j]
       /\ appends[j] # {} => log[j][n] < emitted[j]
  /\ \A m \in 1..Len(log[j]) : \A n \in 1..Len(log[j]) :
       m < n => log[j][m] < log[j][n]

\* ... and, if no write is rejected, all of them.
HasLines(j, k) == Len(log[j]) = k /\ \A n \in 1..k : log[j][n] = n
WholeInv(j) ==
  ~DbFaults => /\ appends[j] = {} /\ fiber[j] # "lost" =>
                    HasLines(j, emitted[j])
               /\ appends[j] # {} => HasLines(j, emitted[j] - 1)

LogInv == \A j \in Job \ Detached : CallInv(j) /\ OrderInv(j) /\ WholeInv(j)

\* There is no log yet.
LEMMA InitLog == Init => LogInv
<1> SUFFICES ASSUME Init, NEW j \in Job
             PROVE  CallInv(j) /\ OrderInv(j) /\ WholeInv(j)
  BY DEF LogInv
<1>1. /\ appends[j] = {} /\ log[j] = <<>> /\ emitted[j] = 0
      /\ Len(log[j]) = 0
  BY EmptySeq DEF Init
<1>2. QED
  BY <1>1 DEF CallInv, OrderInv, WholeInv, HasLines

\* The columns and calls of a job are left alone.
LogSame(j) ==
  /\ appends'[j] = appends[j] /\ log'[j] = log[j]
  /\ emitted'[j] = emitted[j]

\* ... and then its log is as it was, as long as the function is not at the
\* work any more only if no call is in flight.
LEMMA LogKept ==
  ASSUME NEW j \in Job, LogSame(j),
         fiber'[j] = "working" \/ appends[j] = {},
         fiber[j] = "lost" => fiber'[j] = "lost",
         CallInv(j), OrderInv(j), WholeInv(j)
  PROVE  CallInv(j)' /\ OrderInv(j)' /\ WholeInv(j)'
<1>1. CallInv(j)'
  BY DEF LogSame, CallInv
<1>2. OrderInv(j)'
  BY DEF LogSame, OrderInv
<1>3. WholeInv(j)'
  BY DEF LogSame, WholeInv, HasLines
<1>4. QED
  BY <1>1, <1>2, <1>3

\* Lines are numbered.
LEMMA LinesAreNumbers ==
  ASSUME TypeOK, NEW j \in Job
  PROVE  /\ Len(log[j]) \in Nat
         /\ \A n \in 1..Len(log[j]) : log[j][n] \in Nat
<1>1. log[j] \in Seq(Line) /\ Line \subseteq Nat
  BY DEF TypeOK, Line
<1>2. QED
  BY <1>1, LenProperties, ElementOfSeq

\* The work hands over a line: nothing was in flight.
LEMMA EmitKeepsLog ==
  ASSUME TypeOK, NEW j \in Job \ Detached, EmitLine(j),
         CallInv(j), OrderInv(j), WholeInv(j)
  PROVE  CallInv(j)' /\ OrderInv(j)' /\ WholeInv(j)'
<1>1. /\ appends[j] = {} /\ fiber[j] = "working" /\ fiber' = fiber
      /\ log' = log /\ state' = state
  BY DEF EmitLine, Idle, Awaits, rowVars, memoryVars
<1>2. /\ appends'[j] =
           {[line |-> emitted[j] + 1, read |-> FALSE, seen |-> <<>>]}
      /\ emitted'[j] = emitted[j] + 1 /\ emitted[j] \in Nat
  BY <1>1 DEF EmitLine, TypeOK
<1>3. CallInv(j)'
  BY <1>1, <1>2 DEF CallInv
<1>4. OrderInv(j)'
  <2>1. log'[j] = log[j] /\ emitted'[j] = emitted[j] + 1
    BY <1>1, <1>2
  <2>2. ASSUME NEW n \in 1..Len(log[j]) PROVE log[j][n] < emitted[j] + 1
    <3>1. log[j][n] <= emitted[j]
      BY DEF OrderInv
    <3>2. log[j][n] \in Nat /\ emitted[j] \in Nat
      BY <1>2, LinesAreNumbers
    <3>3. QED
      BY <3>1, <3>2
  <2>3. ASSUME NEW n \in 1..Len(log[j]) PROVE log[j][n] <= emitted[j] + 1
    <3>1. log[j][n] \in Nat /\ emitted[j] \in Nat
      BY <1>2, LinesAreNumbers
    <3>2. QED
      BY <2>2, <3>1
  <2>4. QED
    BY <2>1, <2>2, <2>3 DEF OrderInv
<1>5. WholeInv(j)'
  <2>1. ~DbFaults => HasLines(j, emitted[j])
    BY <1>1 DEF WholeInv
  <2>2. emitted'[j] - 1 = emitted[j] /\ appends'[j] # {}
    BY <1>2
  <2>3. ~DbFaults => HasLines(j, emitted[j] - 1)'
    BY <1>1, <2>1, <2>2 DEF HasLines
  <2>4. QED
    BY <2>2, <2>3 DEF WholeInv
<1>6. QED
  BY <1>3, <1>4, <1>5

\* The call reads, then writes what it read and its line.
LEMMA LoggerKeepsLog ==
  ASSUME TypeOK, NEW j \in Job \ Detached, Logger(j),
         CallInv(j), OrderInv(j), WholeInv(j)
  PROVE  CallInv(j)' /\ OrderInv(j)' /\ WholeInv(j)'
<1>1. PICK a \in appends[j] :
        ReadLog(j, a) \/ WriteLog(j, a) \/ WriteLogRejected(j, a)
  BY DEF Logger
<1>2. /\ appends[j] = {a} /\ fiber[j] = "working" /\ a.line = emitted[j]
      /\ a.read => a.seen = log[j]
  BY DEF CallInv
<1>3. /\ fiber' = fiber /\ state' = state /\ emitted' = emitted
      /\ emitted[j] \in Nat /\ emitted[j] \in Line /\ log[j] \in Seq(Line)
  BY <1>1, <1>2 DEF ReadLog, WriteLog, WriteLogRejected, rowVars, memoryVars,
                    TypeOK, LogCall
<1>4. CASE ReadLog(j, a)
  <2>1. /\ log' = log
        /\ appends'[j] = {[line |-> a.line, read |-> TRUE, seen |-> log[j]]}
    BY <1>2, <1>4 DEF ReadLog, TypeOK, rowVars
  <2>2. CallInv(j)'
    BY <1>2, <1>3, <2>1 DEF CallInv
  <2>3. OrderInv(j)' /\ WholeInv(j)'
    BY <1>2, <1>3, <2>1 DEF OrderInv, WholeInv, HasLines
  <2>4. QED
    BY <2>2, <2>3
<1>5. CASE WriteLog(j, a)
  <2>1. /\ log'[j] = Append(log[j], emitted[j])
        /\ appends'[j] = {}
    BY <1>2, <1>5 DEF WriteLog, TypeOK
  <2>2. /\ Len(log[j]) \in Nat /\ Len(log'[j]) = Len(log[j]) + 1
        /\ \A n \in 1..Len(log[j]) : log'[j][n] = log[j][n]
        /\ log'[j][Len(log[j]) + 1] = emitted[j]
    BY <1>3, <2>1, AppendProperties, LenProperties
  <2>3. \A n \in 1..Len(log[j]) : log[j][n] < emitted[j]
    BY <1>2 DEF OrderInv
  <2>4. \A n \in 1..Len(log[j]) : log[j][n] \in Nat
    BY LinesAreNumbers
  <2>5. OrderInv(j)'
    <3>1. ASSUME NEW n \in 1..Len(log'[j])
          PROVE  log'[j][n] <= emitted'[j]
      <4>1. CASE n \in 1..Len(log[j])
        BY <1>3, <2>2, <2>3, <2>4, <4>1
      <4>2. CASE n = Len(log[j]) + 1
        BY <1>3, <2>2, <4>2
      <4>3. QED
        BY <2>2, <4>1, <4>2
    <3>2. ASSUME NEW m \in 1..Len(log'[j]), NEW n \in 1..Len(log'[j]), m < n
          PROVE  log'[j][m] < log'[j][n]
      <4>1. m \in 1..Len(log[j])
        BY <2>2, <3>2
      <4>2. CASE n \in 1..Len(log[j])
        BY <2>2, <3>2, <4>1, <4>2 DEF OrderInv
      <4>3. CASE n = Len(log[j]) + 1
        BY <2>2, <2>3, <4>1, <4>3
      <4>4. QED
        BY <2>2, <4>2, <4>3
    <3>3. QED
      BY <2>1, <3>1, <3>2 DEF OrderInv
  <2>6. WholeInv(j)'
    <3>1. ASSUME ~DbFaults PROVE HasLines(j, emitted[j])'
      <4>1. /\ Len(log[j]) = emitted[j] - 1
            /\ \A n \in 1..(emitted[j] - 1) : log[j][n] = n
        BY <1>2, <3>1 DEF WholeInv, HasLines
      <4>2. Len(log'[j]) = emitted'[j]
        BY <1>3, <2>2, <4>1
      <4>3. ASSUME NEW n \in 1..emitted[j] PROVE log'[j][n] = n
        <5>1. CASE n \in 1..Len(log[j])
          BY <2>2, <4>1, <5>1
        <5>2. CASE n = emitted[j]
          BY <1>3, <2>2, <4>1, <5>2
        <5>3. QED
          BY <1>3, <4>1, <5>1, <5>2
      <4>4. QED
        BY <1>3, <4>2, <4>3 DEF HasLines
    <3>2. QED
      BY <1>2, <1>3, <2>1, <3>1 DEF WholeInv
  <2>7. QED
    BY <2>1, <2>5, <2>6 DEF CallInv
<1>6. CASE WriteLogRejected(j, a)
  <2>1. log' = log /\ appends'[j] = {} /\ DbFaults
    BY <1>2, <1>6 DEF WriteLogRejected, TypeOK, rowVars
  <2>2. QED
    BY <1>3, <2>1 DEF CallInv, OrderInv, WholeInv
<1>7. QED
  BY <1>1, <1>4, <1>5, <1>6

\* Nobody but the work and the calls of the job itself touch its log, and the
\* work goes on only when none is in flight.
LEMMA NextLog == TypeOK /\ IInv /\ LogInv /\ [Next]_vars => LogInv'
<1> SUFFICES ASSUME TypeOK, IInv, LogInv, [Next]_vars,
                    NEW i \in Job \ Detached
             PROVE  CallInv(i)' /\ OrderInv(i)' /\ WholeInv(i)'
  BY DEF LogInv
<1>1. CallInv(i) /\ OrderInv(i) /\ WholeInv(i) /\ i \in Job
  BY DEF LogInv
<1>2. appends[i] # {} => fiber[i] = "working"
  BY <1>1 DEF CallInv
<1>3. ASSUME NEW j \in Job,
             \/ CreateJob(j) \/ RequestCancel(j) \/ Runner(j)
             \/ ReportProgress(j) \/ WorkReturns(j) \/ WorkThrows(j)
      PROVE  CallInv(i)' /\ OrderInv(i)' /\ WholeInv(i)'
  <2>1. LogSame(i)
    BY <1>3 DEF CreateJob, RequestCancel, Runner, RunJob, MarkRunning,
       MarkRunningRejected, RecordOutcome, OutcomeRejected, FailureRejected,
       ReportProgress, WorkReturns, WorkThrows, Settles, rowVars, logVars,
       LogSame
  <2>2. fiber'[i] = "working" \/ appends[i] = {}
    BY <1>2, <1>3
       DEF CreateJob, RequestCancel, Runner, RunJob, MarkRunning,
       MarkRunningRejected, RecordOutcome, OutcomeRejected, FailureRejected,
       ReportProgress, WorkReturns, WorkThrows, Settles, Finally, FiberMoves,
       Idle, Awaits, memoryVars, TypeOK
  <2>3. fiber[i] = "lost" => fiber'[i] = "lost"
    BY <1>3
       DEF CreateJob, RequestCancel, Runner, RunJob, MarkRunning,
       MarkRunningRejected, RecordOutcome, OutcomeRejected, FailureRejected,
       ReportProgress, WorkReturns, WorkThrows, Settles, Finally, FiberMoves,
       memoryVars, TypeOK
  <2>4. QED
    BY <1>1, <2>1, <2>2, <2>3, LogKept
<1>4. ASSUME NEW j \in Job, EmitLine(j) \/ Logger(j)
      PROVE  CallInv(i)' /\ OrderInv(i)' /\ WholeInv(i)'
  <2>1. CASE i = j
    BY <1>1, <1>4, <2>1, EmitKeepsLog, LoggerKeepsLog
  <2>2. CASE i # j
    <3>1. LogSame(i) /\ fiber' = fiber /\ state' = state
      BY <1>4, <2>2 DEF EmitLine, Logger, ReadLog, WriteLog, WriteLogRejected,
         LogSame, TypeOK, rowVars, memoryVars
    <3>2. QED
      BY <1>1, <1>2, <3>1, LogKept DEF WholeInv
  <2>3. QED
    BY <2>1, <2>2
<1>5. CASE Crash
  BY <1>1, <1>5 DEF Crash, rowVars, CallInv, OrderInv, WholeInv, HasLines,
                    TypeOK
<1>6. ASSUME NEW v \in Viewer, Poll(v) \/ \E j \in Job : OpenStream(v, j)
      PROVE  CallInv(i)' /\ OrderInv(i)' /\ WholeInv(i)'
  BY <1>1, <1>2, <1>6, LogKept
     DEF Poll, OpenStream, rowVars, memoryVars, logVars, LogSame, WholeInv
<1>7. CASE UNCHANGED vars
  BY <1>1, <1>2, <1>7, LogKept
     DEF vars, rowVars, memoryVars, logVars, LogSame, WholeInv
<1>8. QED
  BY <1>3, <1>4, <1>5, <1>6, <1>7 DEF Next, Work

\* The log of a job that awaits its lines is always in the order of the calls.
THEOREM LinesInOrder == Spec => []LogInOrder
<1>1. TypeOK /\ LogInv => LogInOrder
  <2> SUFFICES ASSUME TypeOK, LogInv, NEW j \in Job \ Detached,
                      NEW m \in DOMAIN log[j], NEW n \in DOMAIN log[j], m < n
               PROVE  log[j][m] < log[j][n]
    BY DEF LogInOrder
  <2>1. DOMAIN log[j] = 1..Len(log[j])
    BY LenProperties DEF TypeOK
  <2>2. QED
    BY <2>1 DEF LogInv, OrderInv
<1>2. QED
  BY <1>1, InitLog, NextLog, Invariance, TypeCorrect, PTL DEF Spec

\* With a database that answers, such a job has its whole log in the row once
\* it is terminal.
THEOREM LogIsComplete == Spec => []CompleteLog
<1>1. TypeOK /\ IInv /\ LogInv => CompleteLog
  <2> SUFFICES ASSUME TypeOK, IInv, LogInv, NEW j \in Job \ Detached,
                      ~DbFaults, state[j] \in Terminal
               PROVE  log[j] = AllLines(j)
    BY DEF CompleteLog
  <2>1. fiber[j] = "done" /\ appends[j] = {}
    BY DEF IInv, FiberMatchesRow, LogInv, CallInv
  <2>2. Len(log[j]) = emitted[j] /\ \A n \in 1..emitted[j] : log[j][n] = n
    BY <2>1 DEF LogInv, WholeInv, HasLines
  <2>3. log[j] \in [1..Len(log[j]) -> Line]
    BY LenProperties DEF TypeOK
  <2>4. QED
    BY <2>2, <2>3 DEF AllLines
<1>2. QED
  BY <1>1, InitLog, NextLog, Invariance, TypeCorrect, PTL DEF Spec

-----------------------------------------------------------------------------
(* What a stream shows                                                     *)

\* A stream has sent a beginning of the log of its job.
Shows(v, j) == /\ stream[v].sentLen <= Len(log[j])
               /\ stream[v].got = SubSeq(log[j], 1, stream[v].sentLen)
StreamInv ==
  \A v \in Viewer : \A j \in Job \ Detached :
    stream[v].job = j => Shows(v, j)

\* The log of a job that awaits its lines only grows.
LEMMA LogGrows ==
  ASSUME TypeOK, LogInv, [Next]_vars, NEW j \in Job \ Detached
  PROVE  log'[j] = log[j] \/ \E x \in Line : log'[j] = Append(log[j], x)
<1>1. ASSUME NEW i \in Job, NEW a \in appends[i], WriteLog(i, a)
      PROVE  log'[j] = log[j] \/ \E x \in Line : log'[j] = Append(log[j], x)
  <2>1. CASE i = j
    <3>1. a.seen = log[j] /\ a.line \in Line
      BY <1>1, <2>1 DEF WriteLog, LogInv, CallInv, TypeOK, LogCall
    <3>2. QED
      BY <1>1, <2>1, <3>1 DEF WriteLog, TypeOK
  <2>2. QED
    BY <1>1, <2>1 DEF WriteLog, TypeOK
<1>2. ASSUME NEW i \in Job, NEW a \in appends[i],
             ReadLog(i, a) \/ WriteLogRejected(i, a)
      PROVE  log' = log
  BY <1>2 DEF ReadLog, WriteLogRejected, rowVars
<1>3. ASSUME NEW i \in Job,
             \/ CreateJob(i) \/ RequestCancel(i) \/ Runner(i) \/ Work(i)
      PROVE  log' = log
  BY <1>3 DEF CreateJob, RequestCancel, Runner, RunJob, MarkRunning,
     MarkRunningRejected, RecordOutcome, OutcomeRejected, FailureRejected,
     Work, EmitLine, ReportProgress, WorkReturns, WorkThrows, Settles, rowVars
<1>4. ASSUME NEW v \in Viewer, Poll(v) \/ \E i \in Job : OpenStream(v, i)
      PROVE  log' = log
  BY <1>4 DEF Poll, OpenStream, rowVars
<1>5. Crash \/ UNCHANGED vars => log' = log
  BY DEF Crash, vars, rowVars
<1>6. QED
  BY <1>1, <1>2, <1>3, <1>4, <1>5 DEF Next, Logger

\* ... and what a stream has sent stays a beginning of it.
LEMMA ShowsKept ==
  ASSUME TypeOK, LogInv, [Next]_vars, NEW j \in Job \ Detached,
         NEW n \in Nat, n <= Len(log[j])
  PROVE  n <= Len(log'[j]) /\ SubSeq(log'[j], 1, n) = SubSeq(log[j], 1, n)
<1> DEFINE l == log[j]
<1>1. l \in Seq(Line) /\ Len(l) \in Nat
  BY LenProperties DEF TypeOK
<1>2. ASSUME NEW x \in Line, NEW m, m = Append(l, x)
      PROVE  n <= Len(m) /\ SubSeq(m, 1, n) = SubSeq(l, 1, n)
  <2>1. /\ m \in Seq(Line) /\ Len(m) = Len(l) + 1
        /\ \A i \in 1..Len(l) : m[i] = l[i]
    BY <1>1, <1>2, AppendProperties
  <2>2. \A i \in 1..n : m[i] = l[i] /\ l[i] \in Line
    BY <1>1, <2>1, ElementOfSeq
  <2>3. /\ SubSeq(m, 1, n) \in Seq(Line) /\ SubSeq(l, 1, n) \in Seq(Line)
        /\ Len(SubSeq(m, 1, n)) = n /\ Len(SubSeq(l, 1, n)) = n
        /\ \A i \in 1..n : SubSeq(m, 1, n)[i] = m[i]
        /\ \A i \in 1..n : SubSeq(l, 1, n)[i] = l[i]
    <3>1. \A s : (\A i \in 1..n : s[i] \in Line) =>
            /\ SubSeq(s, 1, n) \in Seq(Line)
            /\ Len(SubSeq(s, 1, n)) = (IF 1 <= n THEN n - 1 + 1 ELSE 0)
            /\ \A i \in 1..(n - 1 + 1) : SubSeq(s, 1, n)[i] = s[1 + i - 1]
      BY SubSeqProperties
    <3>2. /\ (IF 1 <= n THEN n - 1 + 1 ELSE 0) = n /\ n - 1 + 1 = n
          /\ \A i \in 1..n : 1 + i - 1 = i
      OBVIOUS
    <3>3. QED
      BY <2>2, <3>1, <3>2
  <2>4. QED
    BY <1>1, <2>1, <2>2, <2>3, SeqEqual
<1>3. QED
  BY <1>2, LogGrows

\* A turn of a stream completes what it has sent.
LEMMA PollShows ==
  ASSUME TypeOK, OpenHasJob, NEW v \in Viewer, Poll(v),
         NEW j \in Job \ Detached, stream'[v].job = j,
         stream[v].job = j => Shows(v, j)
  PROVE  /\ stream'[v].got = log[j] /\ stream'[v].sentLen = Len(log[j])
         /\ log' = log
<1> DEFINE s == stream[v]
           l == log[j]
<1>1. /\ s \in Stream /\ s.job \in Job /\ l \in Seq(Line) /\ Len(l) \in Nat
  BY LenProperties DEF Poll, TypeOK, OpenHasJob
<1>2. /\ s.job = j /\ log' = log
      /\ stream'[v].got = s.got \o SubSeq(l, s.sentLen + 1, Len(l))
      /\ stream'[v].sentLen = Len(l)
  BY <1>1 DEF Poll, TypeOK, rowVars, Stream
<1>3. s.sentLen \in 0..Len(l) /\ s.got = SubSeq(l, 1, s.sentLen)
  BY <1>1, <1>2 DEF Shows, Stream
<1>4. SubSeq(l, 1, s.sentLen) \o SubSeq(l, s.sentLen + 1, Len(l)) =
        SubSeq(l, 1, Len(l))
  <2> HIDE DEF s, l
  <2>1. /\ 1 \in 1..(Len(l) + 1) /\ s.sentLen \in (1 - 1)..Len(l)
        /\ Len(l) \in s.sentLen..Len(l)
    BY <1>1, <1>3
  <2>2. QED
    BY <1>1, <2>1, ConcatAdjacentSubSeq
<1>5. SubSeq(l, 1, Len(l)) = l
  BY <1>1, SubSeqFull
<1>6. QED
  BY <1>2, <1>3, <1>4, <1>5

\* A stream that is opened has sent nothing; one that is not polled stays
\* where it is, and its log grows at the end.
LEMMA NextStream ==
  TypeOK /\ OpenHasJob /\ LogInv /\ StreamInv /\ [Next]_vars => StreamInv'
<1> SUFFICES ASSUME TypeOK, OpenHasJob, LogInv, StreamInv, [Next]_vars,
                    NEW v \in Viewer, NEW j \in Job \ Detached,
                    stream'[v].job = j
             PROVE  Shows(v, j)'
  BY DEF StreamInv
<1>1. stream[v].job = j => Shows(v, j)
  BY DEF StreamInv
<1>2. CASE /\ stream'[v].job = stream[v].job /\ stream'[v].got = stream[v].got
           /\ stream'[v].sentLen = stream[v].sentLen
  <2>1. stream[v].sentLen \in Nat
    BY DEF TypeOK, Stream
  <2>2. QED
    BY <1>1, <1>2, <2>1, ShowsKept DEF Shows
<1>3. CASE Poll(v)
  <2>1. log[j] \in Seq(Line) /\ Len(log[j]) \in Nat
    BY LenProperties DEF TypeOK
  <2>2. QED
    BY <1>1, <1>3, <2>1, PollShows, SubSeqFull DEF Shows
<1>4. ASSUME NEW i \in Job, OpenStream(v, i) PROVE Shows(v, j)'
  <2>1. stream'[v].sentLen = 0 /\ stream'[v].got = <<>> /\ log' = log
    BY <1>4 DEF OpenStream, TypeOK, rowVars
  <2>2. SubSeq(log[j], 1, 0) = <<>>
    BY SubSeqEmpty
  <2>3. Len(log[j]) \in Nat
    BY LenProperties DEF TypeOK
  <2>4. QED
    BY <2>1, <2>2, <2>3 DEF Shows
<1>5. ASSUME NEW w \in Viewer \ {v}, Poll(w) \/ \E i \in Job : OpenStream(w, i)
      PROVE  stream'[v] = stream[v]
  BY <1>5 DEF Poll, OpenStream, TypeOK
<1>6. CASE Crash
  BY <1>2, <1>6 DEF Crash, TypeOK, Stream
<1>7. ASSUME NEW i \in Job,
             \/ CreateJob(i) \/ RequestCancel(i) \/ Runner(i) \/ Work(i)
             \/ Logger(i)
      PROVE  stream' = stream
  BY <1>7 DEF CreateJob, RequestCancel, Runner, RunJob, MarkRunning,
     MarkRunningRejected, RecordOutcome, OutcomeRejected, FailureRejected,
     Work, EmitLine, ReportProgress, WorkReturns, WorkThrows, Settles, Logger,
     ReadLog, WriteLog, WriteLogRejected
<1>8. UNCHANGED vars => stream' = stream
  BY DEF vars
<1>9. QED
  BY <1>2, <1>3, <1>4, <1>5, <1>6, <1>7, <1>8 DEF Next

\* What a step of the streams sends is the log as it is, and all of it to the
\* viewer of a stream that closes on a terminal state.
LEMMA StreamStep ==
  ASSUME TypeOK, OpenHasJob, LogInv, StreamInv, [Next]_vars,
         stream' # stream,
         NEW v \in Viewer, NEW j \in Job \ Detached, stream'[v].job = j
  PROVE  /\ stream'[v].got = SubSeq(log[j], 1, stream'[v].sentLen)
         /\ StreamCloses(v) => stream'[v].got = log[j]
<1>1. log' = log
  <2>1. ASSUME NEW i \in Job,
               \/ CreateJob(i) \/ RequestCancel(i) \/ Runner(i) \/ Work(i)
               \/ Logger(i)
        PROVE  stream' = stream
    BY <2>1 DEF CreateJob, RequestCancel, Runner, RunJob, MarkRunning,
       MarkRunningRejected, RecordOutcome, OutcomeRejected, FailureRejected,
       Work, EmitLine, ReportProgress, WorkReturns, WorkThrows, Settles,
       Logger, ReadLog, WriteLog, WriteLogRejected
  <2>2. ASSUME NEW w \in Viewer, Poll(w) \/ \E i \in Job : OpenStream(w, i)
        PROVE  log' = log
    BY <2>2 DEF Poll, OpenStream, rowVars
  <2>3. Crash \/ UNCHANGED vars => log' = log
    BY DEF Crash, vars, rowVars
  <2>4. QED
    BY <2>1, <2>2, <2>3 DEF Next
<1>2. Shows(v, j)'
  BY NextStream DEF StreamInv
<1>3. ASSUME StreamCloses(v) PROVE Poll(v)
  <2>1. ASSUME NEW w \in Viewer \ {v},
               Poll(w) \/ \E i \in Job : OpenStream(w, i)
        PROVE  FALSE
    BY <1>3, <2>1 DEF Poll, OpenStream, TypeOK, StreamCloses
  <2>2. ASSUME NEW i \in Job, OpenStream(v, i) PROVE FALSE
    BY <1>3, <2>2 DEF OpenStream, TypeOK, StreamCloses
  <2>3. ASSUME Crash PROVE FALSE
    BY <1>3, <2>3, JobAssumption DEF Crash, StreamCloses, TypeOK
  <2>4. ASSUME NEW i \in Job,
               \/ CreateJob(i) \/ RequestCancel(i) \/ Runner(i) \/ Work(i)
               \/ Logger(i)
        PROVE  FALSE
    BY <2>4 DEF CreateJob, RequestCancel, Runner, RunJob, MarkRunning,
       MarkRunningRejected, RecordOutcome, OutcomeRejected, FailureRejected,
       Work, EmitLine, ReportProgress, WorkReturns, WorkThrows, Settles,
       Logger, ReadLog, WriteLog, WriteLogRejected
  <2>5. ~UNCHANGED vars
    BY DEF vars
  <2>6. QED
    BY <2>1, <2>2, <2>3, <2>4, <2>5 DEF Next
<1>4. ASSUME StreamCloses(v) PROVE stream'[v].got = log[j]
  BY <1>3, <1>4, PollShows DEF StreamInv
<1>5. QED
  BY <1>1, <1>2, <1>4 DEF Shows

\* A stream never skips or repeats a line of a job that awaits its lines, and
\* has sent them all when it closes on a terminal state.
THEOREM StreamsShowLogs == Spec => StreamShowsLog
<1>1. Init => StreamInv
  <2> SUFFICES ASSUME Init, NEW v \in Viewer, NEW j \in Job
               PROVE  Shows(v, j)
    BY DEF StreamInv
  <2>1. stream[v].sentLen = 0 /\ stream[v].got = <<>> /\ log[j] = <<>>
    BY DEF Init
  <2>2. QED
    BY <2>1, SubSeqEmpty, EmptySeq DEF Shows
<1>2. TypeOK /\ OpenHasJob /\ LogInv /\ StreamInv /\ [Next]_vars =>
        [\A v \in Viewer : \A j \in Job \ Detached :
           stream'[v].job = j =>
             /\ stream'[v].got = SubSeq(log[j], 1, stream'[v].sentLen)
             /\ (StreamCloses(v) /\ state[j] \in Terminal) =>
                   stream'[v].got = log[j]]_stream
  BY StreamStep
<1>3. Spec => [](TypeOK /\ OpenHasJob /\ IInv /\ LogInv)
  BY InitTypes, NextTypes, InitLog, NextLog, InitIInv, NextIInv, PTL DEF Spec
<1>4. QED
  BY <1>1, <1>2, <1>3, NextStream, PTL DEF Spec, StreamShowsLog
=============================================================================
