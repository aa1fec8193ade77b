---------------------- MODULE ContainerMigration_proofs ----------------------
(***************************************************************************)
(* What a migration promises, for any number of plans, volumes and         *)
(* requests, with failing copies, rejected writes and deaths of the        *)
(* process.                                                                *)
(***************************************************************************)
EXTENDS ContainerMigration, TLAPS

\* The steps of a request that is under way.
Proceeds(c) ==
  \/ Verdict(c) \/ MarkInProgress(c) \/ Unsupported(c) \/ StopSource(c)
  \/ Role(c) \/ CopyVolume(c) \/ CopyFails(c) \/ Complete(c)
  \/ RestartSource(c) \/ ReviveSource(c) \/ DropVolume(c) \/ RolledBack(c)
  \/ Committed(c) \/ Rejected(c)

Begins(c) ==
  Preflight(c) \/ RunMigration(c) \/ RollbackMigration(c) \/ CommitMigration(c)

LEMMA NextCases ==
  ASSUME [Next]_vars
  PROVE  \/ \E c \in Call : Begins(c) \/ Proceeds(c)
         \/ Write
         \/ Crash
         \/ UNCHANGED vars
  BY DEF Next, Running, RollingBack, Begins, Proceeds

LEMMA InitType == Init => TypeOK
<1> SUFFICES ASSUME Init PROVE TypeOK
  OBVIOUS
<1>1. MaxWrites \in Nat /\ MaxCrashes \in Nat
  BY MigrationAssumption
<1>2. 0 \in 0..MaxWrites /\ 0 \in 0..MaxCrashes
  BY <1>1
<1>3. copy \in [Plan -> [Volume -> 0..MaxWrites \cup {Absent, Partial}]]
  BY DEF Init
<1>4. QED
  BY <1>2, <1>3 DEF Init, TypeOK, Status

LEMMA NextType == TypeOK /\ [Next]_vars => TypeOK'
<1> SUFFICES ASSUME TypeOK, [Next]_vars PROVE TypeOK'
  OBVIOUS
<1> USE MigrationAssumption
    DEF TypeOK, Status, Active, Ended, Goes, SetStatus, rowVars, dockerVars,
        swallowed
<1>1. ASSUME NEW c \in Call, Begins(c) PROVE TypeOK'
  <2>1. CASE Preflight(c) \/ RunMigration(c)
    BY <2>1 DEF Preflight, RunMigration, Arrives
  <2>2. CASE RollbackMigration(c)
    BY <2>2 DEF RollbackMigration, Arrives
  <2>3. CASE CommitMigration(c)
    BY <2>3 DEF CommitMigration, Arrives
  <2>4. QED
    BY <1>1, <2>1, <2>2, <2>3 DEF Begins
<1>2. ASSUME NEW c \in Call, Proceeds(c) PROVE TypeOK'
  <2>1. CASE Verdict(c) \/ MarkInProgress(c) \/ Unsupported(c)
    BY <2>1 DEF Verdict, MarkInProgress, Unsupported
  <2>2. CASE StopSource(c) \/ Role(c)
    BY <2>2 DEF StopSource, Role
  <2>3. CASE RestartSource(c) \/ ReviveSource(c)
    BY <2>3 DEF RestartSource, ReviveSource
  <2>4. CASE CopyVolume(c)
    <3>1. PICK v \in todo[c] : /\ pc' = [pc EXCEPT ![c] = "copy"]
                               /\ copy' = [copy EXCEPT
                                             ![PlanOf[c]][v] = written]
                               /\ kept' = [kept EXCEPT
                                             ![PlanOf[c]] = @ \ {v}]
                               /\ todo' = [todo EXCEPT ![c] = @ \ {v}]
                               /\ UNCHANGED <<rowVars, running, written,
                                              crashes, unstopped, unstarted>>
      BY <2>4 DEF CopyVolume
    <3>2. QED
      BY <3>1
  <2>5. CASE CopyFails(c)
    <3>1. PICK v \in todo[c] : /\ pc' = [pc EXCEPT ![c] = "failed"]
                               /\ copy' = [copy EXCEPT
                                             ![PlanOf[c]][v] = Partial]
                               /\ todo' = [todo EXCEPT ![c] = {}]
                               /\ UNCHANGED <<rowVars, running, written,
                                              crashes, swallowed>>
      BY <2>5 DEF CopyFails
    <3>2. QED
      BY <3>1
  <2>6. CASE DropVolume(c)
    <3>1. PICK v \in todo[c] : /\ pc' = [pc EXCEPT ![c] = "drop"]
                               /\ \/ copy' = [copy EXCEPT
                                                ![PlanOf[c]][v] = Absent]
                                  \/ copy' = copy
                               /\ \/ kept' = [kept EXCEPT
                                                ![PlanOf[c]] = @ \ {v}]
                                  \/ kept' = [kept EXCEPT
                                                ![PlanOf[c]] = @ \cup {v}]
                               /\ todo' = [todo EXCEPT ![c] = @ \ {v}]
                               /\ UNCHANGED <<rowVars, running, written,
                                              crashes, unstopped, unstarted>>
      BY <2>6 DEF DropVolume
    <3>2. v \in Volume /\ PlanOf[c] \in Plan
      OBVIOUS
    <3>3. copy' \in [Plan -> [Volume -> 0..MaxWrites \cup {Absent, Partial}]]
      <4> DEFINE Content == 0..MaxWrites \cup {Absent, Partial}
      <4>1. copy \in [Plan -> [Volume -> Content]] /\ Absent \in Content
        OBVIOUS
      <4> HIDE DEF Content
      <4>2. copy' \in [Plan -> [Volume -> Content]]
        BY ONLY <3>1, <3>2, <4>1
      <4>3. QED
        BY <4>2 DEF Content
    <3>4. kept' \in [Plan -> SUBSET Volume]
      <4>1. kept \in [Plan -> SUBSET Volume]
        OBVIOUS
      <4>2. QED
        BY ONLY <3>1, <3>2, <4>1
    <3>5. QED
      BY <3>1, <3>3, <3>4
  <2>7. CASE Complete(c)
    BY <2>7 DEF Complete
  <2>8. CASE RolledBack(c) \/ Committed(c)
    BY <2>8 DEF RolledBack, Committed
  <2>9. CASE Rejected(c)
    BY <2>9 DEF Rejected
  <2>10. QED
    BY <1>2, <2>1, <2>2, <2>3, <2>4, <2>5, <2>6, <2>7, <2>8, <2>9 DEF Proceeds
<1>3. CASE Write
  BY <1>3 DEF Write
<1>4. CASE Crash
  BY <1>4 DEF Crash
<1>5. CASE UNCHANGED vars
  BY <1>5 DEF vars
<1>6. QED
  BY <1>1, <1>2, <1>3, <1>4, <1>5, NextCases

\* Every variable keeps its type.
THEOREM TypeCorrect == Spec => []TypeOK
  BY InitType, NextType, PTL DEF Spec

\* Who proceeds was under way, and moves nobody else.
LEMMA ProceedsMoves ==
  ASSUME TypeOK, NEW c \in Call, Proceeds(c)
  PROVE  /\ pc[c] \in Active
         /\ \A d \in Call : d # c => pc'[d] = pc[d] /\ todo'[d] = todo[d]
<1> USE DEF TypeOK, Active, Goes, rowVars, dockerVars
<1>1. CASE Verdict(c) \/ MarkInProgress(c) \/ Unsupported(c)
  BY <1>1 DEF Verdict, MarkInProgress, Unsupported
<1>2. CASE StopSource(c) \/ Role(c) \/ RestartSource(c) \/ ReviveSource(c)
  BY <1>2 DEF StopSource, Role, RestartSource, ReviveSource
<1>3. CASE CopyVolume(c) \/ CopyFails(c) \/ DropVolume(c)
  BY <1>3 DEF CopyVolume, CopyFails, DropVolume
<1>4. CASE Complete(c) \/ RolledBack(c) \/ Committed(c) \/ Rejected(c)
  BY <1>4 DEF Complete, RolledBack, Committed, Rejected
<1>5. QED
  BY <1>1, <1>2, <1>3, <1>4 DEF Proceeds

\* Who begins was idle, and so was everybody else if they take turns.
LEMMA BeginsMoves ==
  ASSUME TypeOK, NEW c \in Call, Begins(c)
  PROVE  /\ OneAtATime => \A d \in Call : pc[d] \notin Active
         /\ pc[c] = "idle"
         /\ pc'[c] \in {"verdict", "mark", "revive", "ack", "refused"}
         /\ \A d \in Call : d # c => pc'[d] = pc[d] /\ todo'[d] = todo[d]
         /\ UNCHANGED <<status, restore, running, written, copy, swallowed>>
<1> USE DEF TypeOK, Arrives, Goes, rowVars, dockerVars
<1>1. CASE Preflight(c) \/ RunMigration(c) \/ CommitMigration(c)
  BY <1>1 DEF Preflight, RunMigration, CommitMigration
<1>2. CASE RollbackMigration(c)
  BY <1>2 DEF RollbackMigration
<1>3. QED
  BY <1>1, <1>2 DEF Begins

-----------------------------------------------------------------------------
(* Operators take turns                                                    *)

Turns == \A c, d \in Call : pc[c] \in Active /\ pc[d] \in Active => c = d

LEMMA TurnsStep ==
  ASSUME OneAtATime, TypeOK, Turns, [Next]_vars
  PROVE  Turns'
<1> USE DEF Turns
<1>1. ASSUME NEW c \in Call, Begins(c) PROVE Turns'
  BY <1>1, BeginsMoves
<1>2. ASSUME NEW c \in Call, Proceeds(c) PROVE Turns'
  BY <1>2, ProceedsMoves
<1>3. CASE Write
  BY <1>3 DEF Write
<1>4. CASE Crash
  BY <1>4 DEF Crash, Active
<1>5. CASE UNCHANGED vars
  BY <1>5 DEF vars
<1>6. QED
  BY <1>1, <1>2, <1>3, <1>4, <1>5, NextCases

-----------------------------------------------------------------------------
(* The snapshot is cold                                                    *)

\* The source of the plan was down while it was copied.
Cold(p) == ~RoleWorks /\ p \notin unstopped

Agree(p) ==
  \A v, w \in Volume :
    /\ copy[p][v] # Partial
    /\ Cold(p) /\ copy[p][v] # Absent /\ copy[p][w] # Absent
         => copy[p][v] = copy[p][w]

\* A run past the stop has a row that says so and, unless the stop failed, a
\* source that is down; what it has copied is whole, and what the source holds.
ColdInv ==
  /\ \A c \in Call : pc[c] \in {"stop", "role", "copy"} =>
       status[PlanOf[c]] = "in_progress"
  /\ \A c \in Call : pc[c] \in {"role", "copy"} /\ Cold(PlanOf[c]) => ~running
  /\ \A c \in Call : pc[c] = "copy" =>
       \A v \in Volume \ todo[c] :
         /\ copy[PlanOf[c]][v] \in Nat
         /\ Cold(PlanOf[c]) => copy[PlanOf[c]][v] = written
  /\ \A c \in Call : pc[c] = "ack" => status[PlanOf[c]] = "completed"
  /\ \A p \in Plan : status[p] \in {"completed", "committed"} => Agree(p)

\* It stays so when the one request that is under way is done with its step.
LEMMA ColdStep ==
  ASSUME OneAtATime, TypeOK, Turns, ColdInv, [Next]_vars
  PROVE  ColdInv'
<1> USE MigrationAssumption DEF TypeOK, ColdInv
<1>1. ASSUME NEW c \in Call, Begins(c) PROVE ColdInv'
  <2>1. pc'[c] = "ack" => status[PlanOf[c]] = "completed"
    BY <1>1 DEF Begins, Preflight, RunMigration, RollbackMigration,
                CommitMigration, Arrives, Goes
  <2>2. \A p \in Plan : Agree(p)' <=> Agree(p)
    BY <1>1, BeginsMoves DEF Agree, Cold, swallowed
  <2>3. /\ \A d \in Call : pc'[d] \in {"stop", "role", "copy"} =>
             pc[d] = pc'[d] /\ todo'[d] = todo[d]
        /\ \A d \in Call : pc'[d] = "ack" => d = c \/ pc[d] = "ack"
    BY <1>1, BeginsMoves
  <2>4. /\ UNCHANGED <<status, running, written, copy>>
        /\ \A p \in Plan : Cold(p)' <=> Cold(p)
    BY <1>1, BeginsMoves DEF Cold, swallowed
  <2>5. QED
    BY <2>1, <2>2, <2>3, <2>4
<1>2. ASSUME NEW c \in Call, Proceeds(c) PROVE ColdInv'
  <2> DEFINE p == PlanOf[c]
  <2>0. /\ p \in Plan
        /\ \A d \in Call : d # c => pc[d] \notin Active /\ pc'[d] = pc[d]
    BY <1>2, ProceedsMoves DEF Turns
  <2>1. \A d \in Call : d # c => pc'[d] \notin {"stop", "role", "copy", "ack"}
    BY <2>0 DEF Active
  <2> HIDE DEF p
  <2>2. SUFFICES
          /\ pc'[c] \in {"stop", "role", "copy"} => status'[p] = "in_progress"
          /\ pc'[c] \in {"role", "copy"} /\ Cold(p)' => ~running'
          /\ pc'[c] = "copy" => \A v \in Volume \ todo'[c] :
                                  /\ copy'[p][v] \in Nat
                                  /\ Cold(p)' => copy'[p][v] = written'
          /\ pc'[c] = "ack" => status'[p] = "completed"
          /\ \A q \in Plan :
               status'[q] \in {"completed", "committed"} => Agree(q)'
    BY <2>1 DEF p
  <2>3. CASE Verdict(c) \/ MarkInProgress(c) \/ Unsupported(c)
    <3>1. /\ pc'[c] \in {"done", "failed", "stop", "unsupported", "refused"}
          /\ pc'[c] = "stop" => status'[p] = "in_progress"
          /\ status'[p] \notin {"completed", "committed"}
          /\ \A q \in Plan : q # p => status'[q] = status[q]
          /\ UNCHANGED <<copy, unstopped>>
      BY <2>0, <2>3 DEF Verdict, MarkInProgress, Unsupported, Goes, SetStatus,
                        dockerVars, swallowed, p
    <3>2. \A q \in Plan : Agree(q)' <=> Agree(q)
      BY <3>1 DEF Agree, Cold
    <3>3. QED
      BY <3>1, <3>2
  <2>4. CASE StopSource(c) \/ Role(c) \/ RestartSource(c) \/ ReviveSource(c)
    <3>1. /\ UNCHANGED <<status, copy, written>>
          /\ \A q \in Plan : q # p => (q \in unstopped' <=> q \in unstopped)
      BY <2>0, <2>4 DEF StopSource, Role, RestartSource, ReviveSource, rowVars,
                        swallowed, p
    <3>2. \/ /\ pc[c] = "stop" /\ pc'[c] = "role"
             /\ Cold(p)' => ~running'
          \/ /\ pc[c] = "role" /\ pc'[c] = "copy" /\ todo'[c] = Volume
             /\ Cold(p)' => Cold(p) /\ running' = running
             /\ unstopped' = unstopped
          \/ pc'[c] \in {"done", "drop"} /\ unstopped' = unstopped
      BY <2>0, <2>4 DEF StopSource, Role, RestartSource, ReviveSource, Goes,
                        swallowed, Cold, p
    <3>3. \A q \in Plan :
            status[q] \in {"completed", "committed"} => Agree(q)'
      <4>1. status[p] \in {"completed", "committed"} => unstopped' = unstopped
        BY <3>2 DEF p
      <4>2. \A q \in Plan : /\ status[q] \in {"completed", "committed"}
                            /\ Cold(q)'
                            => Cold(q)
        BY <3>1, <4>1 DEF Cold
      <4>3. QED
        BY <3>1, <4>2 DEF Agree
    <3>4. QED
      BY <3>1, <3>2, <3>3 DEF p
  <2>5. CASE CopyVolume(c)
    <3>1. PICK v \in todo[c] :
            /\ pc[c] = "copy" /\ pc' = [pc EXCEPT ![c] = "copy"]
            /\ copy' = [copy EXCEPT ![p][v] = written]
            /\ todo' = [todo EXCEPT ![c] = @ \ {v}]
            /\ UNCHANGED <<status, running, written, unstopped>>
      BY <2>5 DEF CopyVolume, Goes, rowVars, p
    <3>2. v \in Volume /\ status[p] = "in_progress" /\ (Cold(p) => ~running)
      BY <3>1 DEF p
    <3>3. \A w \in Volume \ todo'[c] :
            copy'[p][w] \in Nat /\ (Cold(p) => copy'[p][w] = written)
      <4>1. written \in Nat
        BY 0..MaxWrites \subseteq Nat
      <4>2. QED
        BY <2>0, <3>1, <3>2, <4>1 DEF p
    <3>4. \A q \in Plan : q # p => (Agree(q)' <=> Agree(q))
      BY <2>0, <3>1 DEF Agree, Cold
    <3>5. Cold(p)' <=> Cold(p)
      BY <3>1 DEF Cold
    <3>6. QED
      BY <2>0, <3>1, <3>2, <3>3, <3>4, <3>5
  <2>6. CASE CopyFails(c)
    <3>1. PICK v \in todo[c] :
            /\ pc[c] = "copy" /\ pc'[c] = "failed"
            /\ copy' = [copy EXCEPT ![p][v] = Partial]
            /\ UNCHANGED <<status, unstopped>>
      BY <2>6 DEF CopyFails, Goes, rowVars, swallowed, p
    <3>2. status[p] = "in_progress"
      BY <3>1 DEF p
    <3>3. \A q \in Plan : q # p => (Agree(q)' <=> Agree(q))
      BY <2>0, <3>1 DEF Agree, Cold
    <3>4. QED
      BY <3>1, <3>2, <3>3
  <2>7. CASE DropVolume(c)
    <3>1. PICK v \in todo[c] :
            /\ pc'[c] = "drop"
            /\ copy' = [copy EXCEPT ![p][v] = Absent] \/ copy' = copy
            /\ UNCHANGED <<status, unstopped>>
      BY <2>7 DEF DropVolume, Goes, rowVars, p
    <3>2. v \in Volume
      BY <3>1
    <3>3. \A q \in Plan, w \in Volume : copy'[q][w] \in {copy[q][w], Absent}
      BY <2>0, <3>1, <3>2
    <3>4. \A q \in Plan : Agree(q) => Agree(q)'
      BY <3>1, <3>3 DEF Agree, Cold
    <3>5. QED
      BY <3>1, <3>4
  <2>8. CASE Complete(c)
    <3>1. /\ todo[c] = {} /\ pc[c] = "copy" /\ pc'[c] = "restart"
          /\ \A q \in Plan : q # p => status'[q] = status[q]
          /\ UNCHANGED <<copy, written, running, unstopped>>
      BY <2>0, <2>8 DEF Complete, Goes, SetStatus, dockerVars, swallowed, p
    <3>2. \A v \in Volume : /\ copy[p][v] \in Nat
                            /\ Cold(p) => copy[p][v] = written
      BY <3>1 DEF p
    <3>3. Agree(p)'
      BY <3>1, <3>2 DEF Agree, Cold
    <3>4. \A q \in Plan : Agree(q)' <=> Agree(q)
      BY <3>1 DEF Agree, Cold
    <3>5. QED
      BY <3>1, <3>3, <3>4
  <2>9. CASE RolledBack(c) \/ Committed(c)
    <3>1. /\ pc'[c] = "done"
          /\ \A q \in Plan : q # p => status'[q] = status[q]
          /\ status'[p] = "rolled_back" \/ status[p] = "completed"
          /\ UNCHANGED <<copy, unstopped>>
      <4>1. CASE RolledBack(c)
        BY <2>0, <4>1 DEF RolledBack, Goes, SetStatus, dockerVars, swallowed, p
      <4>2. CASE Committed(c)
        BY <2>0, <4>2 DEF Committed, Goes, SetStatus, dockerVars, swallowed, p
      <4>3. QED
        BY <2>9, <4>1, <4>2
    <3>2. \A q \in Plan : Agree(q)' <=> Agree(q)
      BY <3>1 DEF Agree, Cold
    <3>3. \A q \in Plan : status'[q] \in {"completed", "committed"} => Agree(q)
      BY <2>0, <3>1
    <3>4. QED
      BY <3>1, <3>2, <3>3
  <2>10. CASE Rejected(c)
    BY <2>0, <2>10 DEF Rejected, rowVars, dockerVars, swallowed, Agree, Cold
  <2>11. QED
    BY <1>2, <2>3, <2>4, <2>5, <2>6, <2>7, <2>8, <2>9, <2>10 DEF Proceeds
<1>3. CASE Write
  <2>1. \A p \in Plan : Agree(p)' <=> Agree(p)
    BY <1>3 DEF Write, Agree, Cold, swallowed
  <2>2. QED
    BY <1>3, <2>1 DEF Write, rowVars, Cold, swallowed
<1>4. CASE Crash
  <2>1. /\ UNCHANGED <<status, copy, unstopped>>
        /\ \A c \in Call : pc'[c] \notin {"stop", "role", "copy", "ack"}
    BY <1>4 DEF Crash, rowVars, dockerVars, swallowed, Active, Ended
  <2>2. \A p \in Plan : Agree(p)' <=> Agree(p)
    BY <2>1 DEF Agree, Cold
  <2>3. QED
    BY <2>1, <2>2
<1>5. CASE UNCHANGED vars
  BY <1>5 DEF vars, rowVars, dockerVars, swallowed, Agree, Cold
<1>6. QED
  BY <1>1, <1>2, <1>3, <1>4, <1>5, NextCases

LEMMA ColdHolds ==
  ASSUME OneAtATime
  PROVE  Spec => [](Turns /\ ColdInv)
<1>1. Init => Turns /\ ColdInv
  BY DEF Init, Turns, ColdInv, Active
<1>2. QED
  BY <1>1, TurnsStep, ColdStep, TypeCorrect, PTL DEF Spec

\* The target volumes of a completed migration are as the source was at one
\* moment, if one request at a time works on the service, the role cannot start
\* the source in between, and the latest docker stop of the plan did not fail.
THEOREM SnapshotIsCold ==
  ASSUME OneAtATime, ~RoleWorks
  PROVE  Spec => []ColdSnapshot
<1>1. ColdInv => ColdSnapshot
  BY DEF ColdInv, Agree, Cold, ColdSnapshot
<1>2. QED
  BY <1>1, ColdHolds, PTL

-----------------------------------------------------------------------------
(* The source serves                                                       *)

\* A request that was cut short stays so.
LEMMA SmoothBefore ==
  ASSUME TypeOK, [Next]_vars, NEW p \in Plan, Smooth(p)'
  PROVE  Smooth(p)
<1>1. ASSUME NEW c \in Call, Begins(c) PROVE Smooth(p)
  BY <1>1, BeginsMoves DEF Smooth
<1>2. ASSUME NEW c \in Call, Proceeds(c) PROVE Smooth(p)
  BY <1>2, ProceedsMoves DEF Smooth, Active
<1>3. CASE Crash
  BY <1>3 DEF Smooth, Crash, Active
<1>4. CASE Write \/ UNCHANGED vars
  BY <1>4 DEF Smooth, Write, vars
<1>5. QED
  BY <1>1, <1>2, <1>3, <1>4, NextCases

\* Whoever took the source down is on his way to start it, or tried to.
SourceInv ==
  (\A p \in Plan : Smooth(p)) =>
    \/ running \/ unstarted
    \/ \E c \in Call : pc[c] \in {"role", "copy", "restart"}

LEMMA SourceStep ==
  ASSUME TypeOK, SourceInv, [Next]_vars
  PROVE  SourceInv'
<1> SUFFICES ASSUME \A p \in Plan : Smooth(p)'
             PROVE  \/ running' \/ unstarted'
                    \/ \E c \in Call :
                         pc'[c] \in {"role", "copy", "restart"}
  BY DEF SourceInv
<1>0. \/ running \/ unstarted
      \/ \E c \in Call : pc[c] \in {"role", "copy", "restart"}
  BY SmoothBefore DEF SourceInv
<1>1. ASSUME NEW c \in Call, Begins(c)
      PROVE  \/ running' \/ unstarted'
             \/ \E d \in Call : pc'[d] \in {"role", "copy", "restart"}
  BY <1>0, <1>1, BeginsMoves DEF swallowed
<1>2. ASSUME NEW c \in Call, Proceeds(c)
      PROVE  \/ running' \/ unstarted'
             \/ \E d \in Call : pc'[d] \in {"role", "copy", "restart"}
  <2>1. pc'[c] \notin {"failed", "lost"}
    BY MigrationAssumption DEF Smooth
  <2>2. \/ running' \/ unstarted' \/ pc'[c] \in {"role", "copy", "restart"}
        \/ /\ UNCHANGED <<running, unstarted>>
           /\ pc[c] \notin {"role", "copy", "restart"}
    <3> USE DEF TypeOK, Goes, dockerVars, rowVars, swallowed
    <3>1. CASE Verdict(c) \/ MarkInProgress(c) \/ Unsupported(c)
      BY <3>1 DEF Verdict, MarkInProgress, Unsupported
    <3>2. CASE StopSource(c) \/ Role(c) \/ RestartSource(c) \/ ReviveSource(c)
      BY <3>2 DEF StopSource, Role, RestartSource, ReviveSource
    <3>3. CASE CopyVolume(c) \/ CopyFails(c) \/ DropVolume(c)
      BY <2>1, <3>3 DEF CopyVolume, CopyFails, DropVolume
    <3>4. CASE Complete(c) \/ RolledBack(c) \/ Committed(c) \/ Rejected(c)
      BY <2>1, <3>4 DEF Complete, RolledBack, Committed, Rejected
    <3>5. QED
      BY <1>2, <3>1, <3>2, <3>3, <3>4 DEF Proceeds
  <2>3. QED
    BY <1>0, <1>2, <2>2, ProceedsMoves
<1>3. CASE Write
  BY <1>3 DEF Write
<1>4. CASE Crash
  <2>1. \A c \in Call : pc[c] \notin Active
    BY <1>4, MigrationAssumption DEF Crash, TypeOK, Smooth
  <2>2. QED
    BY <1>0, <1>4, <2>1 DEF Crash, dockerVars, swallowed, Active
<1>5. CASE UNCHANGED vars
  BY <1>0, <1>5 DEF vars, dockerVars, swallowed
<1>6. QED
  BY <1>1, <1>2, <1>3, <1>4, <1>5, NextCases

\* Between two requests the source serves, if none was cut short and the latest
\* docker start did not fail, even if operators do not take turns.
THEOREM SourceIsUp == Spec => []SourceServes
<1>1. Init => SourceInv
  BY DEF Init, SourceInv
<1>2. SourceInv => SourceServes
  BY DEF SourceInv, SourceServes, Active
<1>3. QED
  BY <1>1, <1>2, SourceStep, TypeCorrect, PTL DEF Spec

-----------------------------------------------------------------------------
(* The row tells which target volumes there are                            *)

Present(p) == {v \in Volume : copy[p][v] # Absent}

Whole(p) == \A v \in Volume : copy[p][v] \in Nat

\* Where target volumes may be: in the restore point of the plan, or copied by
\* the run that is under way, or left by a removal that failed; a completed
\* migration has them all, until its rollback drops them.
RowInv ==
  /\ \A p \in Plan : restore[p] \in {{}, Volume}
  /\ \A c \in Call : pc[c] \in {"revive", "drop"} =>
       status[PlanOf[c]] # "committed"
  /\ \A p \in Plan : Smooth(p) =>
       /\ restore[p] = {} => \A v \in Present(p) : \E c \in Call :
            PlanOf[c] = p /\ pc[c] = "copy" /\ v \notin todo[c]
       /\ status[p] \in {"completed", "committed"} =>
            Whole(p) \/ \E c \in Call : PlanOf[c] = p /\ pc[c] = "drop"
       /\ status[p] = "rolled_back" => Present(p) \subseteq kept[p]
  /\ \A c \in Call : pc[c] = "revive" => todo[c] = restore[PlanOf[c]]
  /\ \A c \in Call : pc[c] = "drop" /\ Smooth(PlanOf[c]) =>
       Present(PlanOf[c]) \subseteq todo[c] \cup kept[PlanOf[c]]

LEMMA RowStep ==
  ASSUME OneAtATime, TypeOK, Turns, ColdInv, RowInv, [Next]_vars
  PROVE  RowInv'
<1> USE MigrationAssumption DEF TypeOK
<1>0. \A p \in Plan : Smooth(p)' => Smooth(p)
  BY SmoothBefore
<1>1. ASSUME NEW c \in Call, Begins(c) PROVE RowInv'
  <2>1. \A d \in Call : pc[d] \notin Active
    BY <1>1, BeginsMoves
  <2>2. UNCHANGED <<status, restore, copy, kept>>
    BY <1>1, BeginsMoves DEF swallowed
  <2>3. \A p \in Plan : (Whole(p)' <=> Whole(p)) /\ Present(p)' = Present(p)
    BY <2>2 DEF Whole, Present
  <2>4. /\ \A d \in Call : pc'[d] \notin {"copy", "drop"}
        /\ \A d \in Call : pc'[d] = "revive" => d = c
    BY <1>1, <2>1, BeginsMoves DEF Active
  <2>5. pc'[c] = "revive" => /\ todo'[c] = restore[PlanOf[c]]
                            /\ status[PlanOf[c]] # "committed"
    BY <1>1 DEF Begins, Preflight, RunMigration, RollbackMigration,
                CommitMigration, Arrives, Goes
  <2>6. /\ \A p \in Plan : restore[p] \in {{}, Volume}
        /\ \A p \in Plan : Smooth(p)' =>
             /\ restore[p] = {} => Present(p) = {}
             /\ status[p] \in {"completed", "committed"} => Whole(p)
             /\ status[p] = "rolled_back" => Present(p) \subseteq kept[p]
    <3>1. \A d \in Call : pc[d] \notin {"copy", "drop"}
      BY <2>1 DEF Active
    <3>2. ASSUME NEW p \in Plan, Smooth(p)'
          PROVE  /\ restore[p] = {} => Present(p) = {}
                 /\ status[p] \in {"completed", "committed"} => Whole(p)
                 /\ status[p] = "rolled_back" => Present(p) \subseteq kept[p]
      <4>1. Smooth(p)
        BY <1>0, <3>2
      <4>2. QED
        BY <3>1, <4>1 DEF RowInv
    <3>3. QED
      BY <3>2 DEF RowInv
  <2>7. /\ \A d \in Call : pc'[d] \in {"revive", "drop"} =>
             /\ status'[PlanOf[d]] # "committed"
             /\ todo'[d] = restore'[PlanOf[d]]
        /\ \A d \in Call : pc'[d] # "drop"
    BY <2>2, <2>4, <2>5
  <2>8. QED
    BY <2>2, <2>3, <2>6, <2>7 DEF RowInv
<1>2. ASSUME NEW c \in Call, Proceeds(c) PROVE RowInv'
  <2> DEFINE p == PlanOf[c]
  <2>0. /\ p \in Plan /\ pc[c] \in Active
        /\ \A d \in Call : d # c => pc[d] \notin Active /\ pc'[d] = pc[d]
    BY <1>2, ProceedsMoves DEF Turns
  <2>1. \A d \in Call : d # c => pc'[d] \notin {"copy", "revive", "drop"}
    BY <2>0 DEF Active
  <2>2. \A d \in Call : pc[d] \in {"copy", "revive", "drop"} => d = c
    BY <2>0 DEF Active
  <2> HIDE DEF p
  <2> DEFINE Good(q) ==
         /\ restore[q] = {} => \A v \in Present(q) :
              q = p /\ pc[c] = "copy" /\ v \notin todo[c]
         /\ status[q] \in {"completed", "committed"} =>
              Whole(q) \/ (q = p /\ pc[c] = "drop")
         /\ status[q] = "rolled_back" => Present(q) \subseteq kept[q]
      Mine == /\ restore[p] \in {{}, Volume}
              /\ pc[c] \in {"revive", "drop"} => status[p] # "committed"
              /\ pc[c] = "revive" => todo[c] = restore[p]
              /\ pc[c] = "drop" /\ Smooth(p)' =>
                   Present(p) \subseteq todo[c] \cup kept[p]
              /\ Smooth(p)' => Good(p)
      Same(q) == /\ restore'[q] = restore[q] /\ status'[q] = status[q]
                 /\ copy'[q] = copy[q] /\ kept'[q] = kept[q]
  <2>3. Mine
    <3>1. /\ restore[p] \in {{}, Volume}
          /\ pc[c] \in {"revive", "drop"} => status[p] # "committed"
          /\ pc[c] = "revive" => todo[c] = restore[p]
      BY <2>0 DEF RowInv, p
    <3>2. ASSUME Smooth(p)' PROVE Smooth(p)
      BY <1>0, <2>0, <3>2
    <3>3. ASSUME Smooth(p), pc[c] = "drop"
          PROVE  Present(p) \subseteq todo[c] \cup kept[p]
      BY <3>3 DEF RowInv, p
    <3>4. ASSUME Smooth(p) PROVE Good(p)
      <4>1. ASSUME restore[p] = {}, NEW v \in Present(p)
            PROVE  pc[c] = "copy" /\ v \notin todo[c]
        <5>1. PICK d \in Call : pc[d] = "copy" /\ v \notin todo[d]
          BY <2>0, <3>4, <4>1 DEF RowInv
        <5>2. d = c
          BY <2>2, <5>1
        <5>3. QED
          BY <5>1, <5>2
      <4>2. ASSUME status[p] \in {"completed", "committed"}, ~Whole(p)
            PROVE  pc[c] = "drop"
        <5>1. PICK d \in Call : pc[d] = "drop"
          BY <2>0, <3>4, <4>2 DEF RowInv
        <5>2. QED
          BY <2>2, <5>1
      <4>3. status[p] = "rolled_back" => Present(p) \subseteq kept[p]
        BY <2>0, <3>4 DEF RowInv
      <4>4. QED
        BY <4>1, <4>2, <4>3
    <3>5. QED
      BY <3>1, <3>2, <3>3, <3>4
  <2>4. SUFFICES /\ \A q \in Plan : q # p => Same(q)
                 /\ restore'[p] \in {{}, Volume}
                 /\ pc'[c] \in {"revive", "drop"} => status'[p] # "committed"
                 /\ pc'[c] = "revive" => todo'[c] = restore'[p]
                 /\ pc'[c] = "drop" /\ Smooth(p)' =>
                      Present(p)' \subseteq todo'[c] \cup kept'[p]
                 /\ Smooth(p)' => Good(p)'
    <3>1. ASSUME NEW q \in Plan, q # p, Same(q), Smooth(q)' PROVE Good(q)'
      <4>1. Present(q)' = Present(q) /\ (Whole(q) => Whole(q)')
        BY <3>1 DEF Present, Whole
      <4>2. /\ restore[q] = {} => Present(q) = {}
            /\ status[q] \in {"completed", "committed"} => Whole(q)
            /\ status[q] = "rolled_back" => Present(q) \subseteq kept[q]
        <5>1. \A d \in Call : PlanOf[d] = q => pc[d] \notin {"copy", "drop"}
          BY <2>2, <3>1 DEF p
        <5>2. QED
          BY <1>0, <3>1, <5>1 DEF RowInv
      <4>3. QED
        BY <3>1, <4>1, <4>2
    <3>2. \A q \in Plan : Same(q) /\ q # p => restore'[q] \in {{}, Volume}
      BY DEF RowInv
    <3>3. /\ \A q \in Plan : restore'[q] \in {{}, Volume}
          /\ \A q \in Plan : Smooth(q)' => Good(q)'
      BY <3>1, <3>2
    <3>4. /\ \A d \in Call : pc'[d] \in {"revive", "drop"} =>
               d = c /\ status'[PlanOf[d]] # "committed"
          /\ \A d \in Call :
               pc'[d] = "revive" => todo'[d] = restore'[PlanOf[d]]
          /\ \A d \in Call : pc'[d] = "drop" /\ Smooth(PlanOf[d])' =>
               Present(PlanOf[d])' \subseteq todo'[d] \cup kept'[PlanOf[d]]
      BY <2>1 DEF p
    <3>5. \A q \in Plan : Smooth(q)' =>
            /\ restore'[q] = {} => \A v \in Present(q)' : \E d \in Call :
                 PlanOf[d] = q /\ pc'[d] = "copy" /\ v \notin todo'[d]
            /\ status'[q] \in {"completed", "committed"} =>
                 \/ Whole(q)'
                 \/ \E d \in Call : PlanOf[d] = q /\ pc'[d] = "drop"
            /\ status'[q] = "rolled_back" => Present(q)' \subseteq kept'[q]
      BY <3>3 DEF p
    <3>6. QED
      BY <3>3, <3>4, <3>5 DEF RowInv
  <2> HIDE DEF Good, Mine
  <2>5. ASSUME copy'[p] = copy[p]
        PROVE  (Whole(p)' <=> Whole(p)) /\ Present(p)' = Present(p)
    BY <2>5 DEF Whole, Present
  <2>6. CASE Verdict(c) \/ MarkInProgress(c) \/ Unsupported(c)
    <3>1. /\ pc[c] \notin {"copy", "revive", "drop"}
          /\ pc'[c] \notin {"copy", "revive", "drop"}
          /\ status'[p] \notin {"completed", "committed", "rolled_back"}
          /\ restore'[p] = restore[p] /\ copy'[p] = copy[p]
          /\ \A q \in Plan : q # p => Same(q)
      BY <2>0, <2>6 DEF Verdict, MarkInProgress, Unsupported, Goes, SetStatus,
                        dockerVars, swallowed, p
    <3>2. Smooth(p)' => Good(p)'
      BY <2>3, <2>5, <3>1 DEF Good, Mine
    <3>3. QED
      BY <2>3, <3>1, <3>2 DEF Mine
  <2>7. CASE StopSource(c) \/ Role(c) \/ RestartSource(c)
    <3>1. /\ pc[c] \notin {"copy", "revive", "drop"}
          /\ pc'[c] \notin {"revive", "drop"}
          /\ UNCHANGED <<status, restore, copy, kept>>
      BY <2>0, <2>7 DEF StopSource, Role, RestartSource, Goes, rowVars,
                        swallowed
    <3>2. Smooth(p)' => Good(p)'
      BY <2>3, <2>5, <3>1 DEF Good, Mine
    <3>3. QED
      BY <2>3, <3>1, <3>2 DEF Mine
  <2>8. CASE ReviveSource(c)
    <3>1. /\ pc[c] = "revive" /\ pc'[c] = "drop"
          /\ UNCHANGED <<status, restore, copy, todo, kept>>
      BY <2>0, <2>8 DEF ReviveSource, Goes, rowVars
    <3>2. Smooth(p)' => Present(p) \subseteq todo[c]
      <4>1. CASE restore[p] = {}
        BY <2>3, <3>1, <4>1 DEF Good, Mine
      <4>2. CASE restore[p] = Volume
        BY <2>3, <3>1, <4>2 DEF Present, Mine
      <4>3. QED
        BY <2>3, <4>1, <4>2 DEF Mine
    <3>3. Smooth(p)' => Good(p)'
      BY <2>3, <2>5, <3>1 DEF Good, Mine
    <3>4. QED
      BY <2>3, <2>5, <3>1, <3>2, <3>3 DEF Mine
  <2>9. CASE CopyVolume(c)
    <3>1. PICK v \in todo[c] :
            /\ copy' = [copy EXCEPT ![p][v] = written]
            /\ todo' = [todo EXCEPT ![c] = @ \ {v}]
            /\ kept' = [kept EXCEPT ![p] = @ \ {v}]
            /\ pc[c] = "copy" /\ pc' = [pc EXCEPT ![c] = "copy"]
            /\ UNCHANGED <<status, restore>>
      BY <2>9 DEF CopyVolume, Goes, rowVars, p
    <3>2. status[p] = "in_progress" /\ pc'[c] = "copy"
      BY <3>1 DEF ColdInv, p
    <3>3. /\ \A w \in Present(p)' : w \in Present(p) \/ w = v
          /\ v \notin todo'[c] /\ todo'[c] \subseteq todo[c]
      BY <2>0, <3>1 DEF Present
    <3>4. Smooth(p)' => Good(p)'
      BY <2>3, <3>1, <3>2, <3>3 DEF Good, Mine
    <3>5. \A q \in Plan : q # p => Same(q)
      BY <2>0, <3>1
    <3>6. QED
      BY <2>3, <3>1, <3>2, <3>4, <3>5 DEF Mine
  <2>10. CASE CopyFails(c) \/ Rejected(c)
    <3>1. /\ pc'[c] = "failed"
          /\ \A q \in Plan : q # p => copy'[q] = copy[q]
          /\ UNCHANGED <<status, restore, kept>>
      BY <2>0, <2>10 DEF CopyFails, Rejected, Goes, rowVars, dockerVars,
                         swallowed, p
    <3>2. ~Smooth(p)'
      BY <3>1 DEF Smooth, p
    <3>3. QED
      BY <2>3, <3>1, <3>2 DEF Mine
  <2>11. CASE DropVolume(c)
    <3>1. PICK v \in todo[c] :
            /\ \/ /\ copy' = [copy EXCEPT ![p][v] = Absent]
                  /\ kept' = [kept EXCEPT ![p] = @ \ {v}]
               \/ /\ copy' = copy
                  /\ kept' = [kept EXCEPT ![p] = @ \cup {v}]
            /\ todo' = [todo EXCEPT ![c] = @ \ {v}]
            /\ pc[c] = "drop" /\ pc'[c] = "drop"
            /\ UNCHANGED <<status, restore>>
      BY <2>0, <2>11 DEF DropVolume, Goes, rowVars, p
    <3>2. /\ todo'[c] = todo[c] \ {v} /\ Present(p)' \subseteq Present(p)
          /\ v \in Present(p)' => v \in kept'[p]
          /\ kept[p] \ {v} \subseteq kept'[p]
      BY <2>0, <3>1 DEF Present
    <3>3. Smooth(p)' => Good(p)'
      <4> SUFFICES ASSUME Smooth(p)' PROVE Good(p)'
        OBVIOUS
      <4>1. /\ restore[p] = {} => Present(p) = {}
            /\ status[p] = "rolled_back" => Present(p) \subseteq kept[p]
        BY <2>3, <3>1 DEF Good, Mine
      <4>2. /\ restore'[p] = {} => Present(p)' = {}
            /\ status'[p] = "rolled_back" => Present(p)' \subseteq kept'[p]
        BY <3>1, <3>2, <4>1
      <4>3. QED
        BY <3>1, <4>2 DEF Good
    <3>4. \A q \in Plan : q # p => Same(q)
      BY <2>0, <3>1
    <3>5. pc[c] = "drop" /\ Smooth(p)' =>
            Present(p)' \subseteq todo'[c] \cup kept'[p]
      BY <2>3, <3>2 DEF Mine
    <3>6. QED
      BY <2>3, <3>1, <3>3, <3>4, <3>5 DEF Mine
  <2>12. CASE Complete(c)
    <3>1. /\ todo[c] = {} /\ pc[c] = "copy" /\ pc'[c] = "restart"
          /\ restore'[p] = Volume
          /\ status'[p] = "completed"
          /\ \A q \in Plan : q # p => Same(q)
          /\ UNCHANGED <<copy, kept>>
      BY <2>0, <2>12 DEF Complete, Goes, SetStatus, dockerVars, swallowed, p
    <3>2. \A v \in Volume : copy[p][v] \in Nat
      BY <3>1 DEF ColdInv, p
    <3>3. Whole(p)
      BY <3>2 DEF Whole
    <3>4. restore'[p] = {} => Present(p) = {}
      BY <3>1 DEF Present
    <3>5. Good(p)'
      BY <2>5, <3>1, <3>3, <3>4 DEF Good
    <3>6. QED
      BY <3>1, <3>5
  <2>13. CASE RolledBack(c)
    <3>1. /\ todo[c] = {} /\ pc[c] = "drop" /\ pc'[c] = "done"
          /\ status'[p] = "rolled_back"
          /\ \A q \in Plan : q # p => Same(q)
          /\ UNCHANGED <<copy, restore, kept>>
      BY <2>0, <2>13 DEF RolledBack, Goes, SetStatus, dockerVars, swallowed, p
    <3>2. Smooth(p)' => Present(p)' \subseteq kept'[p]
      BY <2>3, <2>5, <3>1 DEF Mine
    <3>3. Smooth(p)' => Good(p)'
      <4>1. Smooth(p)' /\ restore[p] = {} => Present(p) = {}
        BY <2>3, <3>1 DEF Good, Mine
      <4>2. QED
        BY <2>5, <3>1, <3>2, <4>1 DEF Good
    <3>4. QED
      BY <2>3, <3>1, <3>3 DEF Mine
  <2>14. CASE Committed(c)
    <3>1. /\ pc[c] = "ack" /\ pc'[c] = "done"
          /\ status'[p] = "committed"
          /\ \A q \in Plan : q # p => Same(q)
          /\ UNCHANGED <<copy, restore, kept>>
      BY <2>0, <2>14 DEF Committed, Goes, SetStatus, dockerVars, swallowed, p
    <3>2. status[p] = "completed"
      BY <3>1 DEF ColdInv, p
    <3>3. Smooth(p)' => Good(p)'
      BY <2>3, <2>5, <3>1, <3>2 DEF Good, Mine
    <3>4. QED
      BY <2>3, <3>1, <3>3 DEF Mine
  <2>15. QED
    BY <1>2, <2>6, <2>7, <2>8, <2>9, <2>10, <2>11, <2>12, <2>13, <2>14
    DEF Proceeds
<1>3. CASE Write \/ UNCHANGED vars
  <2>1. UNCHANGED <<status, restore, copy, pc, todo, kept>>
    BY <1>3 DEF Write, vars, rowVars, dockerVars, swallowed
  <2>2. /\ \A p \in Plan : Smooth(p)' => Smooth(p)
        /\ \A p \in Plan : Whole(p) => Whole(p)'
        /\ \A p \in Plan : Present(p)' = Present(p)
    BY <2>1 DEF Smooth, Whole, Present
  <2>3. /\ \A p \in Plan : restore'[p] \in {{}, Volume}
        /\ \A c \in Call : pc'[c] \in {"revive", "drop"} =>
             status'[PlanOf[c]] # "committed"
        /\ \A c \in Call : pc'[c] = "revive" => todo'[c] = restore'[PlanOf[c]]
        /\ \A c \in Call : pc'[c] = "drop" /\ Smooth(PlanOf[c])' =>
             Present(PlanOf[c])' \subseteq todo'[c] \cup kept'[PlanOf[c]]
    BY <2>1, <2>2 DEF RowInv
  <2>4. ASSUME NEW p \in Plan, Smooth(p)'
        PROVE  /\ restore'[p] = {} => \A v \in Present(p)' : \E c \in Call :
                    PlanOf[c] = p /\ pc'[c] = "copy" /\ v \notin todo'[c]
               /\ status'[p] \in {"completed", "committed"} =>
                    \/ Whole(p)'
                    \/ \E c \in Call : PlanOf[c] = p /\ pc'[c] = "drop"
               /\ status'[p] = "rolled_back" => Present(p)' \subseteq kept'[p]
    BY <2>1, <2>2, <2>4 DEF RowInv
  <2>5. QED
    BY <2>3, <2>4 DEF RowInv
<1>4. CASE Crash
  <2>1. /\ UNCHANGED <<status, restore, copy, kept>>
        /\ \A c \in Call : /\ pc'[c] \notin Active
                           /\ pc[c] \in Active => pc'[c] = "lost"
    BY <1>4 DEF Crash, rowVars, dockerVars, swallowed, Active
  <2>2. \A c \in Call : Smooth(PlanOf[c])' => pc[c] \notin Active
    BY <2>1 DEF Smooth
  <2>3. \A p \in Plan : (Whole(p)' <=> Whole(p)) /\ Present(p)' = Present(p)
    BY <2>1 DEF Whole, Present
  <2>4. \A c \in Call : pc'[c] \notin {"revive", "drop"}
    BY <2>1 DEF Active
  <2>5. ASSUME NEW p \in Plan, Smooth(p)'
        PROVE  /\ restore'[p] = {} => Present(p)' = {}
               /\ status'[p] \in {"completed", "committed"} => Whole(p)'
               /\ status'[p] = "rolled_back" => Present(p)' \subseteq kept'[p]
    <3>1. Smooth(p) /\ \A c \in Call : PlanOf[c] = p => pc[c] \notin Active
      BY <1>0, <2>2, <2>5
    <3>2. QED
      BY <2>1, <2>3, <3>1 DEF RowInv, Active
  <2>6. \A p \in Plan : restore'[p] \in {{}, Volume}
    BY <2>1 DEF RowInv
  <2>7. QED
    BY <2>4, <2>5, <2>6 DEF RowInv
<1>5. QED
  BY <1>1, <1>2, <1>3, <1>4, NextCases

\* A committed migration has all its target volumes and one rolled back has
\* none but those docker failed to remove, as long as its requests take turns
\* and none of them was cut short.
THEOREM RowTellsVolumes ==
  ASSUME OneAtATime
  PROVE  Spec => []RowMatchesVolumes
<1>1. Init => RowInv
  <2> SUFFICES ASSUME Init PROVE RowInv
    OBVIOUS
  <2>1. \A p \in Plan : Present(p) = {}
    BY DEF Init, Present
  <2>2. QED
    BY <2>1 DEF Init, RowInv
<1>2. RowInv => RowMatchesVolumes
  BY MigrationAssumption DEF RowInv, RowMatchesVolumes, Present, Whole
<1>3. QED
  BY <1>1, <1>2, RowStep, ColdHolds, TypeCorrect, PTL DEF Spec
=============================================================================
