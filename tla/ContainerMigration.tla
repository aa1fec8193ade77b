------------------------- MODULE ContainerMigration -------------------------
(***************************************************************************)
(* src/lib/migration.ts and the routes under api/migration/plans: plans    *)
(* that move the volumes of one service to another host by a cold          *)
(* snapshot.  What a volume holds is the number of writes it has seen.     *)
(***************************************************************************)
EXTENDS Naturals, FiniteSets

CONSTANTS
  Plan,        \* MigrationPlan rows, all of one service
  Volume,      \* its named volumes
  Call,        \* requests to the routes of a plan
  OpOf,        \* [Call -> Op]
  PlanOf,      \* [Call -> Plan]
  Snapshot,    \* plans whose strategy is "snapshot"
  Database,    \* whether detectEngine finds a database in the image
  OneAtATime,  \* "single orchestrator at a time"
  RoleWorks,   \* whether the ansible role can run
  Faulty,      \* what may fail: subset of {"db", "stop", "start", "copy",
               \* "drop"}
  Absent,      \* no such target volume
  Partial,     \* a target volume whose copy was cut short
  MaxWrites,   \* bound: writes of the service
  MaxCrashes   \* bound: deaths of the panel's process

Op == {"preflight", "run", "rollback", "commit"}

ASSUME MigrationAssumption ==
  /\ OpOf \in [Call -> Op] /\ PlanOf \in [Call -> Plan]
  /\ {Database, OneAtATime, RoleWorks} \subseteq BOOLEAN
  /\ {MaxWrites, MaxCrashes} \subseteq Nat
  /\ Absent \notin Nat /\ Partial \notin Nat /\ Absent # Partial

VARIABLES
  status,   \* [Plan -> Status]
  restore,  \* [Plan -> SUBSET Volume]: target volumes in plan.restorePoint
  running,  \* whether the source container runs
  written,  \* writes its volumes have seen
  copy,     \* [Plan -> [Volume -> writes in the target volume, or the like]]
  pc,       \* [Call -> Step]
  todo,     \* [Call -> SUBSET Volume]: volumes its loop has to visit
  crashes,
  \* History, for the properties: the errors of docker that ".catch(() => {})"
  \* throws away.
  unstopped,  \* plans whose latest docker stop failed
  unstarted,  \* whether the latest docker start left the source down
  kept        \* [Plan -> SUBSET Volume]: of which, since they were copied,
              \* the latest volume rm failed

rowVars    == <<status, restore>>
dockerVars == <<running, written, copy>>
swallowed  == <<unstopped, unstarted, kept>>
vars == <<rowVars, dockerVars, pc, todo, crashes, swallowed>>

Status == {"planned", "preflight", "in_progress", "completed", "failed",
           "rolled_back", "committed"}
Active == {"verdict", "mark", "unsupported", "stop", "role", "copy", "restart",
           "revive", "drop", "ack"}
Ended  == {"done", "refused", "failed", "lost"}

TypeOK ==
  /\ status \in [Plan -> Status]
  /\ restore \in [Plan -> SUBSET Volume]
  /\ running \in BOOLEAN
  /\ written \in 0..MaxWrites
  /\ copy \in [Plan -> [Volume -> 0..MaxWrites \cup {Absent, Partial}]]
  /\ pc \in [Call -> {"idle"} \cup Active \cup Ended]
  /\ todo \in [Call -> SUBSET Volume]
  /\ crashes \in 0..MaxCrashes
  /\ unstopped \subseteq Plan
  /\ unstarted \in BOOLEAN
  /\ kept \in [Plan -> SUBSET Volume]

Init ==
  /\ status = [p \in Plan |-> "planned"]
  /\ restore = [p \in Plan |-> {}]
  /\ running = TRUE
  /\ written = 0
  /\ copy = [p \in Plan |-> [v \in Volume |-> Absent]]
  /\ pc = [c \in Call |-> "idle"]
  /\ todo = [c \in Call |-> {}]
  /\ crashes = 0
  /\ unstopped = {}
  /\ unstarted = FALSE
  /\ kept = [p \in Plan |-> {}]

Goes(c, from, to) ==
  /\ pc[c] = from
  /\ pc' = [pc EXCEPT ![c] = to]

SetStatus(c, s) == status' = [status EXCEPT ![PlanOf[c]] = s]

\* A request is read while its row says what the guard compares; no other one
\* is under way if operators take turns.
Arrives(c, op, to) ==
  /\ OpOf[c] = op
  /\ OneAtATime => \A d \in Call : pc[d] \notin Active
  /\ Goes(c, "idle", to)

-----------------------------------------------------------------------------
(* preflight                                                               *)

\* The container, its volumes and the port of the target are looked at ...
Preflight(c) ==
  /\ Arrives(c, "preflight", "verdict")
  /\ UNCHANGED <<rowVars, dockerVars, todo, crashes, swallowed>>

\* ... and the verdict is written over whatever status the plan has by then.
Verdict(c) ==
  /\ \/ Goes(c, "verdict", "done") /\ SetStatus(c, "preflight")
     \/ Goes(c, "verdict", "failed") /\ SetStatus(c, "failed")
  /\ UNCHANGED <<restore, dockerVars, todo, crashes, swallowed>>

-----------------------------------------------------------------------------
(* runMigration                                                            *)

\* chooseStrategyGuard is all that can refuse it, by what the caller says he
\* measured; the status is not looked at.
RunMigration(c) ==
  /\ \E activeWrites \in BOOLEAN :
       Arrives(c, "run",
               IF PlanOf[c] \in Snapshot /\ Database /\ activeWrites
               THEN "refused" ELSE "mark")
  /\ UNCHANGED <<rowVars, dockerVars, todo, crashes, swallowed>>

MarkInProgress(c) ==
  /\ Goes(c, "mark", IF PlanOf[c] \in Snapshot THEN "stop" ELSE "unsupported")
  /\ SetStatus(c, "in_progress")
  /\ UNCHANGED <<restore, dockerVars, todo, crashes, swallowed>>

Unsupported(c) ==
  /\ Goes(c, "unsupported", "refused")
  /\ SetStatus(c, "failed")
  /\ UNCHANGED <<restore, dockerVars, todo, crashes, swallowed>>

\* Mutant: the snapshot is taken of a running service.
StopSkipped(c) ==
  /\ Goes(c, "stop", "role")
  /\ UNCHANGED <<rowVars, dockerVars, todo, crashes, swallowed>>

\* What docker stop says is not looked at.
StopSource(c) ==
  /\ Goes(c, "stop", "role")
  /\ \/ running' = FALSE /\ unstopped' = unstopped \ {PlanOf[c]}
     \/ /\ "stop" \in Faulty
        /\ UNCHANGED running
        /\ unstopped' = unstopped \cup {PlanOf[c]}
  /\ unstarted' = FALSE
  /\ UNCHANGED <<rowVars, written, copy, todo, crashes, kept>>

\* The last task of the role starts the source again; the copy that follows is
\* made whether the role worked or not.
Role(c) ==
  /\ Goes(c, "role", "copy")
  /\ \/ UNCHANGED running
     \/ RoleWorks /\ running' = TRUE
  /\ todo' = [todo EXCEPT ![c] = Volume]
  /\ UNCHANGED <<rowVars, written, copy, crashes, swallowed>>

CopyVolume(c) ==
  \E v \in todo[c] :
    /\ Goes(c, "copy", "copy")
    /\ copy' = [copy EXCEPT ![PlanOf[c]][v] = written]
    /\ kept' = [kept EXCEPT ![PlanOf[c]] = @ \ {v}]
    /\ todo' = [todo EXCEPT ![c] = @ \ {v}]
    /\ UNCHANGED <<rowVars, running, written, crashes, unstopped, unstarted>>

\* The target volume exists by then.
CopyFails(c) ==
  /\ "copy" \in Faulty
  /\ \E v \in todo[c] :
       /\ Goes(c, "copy", "failed")
       /\ copy' = [copy EXCEPT ![PlanOf[c]][v] = Partial]
  /\ todo' = [todo EXCEPT ![c] = {}]
  /\ UNCHANGED <<rowVars, running, written, crashes, swallowed>>

\* Mutant: the target volumes are not recorded.
CompleteUnrecorded(c) ==
  /\ todo[c] = {}
  /\ Goes(c, "copy", "restart")
  /\ SetStatus(c, "completed")
  /\ UNCHANGED <<restore, dockerVars, todo, crashes, swallowed>>

Complete(c) ==
  /\ todo[c] = {}
  /\ Goes(c, "copy", "restart")
  /\ SetStatus(c, "completed")
  /\ restore' = [restore EXCEPT ![PlanOf[c]] = Volume]
  /\ UNCHANGED <<dockerVars, todo, crashes, swallowed>>

\* Mutant: the source is left as it is.
RestartSkipped(c) ==
  /\ Goes(c, "restart", "done")
  /\ UNCHANGED <<rowVars, dockerVars, todo, crashes, swallowed>>

RestartSource(c) ==
  /\ Goes(c, "restart", "done")
  /\ \/ running' = TRUE
     \/ "start" \in Faulty /\ UNCHANGED running
  /\ unstarted' = ~running'
  /\ UNCHANGED <<rowVars, written, copy, todo, crashes, unstopped, kept>>

-----------------------------------------------------------------------------
(* rollbackMigration and commitMigration                                   *)

\* Guard and restore point are those of the plan as it was read here.
RollbackMigration(c) ==
  /\ Arrives(c, "rollback", IF status[PlanOf[c]] = "committed"
                            THEN "refused" ELSE "revive")
  /\ todo' = [todo EXCEPT ![c] = IF status[PlanOf[c]] = "committed"
                                 THEN {} ELSE restore[PlanOf[c]]]
  /\ UNCHANGED <<rowVars, dockerVars, crashes, swallowed>>

ReviveSource(c) ==
  /\ Goes(c, "revive", "drop")
  /\ \/ running' = TRUE
     \/ "start" \in Faulty /\ UNCHANGED running
  /\ unstarted' = ~running'
  /\ UNCHANGED <<rowVars, written, copy, todo, crashes, unstopped, kept>>

DropVolume(c) ==
  \E v \in todo[c] :
    /\ Goes(c, "drop", "drop")
    /\ \/ /\ copy' = [copy EXCEPT ![PlanOf[c]][v] = Absent]
          /\ kept' = [kept EXCEPT ![PlanOf[c]] = @ \ {v}]
       \/ /\ "drop" \in Faulty
          /\ kept' = [kept EXCEPT ![PlanOf[c]] = @ \cup {v}]
          /\ UNCHANGED copy
    /\ todo' = [todo EXCEPT ![c] = @ \ {v}]
    /\ UNCHANGED <<rowVars, running, written, crashes, unstopped, unstarted>>

RolledBack(c) ==
  /\ todo[c] = {}
  /\ Goes(c, "drop", "done")
  /\ SetStatus(c, "rolled_back")
  /\ UNCHANGED <<restore, dockerVars, todo, crashes, swallowed>>

CommitMigration(c) ==
  /\ Arrives(c, "commit", IF status[PlanOf[c]] # "completed"
                          THEN "refused" ELSE "ack")
  /\ UNCHANGED <<rowVars, dockerVars, todo, crashes, swallowed>>

Committed(c) ==
  /\ Goes(c, "ack", "done")
  /\ SetStatus(c, "committed")
  /\ UNCHANGED <<restore, dockerVars, todo, crashes, swallowed>>

-----------------------------------------------------------------------------
(* Everything else                                                         *)

\* A statement, a log line among them, that the database rejects ends the
\* request where it is.
Rejected(c) ==
  /\ "db" \in Faulty
  /\ pc[c] \in Active
  /\ pc' = [pc EXCEPT ![c] = "failed"]
  /\ todo' = [todo EXCEPT ![c] = {}]
  /\ UNCHANGED <<rowVars, dockerVars, crashes, swallowed>>

\* The service takes a write.
Write ==
  /\ running
  /\ written < MaxWrites
  /\ written' = written + 1
  /\ UNCHANGED <<rowVars, running, copy, pc, todo, crashes, swallowed>>

Crash ==
  /\ crashes < MaxCrashes
  /\ crashes' = crashes + 1
  /\ pc' = [c \in Call |-> IF pc[c] \in Active THEN "lost" ELSE pc[c]]
  /\ todo' = [c \in Call |-> {}]
  /\ UNCHANGED <<rowVars, dockerVars, swallowed>>

Running(c) ==
  \/ RunMigration(c) \/ MarkInProgress(c) \/ Unsupported(c) \/ StopSource(c)
  \/ Role(c) \/ CopyVolume(c) \/ CopyFails(c) \/ Complete(c)
  \/ RestartSource(c)

RollingBack(c) ==
  RollbackMigration(c) \/ ReviveSource(c) \/ DropVolume(c) \/ RolledBack(c)

Next ==
  \/ \E c \in Call : \/ Preflight(c) \/ Verdict(c)
                     \/ Running(c) \/ RollingBack(c)
                     \/ CommitMigration(c) \/ Committed(c)
                     \/ Rejected(c)
  \/ Write
  \/ Crash

Spec == Init /\ [][Next]_vars

-----------------------------------------------------------------------------
(* Properties                                                              *)

\* "Cold snapshot": the target volumes of a migration that completed, those
\* still there, are all as the source was at one moment, and none is half
\* copied, whatever failed before and however often the plan was run.  One
\* failure is the exception: after a docker stop that failed, which
\* runMigration ignores, the source is copied while it takes writes.
ColdSnapshot ==
  \A p \in Plan : status[p] \in {"completed", "committed"} =>
    \A v, w \in Volume :
      /\ copy[p][v] # Partial
      /\ p \notin unstopped /\ copy[p][v] # Absent /\ copy[p][w] # Absent
           => copy[p][v] = copy[p][w]

\* No request of the plan was cut short.
Smooth(p) == \A c \in Call : PlanOf[c] = p => pc[c] \notin {"failed", "lost"}

\* The row tells which target volumes there are: all of a committed migration,
\* and of one rolled back none but those whose "volume rm" failed, of which
\* rollbackMigration takes no notice.
RowMatchesVolumes ==
  \A p \in Plan : Smooth(p) =>
    \A v \in Volume :
      /\ status[p] = "committed" => copy[p][v] \in Nat
      /\ status[p] = "rolled_back" /\ v \notin kept[p] => copy[p][v] = Absent

\* "The source container is restarted at the end so the source keeps serving":
\* it is down only while a request works on it, after one was cut short, or
\* after a docker start that failed, which both requests ignore.
SourceServes ==
  (\A p \in Plan : Smooth(p)) /\ (\A c \in Call : pc[c] \notin Active)
    => running \/ unstarted

\* "REAL rollback of a NON-committed migration": what was committed is never
\* dropped.  The code lets a committed plan run again, after which it is not
\* committed any more.
CommittedIsKept ==
  \A c \in Call : OpOf[c] = "commit" /\ pc[c] = "done" =>
    \A v \in Volume : copy[PlanOf[c]][v] # Absent

\* "Drop the provisioned target volumes": nothing is left of a rollback that
\* succeeded.  The code records the volumes when the last one is copied.
RollbackDropsAll ==
  \A p \in Plan : status[p] = "rolled_back" =>
    \A v \in Volume : copy[p][v] = Absent
=============================================================================
