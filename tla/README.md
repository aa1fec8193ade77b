# OpsPanel in TLA+

Specifications of the parts of OpsPanel that act on a live system over time: the
background jobs, the blue/green deploy with its proxy, rollback and health
watch, the alerts, the migration of containers, the budgets of billing, users
with their sessions and logins, and what is discovered on a host. They are
written from the code under `src/`, checked by TLC on small instances, and
every safety property of a run is proved with TLAPS for instances of every
size.

OpsPanel is one Next.js process with a PostgreSQL database. A request handler
or a background job is an async function: between two of its `await`s any other
one may run, the statement it awaits may be rejected, and the process may die.
Only rows, containers and what other services hold survive that. Nearly nothing
is wrapped in a transaction. That is what the modules are about: each action is
what one async function does between two awaits.

Contents: [inventory](#1-inventory) · [hard behaviours](#2-what-is-hard) ·
[modules](#3-modules-and-the-code) · [runs](#4-the-runs) ·
[divergences](#5-where-the-code-and-its-comments-part) ·
[fairness](#6-fairness) · [proofs](#7-what-is-proved) ·
[limits](#8-only-model-checked-and-not-modelled) · [plan](#9-plan) ·
[running](#10-running-it)

## 1. Inventory

Paths are relative to `src/src/` unless they start with another directory.

### Modelled

**Background job runner** (`lib/jobs.ts`). *State*: the `BackgroundJob` row
(state, progress, log), and in memory the sets `running` and `cancelRegistry`.
*Operations*: `createJob`, `runJob`, `ctx.log`, `ctx.progress`, `requestCancel`,
`jobStreamResponse`. *Used by*: deploys, discovery, port scans, migrations, code
analysis. *Correct when*: a row walks QUEUED, RUNNING, one terminal state and
stays; the log of an ended job has each line once and in order; a stream shows
just that log and closes; jobs end.

**Deploy pipeline** (`lib/deploy.ts`, the routes `api/deploy/run`,
`api/deploy/runs/[id]/cancel` and `.../rollback`, the plays
`src/ansible/playbooks/deploy/*.yml`). *State*: the rows `DeployRun` and
`Deployment`, the containers `<prefix>-<env>-<service>-blue|green`, their ports,
the target of the proxy, and the locals of the pipeline (`greenPort`,
`greenStarted`, `switched`, `prev`). *Operations*: `planDeploy`, `runDeploy` with
its job and its catch, `rollback`, cancel. *Interacts with*: the job runner, the
proxy, the health watch, alerts, git, docker, ansible. *Correct when*: one
pipeline works on an environment at a time; traffic is served throughout; a
failure leaves what was served before; the record says what is served.

**Post-deploy health watch** (`lib/healthwatch.ts`). *State*:
`DeployRun.healthStatus` and a counter of consecutive failures. *Correct when*:
it gives a verdict, and rolls back the deployment it watched.

**Managed reverse proxy** (`lib/proxy.ts`). *State*: `REGISTRY`, the target and
the `inflight` count, all in memory. *Operations*: `ensureManagedProxy`,
`setTarget`, the request handler, `drain`. *Correct when*: the count drain waits
for is that of the requests, one server has the port, and removing a drained
container drops no request.

**Alerts** (`lib/alerts.ts`, `api/alerts/flush`, `api/alerts/channels/[id]`).
*State*: `AlertRule.lastFiredAt`, `AlertEvent` rows with `suppressedCount`,
`AlertDelivery` rows, channels. *Operations*: `raiseAlert` (cooldown, event,
routing), `deliver`, `flushQueued`, deletion of a channel. *Called by*: deploys,
rollbacks, billing, log ingestion. *Correct when*: "delivered" means delivered
and stays so, a suppressed call is counted once, one failing channel does not
keep the others from their message.

**Container migration** (`lib/migration.ts`, the role
`src/ansible/roles/migrate_snapshot`). *State*: the `MigrationPlan` row (status,
restore point), the source container, the target volumes. *Operations*:
`preflight`, `runMigration`, `rollbackMigration`, `commitMigration`, four
request handlers that check `status`, or do not, and write it several awaits
later. *Correct when*: a snapshot is cold; the row tells which target volumes
there are; the source serves whenever nobody works on it.

**Billing** (`lib/billing.ts`, `api/billing/events`, `api/billing/config`).
*State*: `BillingEvent` rows, budgets, and one `Setting` "billing" that
holds the crossed thresholds, the pause flags and the rest of the configuration.
*Operations*: `recordEvent`, `checkBudgets`, `patchBillingConfig`, the other
writers of the setting. *Correct when*: a generation is recorded once; a
threshold is alerted of once a period, and none is passed over; a breached
budget is paused.

**Users, sessions, two-factor login** (`lib/access.ts`, `lib/auth.ts`,
`lib/totp.ts`, `lib/ratelimit.ts`, `api/auth/*`, `api/access/*`). *State*:
`User` rows with role and second factor, `Session` rows and the role in their
tokens, failure counters in Redis. *Operations*: login, logout and revocation,
creation, change and deletion of users, enrolment, verification and removal of
a factor. *Correct when*: an administrator always remains; failed logins are
limited and a lock ends; an enabled factor was verified.

**Discovery proposals and port registry** (`lib/discovery.ts`,
`api/discovery/*`, `lib/ports.ts`, `lib/serverPorts.ts`, `api/ports/manual`).
*State*: `DiscoveryProposal` rows, `PortAllocation` rows. *Operations*:
`generateProposals`, `applyProposalEffect`, the accept and reject routes,
`reconcile`, manual entries. *Correct when*: no key has more open proposals than
one scan of the host drafts of it; what the last scan saw, and only that, is
active.

### Left out

| part | why |
|---|---|
| async jobs (`lib/celery.ts`) | one upsert for each event an external worker reports, in whatever order it reports them, and two Redis commands for the retry of a dead letter; the rest only reads Redis |
| deployment records (`api/deployments`) | two routes that write `Deployment`, each in one transaction; the pipeline does not use them |
| integrations, AI quality, QA checklists, releases, runbooks, domains, backups | forms over single rows: each request is one insert or update that relates to no other step. Nothing in the repository runs the backups it records |
| quality gate (`lib/qualitygates.ts`) | a pure function of the last test run and checklist; `Deploy` has its refusal as a run that is never created |
| test reports, code analysis, benchmarks, scrapers | parsers and aggregation that run inside background jobs |
| reports, overview, logs, drift, crons, infrastructure pages | read-only |
| servers over SSH, docker and host operations | one command per request, no state kept |
| settings, encryption, audit log | key-value writes, a cipher, best-effort inserts; the one setting with several writers at once is in `Billing` |
| user interface, translations, nginx, images, the other ansible roles | no state of the system; the two deploy plays are steps of `Deploy`, the snapshot role one of `ContainerMigration` |

### How the parts meet

```
 routes ──> runDeploy ──createJob/runJob──> job runner ──SSE──> pages
               │  │                             ▲
               │  └─raiseAlert─> alerts         └── discovery, port scans, ...
               │                    ▲
               │                    └── checkBudgets <── recordEvent
               ├─ensureManagedProxy/drain─> proxy ──> containers
               ├─startHealthWatch─> watch ──onDegrade──> rollback
               └─Deployment rows <── rollback, cancel (DeployRun rows)
 accept a proposal ──applyProposalEffect──> port registry <── scans, manual
```

`BackgroundJobs`, `ManagedProxy` and `Alerts` describe their component with any
caller. `Deploy` uses what they give: its pipeline is one job (a death of the
process ends it, as in `BackgroundJobs`), its switch and drain are single steps
(`ManagedProxy` has what happens to the requests meanwhile), and an alert is the
tail of the step that raises it, since `raiseAlert` changes no row of a deploy.
`Billing` counts its calls of `raiseAlert`; whether a call becomes an event is
decided by the cooldown, in `Alerts`. `Discovery` has the proposals and the
registry in one module because an accepted proposal writes a port that scans
write too. Migrations and users share nothing with the others but the database.

## 2. What is hard

The list with its lines is `hazards` in `PROJECT.json`. By kind:

* **Check, then act.** The deploy lock looks for a RUNNING row after writing its
  own; cancel, rollback, commit, the last-administrator guard, the limit of
  failed logins and the search for existing proposals read a state and write
  several awaits later.
* **Read, modify, write.** `append` rewrites the whole log column; the record of
  truth is four statements; the billing configuration is one blob.
* **Names and ports reused.** The standby container is called as the one a
  former deploy left serving; a free port is probed and not reserved.
* **Partial failure.** Each statement may be rejected; the catch of the
  pipeline has statements of its own that may be; an increment and its time to
  live are two commands.
* **Errors nobody hears of.** `stopAndRemove`, the stop and start of a migration,
  `volume rm` and `raiseAlert(...).catch(() => {})` go on after a failure as
  after a success.
* **Late answers.** A health watch outlives its deployment; a flush meets calls
  that are still delivering; a channel takes a message and the answer is lost.
* **Death of the process.** Jobs, watches, the proxy and all counters are in
  memory, and nothing repairs the rows at start.
* **Data of others.** The sender dates an event, a socket fails before, in or
  after an answer, and Docker lists a port once for each address family.
* **Order of requests.** A plan may be run, rolled back, committed and run again
  in any order; a factor is renewed while a code for it is being verified.
* **Limits.** A drain has a grace period, the watch a deadline, standby ports
  can run out, thresholds are compared at their boundary, and the in-flight
  count must come back to zero.

## 3. Modules and the code

| module | what |
|---|---|
| `JobLifecycle` | abstract: the life cycle of a job row |
| `BackgroundJobs` | `lib/jobs.ts`; implements `JobLifecycle` |
| `BlueGreen` | abstract: what one blue/green deploy promises of traffic and record |
| `Deploy` | `lib/deploy.ts`, `lib/healthwatch.ts`, the deploy routes and plays; implements `BlueGreen` for a first deploy |
| `ManagedProxy` | `lib/proxy.ts` with requests that take time |
| `Alerts` | `raiseAlert`, `deliver`, `flushQueued` |
| `ContainerMigration` | `lib/migration.ts` |
| `Billing` | `recordEvent`, `checkBudgets`, the writers of the configuration |
| `Access` | login, its limit, sessions, users, the second factor |
| `Discovery` | `lib/discovery.ts`, `lib/ports.ts` |
| `MC...` | the instances for TLC |
| `..._proofs` | theorems and their proofs |

`PROJECT.json` maps every definition to its lines. A definition preceded by
`\* Mutant:` is a plausible bug of the definition that follows it: with that body
TLC finds the property it belongs to violated.

**BackgroundJobs.** `fiber[j]` is the program counter of `runJob`: `MarkRunning`
is awaited before the `try` (when it is rejected, `MarkRunningRejected`, neither
catch nor finally runs and the job stays in `running`), then the work, then the
outcome is decided (`Settles`, where `cancelRegistry` is read) and written
(`RecordOutcome` with the finally). `ctx.log` is two steps, `ReadLog` and
`WriteLog`, and each call in flight is an element of `appends[j]`. Jobs in
`Detached` do not await `ctx.log`; the ansible bridge of `deploy.ts` does not. A
log is a sequence of line numbers, and `sentLen` counts lines: what
the stream does with characters it does to whole lines here. Here and in every
other module a statement that is rejected was not applied: that the database
commits one and the answer is lost is assumed not to happen.

**Deploy.** A version is a run or a deployment that was there before (`Seed`);
`AppOf` says which service it is of and `EnvOf` where that runs. `pc[r]` names
the next step of the pipeline. The lock is two actions (`MarkRunning`, then
`PassLock` or `FailLock`), the play three (`PlayStartGreen`, `PlayStopBlue`,
`PlayDone`), the direct path two (`RemoveGreen`, `StartGreen`), the record of
truth four (`ReadActive`, `Supersede`, `Record`, `Succeed`). `Throw` is the jump
to the catch, which is `Repoint`, `UndoGreen`, `UndoPlay`, `UndoRecord`;
`UndoFails` is its own failure. `GiveUp` is one of the four statements no try
guards: the two before the lock, the first of the catch and the last; the job
ends ("gaveUp") and the row stays as it was. `rb[r]` is the same for a call of
`rollback(r)`, which reads its two rows in two steps (`RbFindCurrent`,
`RbFindPrevious`) and may throw at each await (`RbFails`), and `watch[r]` for
the watch, which may break while it watches or after its verdict
(`WatchBreaks`). `stopAndRemove` swallows what docker says: with "removal" in
`Faulty` a removal may leave the container and the caller go on. `Faulty` names
the awaits that may throw; each run says which. A container has a name, a port it keeps
when stopped, and the version it runs; `docker start` on a bound port is refused.
Abstracted: the plan is the version it was compared with (its refusals leave no
run), a migration step is part of the step before it, and a health check is
answered by whoever has the port. `Crash` drops every pipeline, rollback and
watch and the proxy, and leaves rows and containers. A container that runs does
not exit by itself between the probe and the switch.

**BlueGreen** has three variables, which `Deploy` maps to its own: `up` (the
proxy has a target), `served` (the versions whose running container has the
port it points at) and `active` (the versions whose `Deployment` row is active).
Its steps are `SwitchTo`, `SwitchBack` while the record still says the old
version, `Supersede` and `Activate` while the new one is served, and `Die`.

**ManagedProxy.** `phase[q]` is a request: sent to the target of its moment
(`via`), answering, and how it ended. It is counted out by `proxyRes` "end"
(`End`) and by `proxyReq` "error" (`Error`), which a socket error fires before
the headers and in the middle of a body alike; an upload whose answer is over
while its body is still being sent may meet both, and is counted out twice
(`LateError`). What ends without either stays counted (`Leaked`): a client that
goes away, a connection that is closed in the middle of a body without an error,
a time-out there. The pipelines are the part of `deploy.ts` from the removal of
the container named green, which may be the one a former deploy left serving
(`Replace`), over the healthy green to the removal of blue, with one at a time
per service; `removal[u]` remembers how a container was taken away. `Listen` and
`Register` are apart because the registry is written after the await of `start`.
CONNECT tunnels, which the count leaves out, `stop`, and a manual `rollback`,
which removes containers without a drain (`Deploy` has it), are left out.

**Alerts.** A call of `raiseAlert` is identified with the event it may create.
`ReadRule` compares the cooldown, `FindRecent` and `Bump` suppress, `CreateEvent`
and `Fire` go on, `Route` picks the channels, and the loop creates a delivery and
awaits `deliver`. `accepted` is what channels really took, whether or not the
panel heard of it. A call that is rejected (`RaiseRejected`, `CreateRejected`)
ends; what `deliver` rejects its callers swallow. Channels that are disabled or
below their severity are not in `Wanted`. One flush runs at a time in the run.

**ContainerMigration.** A call is one request to a route of a plan; `pc[c]` is
the statement it is at. A run is `RunMigration` (the guard on databases that
take writes), `MarkInProgress`, `StopSource`, `Role` (the ansible attempt),
`CopyVolume` for each volume, `Complete`, `RestartSource`; a rollback
`ReviveSource`, `DropVolume` for each volume of the restore point, `RolledBack`.
What a volume holds is the number of writes the service had made when it was
copied, so "of one moment" is equality. `docker stop`, `docker start` and
`volume rm` may fail, and the code goes on as if they had not; the history
variables `unstopped` (plans whose latest stop failed), `unstarted` (the latest
start failed) and `kept` (volumes a rollback could not remove) record it, for the
properties to say what follows. `RoleWorks` says whether the ansible
attempt can succeed: `src/Dockerfile` installs neither Python nor ansible, so in
the image it cannot and the copy of the panel is all there is, which is what the
run has; `Migration_hot.cfg` shows a host where it can. The log column, what
preflight looks at and the target container that a rollback removes if there is
one (nothing in the module starts it) are left out, and so is that `tar xf`
keeps the files of a former copy that the source has deleted since.

**Billing.** An event is its generationId; its cost is in `Spend`, and a
threshold is the amount at which it is crossed. `FindEvent` and `CreateEvent` are
the idempotent insert, the loop of `checkBudgets` is `CheckBudget` (sum and
compare) with `RaiseAlert` or `AlertRejected` for each threshold due, and
`patchBillingConfig` is `PatchRead` and `PatchWrite`. An event that is recorded
between the "now" of a check and its query may or may not be in the sum
(`Seen`), by its own `requestAt`. That date is the sender's: an event in
`Stamped` may be dated before the period of a budget or ahead of the panel's
clock (`Dates`), in which case its own check does not count it (`ahead`) until
its date comes (`DateComes` takes it from `future`). `counted` is what was dated
up to the "now" of the latest check. `alerts` counts the calls of `raiseAlert`, which is
what billing decides; the cooldown of `Alerts` comes after. `Writer` are the
other requests that read the configuration and write all of it back.
`overlapped` is a history variable for the condition of two properties. A period
ends between two calls. `enrichGeneration`, which raises the cost of an event
without a check of the budgets, is called by nothing and left out.

**Access.** A role is `ADMIN` or not. A session is the user and the role in its
token, which is what `requireRole` trusts; a demotion leaves it. Login is
`CheckLimit`, the password and code (`Accepted`, `Refused`, `NoCode`), the two
commands of `recordLoginFailure` (`Increment`, `SetExpiry`) or
`clearLoginFailures` and the new session. A change of a user is the read of the
row, the guard's own read and count (`FindTarget`, `CountAdmins`) and the write.
The key of the limit is an address and an account; there is one here for each
account. The second factor is a secret that is stored by GET, verified and enabled by
POST in two steps, and removed by DELETE in two. A command Redis does not answer
is one of `errors`; `examined` counts the failures that were answered since the
key was made. `Abandoned` is a refusal, a rejected statement or a death.

**Discovery.** `up` is what runs on the host. A scan or a generation sees all of
it or, if the tool does not answer, nothing (`Observable`). `reconcile` is
`Observe`, an upsert for each port, `FindStale` and `MarkStale`; a generation is
`Plan`, `FindExisting`, `ProposeOne` for each draft and `Supersede`. Drafts are a
list in which a key may occur twice, as for a port that Docker publishes on IPv4
and on IPv6: `KeyOf` gives their keys, and the loop creates a row for each whose
key was not in the rows it read before. A decision
is `FindProposal`, `ApplyEffect` and `Decide`. What a draft says, conflicts of
ports and suggestions are left out. `disturbed` and `raced` are history.

## 4. The runs

Every run ends by itself. `CHECK_DEADLOCK` is off because jobs, deploys and
calls are finitely many in an instance and the system rests when all have ended.

| run | instance | states | properties |
|---|---|---|---|
| `jobs_faults` | one job that awaits its lines, one that does not, 2 lines each, rejected writes, one death of the process | 807,172 | `LogInOrder` `LifecycleSpec` |
| `jobs_log` | the same with one viewer, a database that answers, no death | 522,725 | `RunningRowsHaveRunner` `CompleteLog` `StreamShowsLog` `JobsFinish` `StreamsFinish` |
| `deploy_lock` | two runs in one environment, by the play or without it, cancels, a watch with automatic rollback, two steps that throw and the four statements no try guards | 245,763 | `OneRunningPipeline` `NoGreenLeft` `RunsEnd` |
| `deploy_quiet` | three runs in two environments, four ports, the play, one death, nine places that may fail on both sides of the catch | 2,824,015 | `PipelinesExclude` `RecordHasOneActive` `SwitchesToOwn` |
| `deploy_first` | two runs of one service of which one gets to deploy it, cancels, one death, everything that may throw up to the drain and in the undo, removals that fail in silence | 427,566 | `FirstDeploysServe` `FirstDeployRecorded` `FirstDeployRestored` `FirstDeployIsBlueGreen` |
| `deploy_completes` | one run with nothing that throws, a sick version, a watch that rolls back or breaks, a rollback that throws, a cancel | 2,217 | `DeployCompletes` `WatchesEnd` |
| `proxy` | two requests of which one is an upload, two deploys of one service and one of another behind the same port, one death | 993,476 | `InflightAccounts` `OneProxy` `DrainDropsNone` `DrainedIsUnused` `PipelinesEnd` |
| `alerts` | three calls for one rule, two channels of which one may be deleted, one flush, rejected writes, lost answers, one death | 3,320,137 | `DeliveredIsReal` `SuppressionAccounts` `AllChannelsServed` `DeliveredIsFinal` |
| `migration` | two plans of one service with two volumes, six requests one at a time in any order, one write of the service, a copy that breaks, stops, starts and removals that fail in silence, rejected statements, one death | 3,783,294 | `ColdSnapshot` `RowMatchesVolumes` `SourceServes` |
| `billing` | two events and a retry at once, one with a date of its sender, a writer that rotates the token, a budget that pauses with three thresholds and one with one, one lost alert, the end of a period, one death | 4,787,560 | `NoAlertMissed` `NoAlertRepeated` `BreachPauses` |
| `access` | two administrators and a user to come, two logins to one account with a limit of two, two changes, three enrolments, one command Redis does not answer, four requests | 455,667 | `AdminRemains` `FailuresBounded` `LocksExpire` `EnabledWasVerified` |
| `discovery` | a service and a port with two drafts, two scans, two generations, two decisions, three rows, four calls, one change of the host | 1,373,593 | `OpenAsDrafted` `ScanIsExact` |

The type invariants are not in the runs: they are theorems.

**Why these bounds.** *Two lines* are the fewest that can be lost, repeated or
swapped. *Two runs* are what a lock is about; the third, elsewhere,
competes for ports, and four ports are one for every container that can be up at
once. *One death* is enough because nothing is repaired afterwards: a second one
finds the state a first one can leave. *Two requests* let one be drained while
another arrives; *three deploys* let a proxy be registered by one service while
another is about to. *Three calls* are one that fires, and two that may both be
suppressed into it or both pass it; `r3` names no container, so it finds an event
of `r1` where `r2` finds one of its own. *One tick* separates inside from outside
the cooldown. In `deploy_first` the *second run* is the one that is refused,
cancelled or lost beside the first, at each of its steps; once it is given a port
itself the properties say nothing more, since their condition is over. Nine
*steps that throw* are all that may under the conditions below, but `mark`,
`play` and the watch, which leave nothing to undo. In `deploy_lock` two guarded
steps stand for all of them: `RunsEnd` is about the rows, and each step that
throws goes to the same catch.

*Two volumes and one write* are the fewest for a snapshot of two moments; *two
runs of a plan* meet the volumes of a run before, and the *second plan* starts
and stops the same source. *Two events* cost three and two: the first alone
crosses a threshold exactly, both reach the limit exactly, and a check that sees
one of them disagrees with a check that sees both; the *retry* races its first
attempt. *A limit of two* is the smallest at which a key that has a failure is
still let in and one more caller can pass; *one error* is fewer than the limit,
as `LocksExpire` asks. *Two changes* are what empties the set of two
administrators, and *three enrolments* are a new secret, a verification and one
more between them. *Three rows* hold the two of a port beside the other key, or
one that was superseded and its successors; *one change* of the host makes
something come or go between the scans and generations. *One upload* is what may
be counted out twice, and the other request what is then dropped.

Properties with a condition in them state where the code can keep them.
`PipelinesExclude`, `RecordHasOneActive` and `SwitchesToOwn` hold if nobody but
its pipeline writes the state of a run (`Undisturbed`): cancel, manual and
automatic rollback write it, and then `OnePipeline` is false, as
`Deploy_cancel.cfg` shows. `OneRunningPipeline` has no condition. The header of
`deploy.ts` promises that no request is dropped and that any failure is rolled
back. `FirstDeploys` is where the code keeps that: the play does not get to stop blue
(`Deploy_play.cfg`), nothing throws once blue is removed (`Deploy_late.cfg`),
nobody rolls back by hand or by the watch (`Deploy_rollback.cfg`), no
application is deployed twice (`Deploy_second.cfg`), and a run that may throw in
its drain has a blue to go back to. Its parts are on runs that were given a port
(`Given`), so any number of others may be refused or cancelled meanwhile.
`Alone` adds that one application is behind the proxy (`Deploy_shared.cfg`) and
that the undo gets to re-point it; `FirstDeployRecorded` also needs the catch to
get past its first line. `NoGreenLeft` asks that the docker calls of the undo
work, and that the pipeline does not throw between the `docker run` of the play
and the flag that tells the undo of it (`GreenIsKnown`). `RunsEnd` promises a
final state in the row unless one of the four unguarded statements may fail, and
then allows just that: a run that gave up. `CompleteLog`
and `StreamShowsLog` are about jobs that await their lines. `DrainDropsNone`
allows what the code allows: a drain that ran to its deadline, the removal of
green in a rollback, the removal of a green that serves by the next deploy, and
any of it once a request was counted out twice. `RowMatchesVolumes` and
`SourceServes` are about plans none of whose requests was cut short (`Smooth`),
since nothing resumes one, and except what docker failed to do unnoticed;
`ColdSnapshot` excepts a plan whose stop failed. `NoAlertMissed` holds for any
overlap; `NoAlertRepeated` and `BreachPauses` for writers of the configuration
that did not overlap. What a budget has spent (`SpendOf`) is what was dated up
to the latest check. `AdminRemains`, `EnabledWasVerified`, `OpenAsDrafted` and
`ScanIsExact` are conditional on what their history variables record, and each
condition is needed: section 5 has the counterexample without it (a scan that is
disturbed leaves what the other wrote, by design).

## 5. Where the code and its comments part

Each configuration below ends in a counterexample, which TLC finds within
seconds. They are kept beside the runs; they document behaviour a reader of the
code should know.

| configuration | property | what it shows, and the line it contradicts |
|---|---|---|
| `Jobs_detached` | `EveryLogComplete` | the ansible bridge calls `log` without awaiting it, and two overlapping calls lose a line; `lib/deploy.ts:763` says "full log preserved" |
| `Deploy_second` | `TrafficServed` | after a first deploy the container that serves is the one named green, and the next deploy removes it before the new one exists (`lib/deploy.ts:404`); `lib/proxy.ts:11-14`: "no request is dropped" |
| `Deploy_play` | `TrafficServed` | the play stops blue before the panel switches; `src/ansible/playbooks/deploy/blue_green.yml:15-16`: "the actual atomic upstream swap is the panel's job so the zero-downtime guarantee holds" |
| `Deploy_late` | `RollbackRestores` | when the record of truth throws, blue is gone, and the catch removes green too (`lib/deploy.ts:727`); lines 20-21: "On ANY failure after the green container exists, a REAL rollback re-points the proxy back to blue and stops green" |
| `Deploy_cancel` | `OnePipeline` | cancelling writes the row and nothing tells the job; the next deploy passes the lock and works beside it; `lib/deploy.ts:528`: "Wait for it to finish or cancel it first." |
| `Deploy_rollback` | `RestoredIsServed` | a manual rollback after a finished deploy removes the container that serves and records the former version as active; `lib/deploy.ts:870` announces it as restored |
| `Deploy_watch` | `WatchRollsBackItsOwn` | a watch rolls back a deployment made after the one it watched; `lib/i18n.ts:1344`: "automatically roll back to the previous deployment" |
| `Deploy_noimage` | `DeployCompletes` | without `image`, which the route does not pass, no deploy completes; `lib/deploy.ts:428-430`: "produced by `docker compose build` inside the ansible play" |
| `Deploy_stale` | `PlanIsCurrent` | the plan was compared with a version that is no longer live when it is replaced; `lib/deploy.ts:21-22`: "Destructive DB migrations are NEVER auto-applied." |
| `Deploy_shared` | `EnvironmentsApart` | one listen port for all environments: a deploy to one takes the traffic of another; `api/deploy/run/route.ts:34` gates roles per environment |
| `Migration_rerun` | `CommittedIsKept` | a committed plan may run again, after which a rollback drops its volumes; `lib/migration.ts:435`: "REAL rollback of a NON-committed migration" |
| `Migration_leak` | `RollbackDropsAll` | the volumes of a run that failed are in no restore point and survive the rollback; `lib/migration.ts:468`: "Drop provisioned target volumes" |
| `Migration_hot` | `ColdSnapshot` | if the role works, its last task starts the source before the copy of the panel; `lib/migration.ts:330`: "cold snapshot" |
| `Migration_together` | `ColdSnapshot` | two plans of a service that run at once start each other's source; `lib/migration.ts:95` assumes a "single orchestrator at a time", which nothing enforces |
| `Billing_batch` | `AlwaysPauses` | the events of a batch are recorded at once, and the last check to write may not have seen the breach; `lib/billing.ts:535-536`: "On a 100% breach with actionOnBreach=pause set the honest pause flag" |
| `Billing_period` | `EveryPeriodAlerts` | a period whose first event is large leaves the old threshold in place and is not alerted of; `lib/billing.ts:588`: "clear so future crossings re-alert" |
| `Access_removal` | `AdminAlwaysRemains` | two removals count before either writes; `lib/access.ts:53`: "refuse to delete a user when doing so would remove the last remaining ADMIN" |
| `Access_enrol` | `EnabledIsVerified` | a new secret stored during a verification is enabled without one; `api/access/totp/route.ts:15`: "NOT yet enabled (enabled on verify)" |
| `Discovery_twice` | `AlwaysAsDrafted` | two generations at once propose each key twice; `src/tests/discovery.test.ts:174`: "no duplicate pending for same thing" |
| `Discovery_duplicate` | `OneOpenProposal` | one generation alone creates two rows for a port that Docker lists twice, since the loop at `lib/discovery.ts:829-848` does not add what it creates to what it found; the same line of the test |

Some divergences are in the properties themselves, which state them instead of
denying them:

* the in-flight count leaks on aborted responses, after which every drain runs to
  its deadline, and may fall short after an error that follows an answer, when a
  drain ends with a request in progress (`InflightAccounts`);
* the second deploy of a service removes the green that serves without a drain,
  so its requests are dropped, whatever the header of `proxy.ts` says
  (`DrainDropsNone`, "replaced");
* a run whose `mark`, lock, catch or last statement the database rejects stays
  QUEUED or RUNNING, and bars its environment until it is cancelled (`RunsEnd`);
* after a `docker stop` that failed, a migration copies a source that is still
  written to and reports it completed; after a `volume rm` that failed, the plan
  is "rolled_back" and the volume is there; after a `docker start` that failed the
  source stays down (`ColdSnapshot`, `RowMatchesVolumes`, `SourceServes`);
* an event dated ahead of the panel's clock is outside the check that follows it,
  and if no other event comes after its date its breach has neither alert nor
  pause (`NoAlertMissed`, `BreachPauses`, which speak of the latest check).

## 6. Fairness

Safety runs use `Spec` alone; `ContainerMigration`, `Billing`, `Access` and
`Discovery` promise nothing in time and have no fairness. `FairSpec` adds weak
fairness on

* **BackgroundJobs**: the runner's and logger's awaits, and the end of the work.
  Node runs every callback that is ready, Prisma answers or rejects, and each
  external call a job makes ends or times out. Creating, cancelling and opening
  a stream are not fair: nobody has to.
* **Deploy**: the next step of a pipeline forward or into its catch, of a
  rollback and of a cancel that passed its guard; git, docker, the play, the
  probe (`waitHealthy` has a deadline) and the drain end. For the watch
  only its end: it has a deadline; its checks owe nothing. Nobody has to deploy or roll back.
* **ManagedProxy**: the pipelines. No request is promised an end; drain has its
  deadline.

No action needs strong fairness: nothing a process waits for is taken away from
it again and again.

## 7. What is proved

All obligations of the eight `_proofs` modules are checked by TLAPS, from the
assumptions on the constants (`JobAssumption`, `DeployAssumption`,
`ProxyAssumption`, `AlertsAssumption`, `MigrationAssumption`,
`BillingAssumption`, `AccessAssumption`, `DiscoveryAssumption`), which TLC
evaluates in every run. Each module proves its type invariant (`TypeCorrect`).

**BackgroundJobs_proofs.** `RunnerImplementsLifecycle` (Spec implements
`JobLifecycle`, whatever fails or dies) and `TerminalStateIsFinal`. The state
column alone is not inductive: a step may only be a move of the life cycle if the
row is where the function of the job believes it is. `IInv` says so for each
value of `fiber` ("starting" has a QUEUED row, "working" and "settling" a RUNNING
one, and so on). A job that lost its function never gets one again;
`RunningRowsAreRun` (`RunningRowsHaveRunner`) follows with the registry. For a
job that awaits its lines, `LogInv` relates the lines it has emitted, its one
call in flight and the row: the call has the latest line and read the row as it
still is (`CallInv`), the row is in order (`OrderInv`), and with a database that
answers it has every line but the one in flight (`WholeInv`). From it
`LinesInOrder` (`LogInOrder`) and `LogIsComplete` (`CompleteLog`). The log of
such a job only grows (`LogGrows`), so what a stream has sent stays a prefix of it
(`StreamInv`), which gives `StreamsShowLogs` (`StreamShowsLog`).

**Deploy_proofs.** `LockIsExclusive` (`OneRunningPipeline`),
`PipelineWorksAlone` (`PipelinesExclude`), `RecordIsOfOne`
(`RecordHasOneActive`), `SwitchIsToOwn` (`SwitchesToOwn`),
`RollbackLeavesNoGreen` (`NoGreenLeft`), `FirstDeploysServed`
(`FirstDeploysServe`), `FirstDeployIsRestored` (`FirstDeployRestored`),
`FirstDeployIsRecorded` (`FirstDeployRecorded`), `FirstDeployPromises`
(`FirstDeployIsBlueGreen`), `FirstDeployImplements` and
`FirstDeployKeepsPromise`.

The argument for the lock: the only way into the pipeline is `PassLock` (`LockIsTheDoor`), a run
becomes RUNNING before its lock and never again (`RunningIsMarked`), so when the
later of two passes, the earlier is RUNNING and is seen (`LockExcludes`). For
exclusion, `Quiet` adds that without interference a run that is at the lock or
working *is* RUNNING. For the record, exclusion makes `prev` of the one that
works the row that is active until it is superseded, and nothing active between
`Supersede` and `Record`. For the switch, `GreenInv` says that from its
`docker run` to the removal of blue the green container runs the version of the
run on the port picked for it; exclusion keeps the others of the environment from
touching the name, and a port that is bound is given to nobody.

For `NoGreenLeft`, no container but the green one of its application ever has
the version of a run (`Named`), and a pipeline whose green is up is before the
removal of it, or knows of it and has the removal ahead (`UndoInv`).

That a first deploy drops nothing needs all of the state at once. `FirstInv` has
where a run stands (`PlaceInv`), which rows there are (`RowInv`), that blue runs
on its port until its run removes it and after an undo (`BlueInv`), that green
stands from its start on (`StandsInv`), and that the proxy points at a container
nobody is about to remove (`TargetInv`, with `Kept`: a blue whose run does not
drain it, or a green that was switched to and is not being undone). It speaks of
any number of runs and applications. Its condition is about the state, and
`FirstBefore` shows that where it holds it has always held. With the proxy to
itself, `AloneInv` says of the run that was given a port, by where it is, what
the proxy points at (`Pointed`) and which rows are active (`Rows`), and that no
port has two running containers (`PortsApart`), hence which one version is
served. The refinement follows step by step: `Switch` is `SwitchTo`, a `Repoint`
after a switch is `SwitchBack`, `Supersede` and `Record` are `Supersede` and
`Activate`, `Crash` is `Die`, and every other step leaves the container that is
pointed at alone (`TargetKept`) and with it who is served (`SameServed`).
`FirstDeployIsBlueGreen` states it with the condition inside each step,
`FirstDeployImplements` as an implication between the two specifications, and
`FirstDeployKeepsPromise` draws the consequence: whenever the proxy is up, not
only at rest, it serves one version, the one the record says or the new one
ahead of the record.

**ManagedProxy_proofs.** `CountAccounts` (`InflightAccounts`), for which
`CountInv` adds that nothing is counted without a server; `DrainedDropsNothing`
(`DrainDropsNone`) and `TargetIsNotDrained` (`DrainedIsUnused`). As long as no
request was counted out twice, a drain that ends with zero means no request in
progress at all (`DrainedMeansNone`); what arrives afterwards goes to the target.
`PipelineInv` gives one active pipeline per service, `TargetInv` that the target
is never the blue of a pipeline that has switched, `RequestInv` that none in
progress is with a container about to be removed after a completed drain.
`PortHasOneServer` (`OneProxy`): whoever listens before the registry knows is
the one pipeline that is starting (`StartInv`).

**Alerts_proofs.** `DeliveredWasAccepted` (`DeliveredIsReal`);
`NoChannelLeftOut` (`AllChannelsServed`), by an invariant that every wanted
channel has a row or is still in the loop; `DeliveredOnce` (`DeliveredIsFinal`),
for at most one flush: `FinalInv` says what the rows are that a loop still
has before it or is delivering: of a raise its own, not yet queued; of the flush
queued ones, each once. So none of them is a delivered row. With two flushes at
once that is false. `SuppressedAreCounted` (`SuppressionAccounts`) by
`AccountInv`: the count of an event is the cardinality of the set of calls that
were suppressed into it.

**ContainerMigration_proofs.** All three with every failure the code ignores.
`SnapshotIsCold` (`ColdSnapshot`), for one request at a time (`OneAtATime`) and an
ansible attempt that fails (`~RoleWorks`): requests take turns (`Turns`), and
`ColdInv` has that the source of a run past a stop that worked is down, so that
what it has copied is what the source still holds. `SourceIsUp` (`SourceServes`),
with no assumption on turns: whoever took the source down is on his way to start
it (`SourceInv`). `RowTellsVolumes` (`RowMatchesVolumes`), for one request at a
time: `RowInv` says where target volumes may be at each step, in the restore
point, kept by a rollback, or copied by the run under way.

**Billing_proofs.** `NoThresholdMissed` (`NoAlertMissed`), for any
interleaving. Marks only rise over thresholds that were told of or are due
(`KnownInv`), whoever holds a copy of them; and the last check to have begun
sees every event that is dated up to its "now", so each threshold reached is told
of or still before a check that counts them all (`CoverInv`). What is counted
only grows within a period, whatever dates come (`Dated`, `CountedGrows`).
`NoThresholdTwice` (`NoAlertRepeated`) and
`BreachesPause` (`BreachPauses`), as long as no two writers of the configuration
overlapped and none was cut short, from `CalmInv`: one is inside at a time
(`OneInside`), what it works with is what there is (`Fresh`), an alerted
threshold is at or below the mark that counts (`Once`), and a breach is in the
flag, in its copy, or in a budget still to be checked (`Paused`).

**Access_proofs.** `LastAdminRemains` (`AdminRemains`): as long as removals do
not overlap, one that is about to write has another administrator to leave
(`AdminInv`). `FailuresStayBounded` (`FailuresBounded`) counts: what was answered,
the callers in flight and one more never exceed the limit, all callers and the
errors (`LimitInv`). `LocksDoExpire` (`LocksExpire`): a key without a time to live
has no more failures than errors and callers about to set it (`LockInv`).
`FactorWasVerified` (`EnabledWasVerified`): what a request is about to enable is
verified unless its user's requests overlapped or the user is gone
(`FactorInv`).

**Discovery_proofs.** `ScansAreExact` (`ScanIsExact`): `ScanInv` says what a
scan that nobody disturbed has written and found. `ProposalsAreUnique`
(`OpenAsDrafted`), by an injection: each draft of a list has at most one open
row (`Unique`), so a key has no more of them than drafts. That alone is not
inductive, because a generation creates from rows it read before. `PropInv` adds
that one generation is under way at a time, that a draft it has still to look at
is open only in a row it found (`Covered`), and that a decision has the one open
row of its draft (`Alone`, `Apart`), open while a generation is under way
(`Live`).

## 8. Only model-checked, and not modelled

Not proved: the liveness properties (`JobsFinish`, `StreamsFinish`, `RunsEnd`,
`DeployCompletes`, `WatchesEnd`, `PipelinesEnd`), which the proof system does not
reach under fairness. Every invariant and every action property of a run is a
theorem. `TrafficServed`, `RecordMatchesTraffic` and `RollbackRestores` without a
condition are no properties of this code (section 5): what is checked and proved
of them is what first deploys keep.

Not modelled inside the modelled parts: formatting of lines, titles and
payloads; what a plan contains; the nginx and traefik modes of the proxy, which
only log; the commands of the plays beyond start and stop; time, except as
deadlines that may strike at any moment and the ticks of a cooldown; more than
one call of `rollback` for a run; alert events' acknowledgement, snoozing and
ownership; the editing of rules and channels; the evaluation of log rules; the
computation of a cost from tokens and price periods, the reconciliation with a
provider and the reports of billing; the arithmetic of one-time codes and
password hashes; the parsing of `ss`, nginx and docker output.

Most lines of the repository are in none of the modules, and most of those are
pages, forms, translations and read-only views that keep no state between two
steps: they have no behaviour over time to model. The parts with such behaviour
that are left out are named in section 1 with the reason.

## 9. Plan

What is left, in order of what it would add:

1. **Compositions.** `Deploy` over `BackgroundJobs` (the pipeline as the work of
   a job, for the states of both rows after a failure), and `Billing` over
   `Alerts` (whether a threshold that was raised becomes an event).
2. **Alerts**: acknowledgement and snoozing, which decide what a suppressed call
   is counted into.
3. **TaskRecords** for `lib/celery.ts`, if the order in which the worker reports
   can be learnt: without it any order is possible and nothing holds.
4. **Deploy with the deployment routes**: their transactions beside the
   pipeline's four statements.

## 10. Running it

```
tlc -workers 2 -config Deploy_lock.cfg MCDeploy
tlapm Deploy_proofs.tla
```

`Jobs_*.cfg` belong to `MCBackgroundJobs`, `Deploy_*.cfg` to `MCDeploy`,
`Proxy.cfg` to `MCManagedProxy`, `Alerts.cfg` to `MCAlerts`, `Migration*.cfg` to
`MCContainerMigration`, `Billing*.cfg` to `MCBilling`, `Access*.cfg` to
`MCAccess`, `Discovery*.cfg` to `MCDiscovery`. The longest runs take about two
minutes with two workers; the proofs, ten to twenty in all.
