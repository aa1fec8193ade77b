------------------------------- MODULE Alerts -------------------------------
(***************************************************************************)
(* src/lib/alerts.ts: raiseAlert with the cooldown of its rule, the        *)
(* delivery of an event to every channel that wants it, and flushQueued.   *)
(* Calls are identified with the event they may create; what a channel     *)
(* answers, and whether the database does, is nondeterministic.            *)
(***************************************************************************)
EXTENDS Naturals, Sequences, FiniteSets, Functions

CONSTANTS
  Raise,      \* calls of raiseAlert, by log lines, deploys and the API
  Flush,      \* callers of POST /api/alerts/flush
  Rule,       \* AlertRule rows
  Channel,    \* AlertChannel rows that are enabled
  RuleOf,     \* [Raise -> Rule or None]: input.ruleId
  Container,  \* [Raise -> a name or None]: input.containerName
  Wanted,     \* [Raise -> SUBSET Channel]: whose minSeverity lets it through
  Deletable,  \* channels an administrator may delete
  None,
  Cooldown,   \* cooldownSec of the rules, in ticks
  Faulty,     \* subset of {"db", "lost"}: writes that are rejected, answers
              \* of a channel that are lost on the way
  MaxTime,    \* bound: ticks of the clock
  MaxCrashes  \* bound: deaths of the panel's process

ASSUME AlertsAssumption ==
  /\ Raise \cap Flush = {}
  /\ RuleOf \in [Raise -> Rule \cup {None}]
  /\ None \notin Rule \cup Raise
  /\ DOMAIN Container = Raise
  /\ Wanted \in [Raise -> SUBSET Channel]
  /\ Deletable \subseteq Channel
  /\ {Cooldown, MaxTime, MaxCrashes} \subseteq Nat

Fiber    == Raise \cup Flush
Delivery == Raise \X Channel

VARIABLES
  now,         \* Date.now()
  lastFired,   \* [Rule -> time or None]: lastFiredAt
  events,      \* AlertEvent rows, by the call that created them, oldest first
  suppressed,  \* [Raise -> Nat]: suppressedCount of its event
  channels,    \* rows that exist
  status,      \* [Delivery -> Status]
  accepted,    \* deliveries the channel took (a real 2xx, seen or not)
  pc,          \* [Fiber -> Step]
  recent,      \* [Raise -> Raise or None]: the event it found in cooldown
  todo,        \* [Fiber -> set of deliveries]: the loop it is in
  at,          \* [Fiber -> Delivery or None]: argument of deliver
  crashes      \* deaths of the process so far

ruleVars  == <<lastFired, events, suppressed>>
rowVars   == <<channels, status, accepted>>
loopVars  == <<todo, at>>
vars == <<now, ruleVars, rowVars, pc, recent, loopVars, crashes>>

\* "gone": its channel was deleted, and the row with it.
Status == {"none", "pending", "queued", "delivered", "gone"}
Step   == {"idle", "silenced", "bump", "create", "fire", "route", "next",
           "deliver", "send", "record", "requeue", "suppressed", "done",
           "failed", "lost"}
Ended  == {"suppressed", "done", "failed", "lost"}
Time   == 0..MaxTime

TypeOK ==
  /\ now \in Time
  /\ lastFired \in [Rule -> Time \cup {None}]
  /\ events \in Seq(Raise)
  /\ suppressed \in [Raise -> Nat]
  /\ channels \subseteq Channel
  /\ status \in [Delivery -> Status]
  /\ accepted \subseteq Delivery
  /\ pc \in [Fiber -> Step]
  /\ recent \in [Raise -> Raise \cup {None}]
  /\ todo \in [Fiber -> SUBSET Delivery]
  /\ at \in [Fiber -> Delivery \cup {None}]
  /\ crashes \in 0..MaxCrashes

Init ==
  /\ now = 0
  /\ lastFired = [u \in Rule |-> None]
  /\ events = <<>>
  /\ suppressed = [r \in Raise |-> 0]
  /\ channels = Channel
  /\ status = [d \in Delivery |-> "none"]
  /\ accepted = {}
  /\ pc = [f \in Fiber |-> "idle"]
  /\ recent = [r \in Raise |-> None]
  /\ todo = [f \in Fiber |-> {}]
  /\ at = [f \in Fiber |-> None]
  /\ crashes = 0

Goes(f, from, to) ==
  /\ pc[f] = from
  /\ pc' = [pc EXCEPT ![f] = to]

-----------------------------------------------------------------------------
(* raiseAlert up to its event                                              *)

InCooldown(u) ==
  /\ u # None
  /\ lastFired[u] # None
  /\ now - lastFired[u] < Cooldown

\* The rule is read and its cooldown compared with the clock.
ReadRule(r) ==
  /\ Goes(r, "idle", IF InCooldown(RuleOf[r]) THEN "silenced" ELSE "create")
  /\ UNCHANGED <<now, ruleVars, rowVars, recent, loopVars, crashes>>

\* The events findFirst looks at: those of the rule, and of the container if
\* the call names one.
Similar(r, e) ==
  /\ RuleOf[e] = RuleOf[r]
  /\ Container[r] # None => Container[e] = Container[r]

\* The most recent one is to be counted up; without one the call goes on as
\* if there were no cooldown.
FindRecent(r) ==
  LET found == {i \in DOMAIN events : Similar(r, events[i])}
  IN  /\ \/ /\ found = {}
            /\ Goes(r, "silenced", "create")
            /\ UNCHANGED recent
         \/ \E last \in found :
              /\ \A i \in found : i <= last
              /\ Goes(r, "silenced", "bump")
              /\ recent' = [recent EXCEPT ![r] = events[last]]
      /\ UNCHANGED <<now, ruleVars, rowVars, loopVars, crashes>>

\* Mutant: the count is set, not incremented.
BumpToOne(r) ==
  /\ Goes(r, "bump", "suppressed")
  /\ suppressed' = [suppressed EXCEPT ![recent[r]] = 1]
  /\ UNCHANGED <<now, lastFired, events, rowVars, recent, loopVars, crashes>>

Bump(r) ==
  /\ Goes(r, "bump", "suppressed")
  /\ suppressed' = [suppressed EXCEPT ![recent[r]] = @ + 1]
  /\ UNCHANGED <<now, lastFired, events, rowVars, recent, loopVars, crashes>>

CreateEvent(r) ==
  /\ Goes(r, "create", IF RuleOf[r] = None THEN "route" ELSE "fire")
  /\ events' = Append(events, r)
  /\ UNCHANGED <<now, lastFired, suppressed, rowVars, recent, loopVars,
                 crashes>>

Fire(r) ==
  /\ Goes(r, "fire", "route")
  /\ lastFired' = [lastFired EXCEPT ![RuleOf[r]] = now]
  /\ UNCHANGED <<now, events, suppressed, rowVars, recent, loopVars, crashes>>

\* A statement of raiseAlert that is rejected rejects the call.
RaiseRejected(r) ==
  /\ "db" \in Faulty
  /\ \E s \in {"idle", "silenced", "bump", "create", "fire", "route"} :
       Goes(r, s, "failed")
  /\ UNCHANGED <<now, ruleVars, rowVars, recent, loopVars, crashes>>

-----------------------------------------------------------------------------
(* The two loops that call deliver                                         *)

Route(r) ==
  /\ Goes(r, "route", "next")
  /\ todo' = [todo EXCEPT ![r] = {r} \X (Wanted[r] \cap channels)]
  /\ UNCHANGED <<now, ruleVars, rowVars, recent, at, crashes>>

\* Mutant: what is pending is retried too.
ReadUndelivered(f) ==
  /\ Goes(f, "idle", "next")
  /\ todo' = [todo EXCEPT
               ![f] = {d \in Delivery : status[d] \in {"pending", "queued"}}]
  /\ UNCHANGED <<now, ruleVars, rowVars, recent, at, crashes>>

ReadQueued(f) ==
  /\ Goes(f, "idle", "next")
  /\ todo' = [todo EXCEPT ![f] = {d \in Delivery : status[d] = "queued"}]
  /\ UNCHANGED <<now, ruleVars, rowVars, recent, at, crashes>>

CreateDelivery(r) ==
  \E d \in todo[r] :
    /\ d[2] \in channels
    /\ Goes(r, "next", "deliver")
    /\ status' = [status EXCEPT ![d] = "pending"]
    /\ todo' = [todo EXCEPT ![r] = @ \ {d}]
    /\ at' = [at EXCEPT ![r] = d]
    /\ UNCHANGED <<now, ruleVars, channels, accepted, recent, crashes>>

\* That rejects if the channel is gone by then, which ends the whole call.
CreateRejected(r) ==
  /\ \E d \in todo[r] : d[2] \notin channels \/ "db" \in Faulty
  /\ Goes(r, "next", "failed")
  /\ UNCHANGED <<now, ruleVars, rowVars, recent, loopVars, crashes>>

NextQueued(f) ==
  \E d \in todo[f] :
    /\ Goes(f, "next", "deliver")
    /\ todo' = [todo EXCEPT ![f] = @ \ {d}]
    /\ at' = [at EXCEPT ![f] = d]
    /\ UNCHANGED <<now, ruleVars, rowVars, recent, crashes>>

LoopEnds(f) ==
  /\ todo[f] = {}
  /\ Goes(f, "next", IF f \in Flush THEN "idle" ELSE "done")
  /\ UNCHANGED <<now, ruleVars, rowVars, recent, loopVars, crashes>>

-----------------------------------------------------------------------------
(* deliver                                                                 *)

Returns(f, from) ==
  /\ Goes(f, from, "next")
  /\ at' = [at EXCEPT ![f] = None]

LookUp(f) ==
  /\ \/ /\ Goes(f, "deliver", "send")
        /\ status[at[f]] \in {"pending", "queued"}
        /\ UNCHANGED at
     \/ /\ Returns(f, "deliver")
        /\ status[at[f]] \in {"gone", "delivered"}
  /\ UNCHANGED <<now, ruleVars, rowVars, recent, todo, crashes>>

\* What deliver cannot read, its caller swallows.
LookUpRejected(f) ==
  /\ "db" \in Faulty
  /\ Returns(f, "deliver")
  /\ UNCHANGED <<now, ruleVars, rowVars, recent, todo, crashes>>

\* The channel takes the message and says so ...
Sent(f) ==
  /\ Goes(f, "send", "record")
  /\ accepted' = accepted \cup {at[f]}
  /\ UNCHANGED <<now, ruleVars, channels, status, recent, loopVars, crashes>>

\* Mutant: whatever it answered counts as delivered.
NotSentIgnored(f) ==
  /\ Goes(f, "send", "record")
  /\ UNCHANGED <<now, ruleVars, rowVars, recent, loopVars, crashes>>

\* ... or it does not, or its answer is lost.
NotSent(f) ==
  /\ Goes(f, "send", "requeue")
  /\ \/ UNCHANGED accepted
     \/ /\ "lost" \in Faulty
        /\ accepted' = accepted \cup {at[f]}
  /\ UNCHANGED <<now, ruleVars, channels, status, recent, loopVars, crashes>>

RecordDelivered(f) ==
  /\ Returns(f, "record")
  /\ status[at[f]] # "gone"
  /\ status' = [status EXCEPT ![at[f]] = "delivered"]
  /\ UNCHANGED <<now, ruleVars, channels, accepted, recent, todo, crashes>>

\* A rejected update lands in the catch, which queues the delivery again.
RecordRejected(f) ==
  /\ Goes(f, "record", "requeue")
  /\ status[at[f]] = "gone" \/ "db" \in Faulty
  /\ UNCHANGED <<now, ruleVars, rowVars, recent, loopVars, crashes>>

\* Mutant: the first failure ends the loop.
RequeueReturns(f) ==
  /\ Goes(f, "requeue", IF f \in Flush THEN "idle" ELSE "done")
  /\ status[at[f]] # "gone"
  /\ status' = [status EXCEPT ![at[f]] = "queued"]
  /\ UNCHANGED <<now, ruleVars, channels, accepted, recent, loopVars,
                 crashes>>

Requeue(f) ==
  /\ Returns(f, "requeue")
  /\ status[at[f]] # "gone"
  /\ status' = [status EXCEPT ![at[f]] = "queued"]
  /\ UNCHANGED <<now, ruleVars, channels, accepted, recent, todo, crashes>>

\* So is what fail cannot write.
RequeueRejected(f) ==
  /\ Returns(f, "requeue")
  /\ status[at[f]] = "gone" \/ "db" \in Faulty
  /\ UNCHANGED <<now, ruleVars, rowVars, recent, todo, crashes>>

-----------------------------------------------------------------------------
(* Everything else                                                         *)

Tick ==
  /\ now < MaxTime
  /\ now' = now + 1
  /\ UNCHANGED <<ruleVars, rowVars, pc, recent, loopVars, crashes>>

DeleteChannel(c) ==
  /\ c \in channels \cap Deletable
  /\ channels' = channels \ {c}
  /\ status' = [d \in Delivery |->
                 IF d[2] = c /\ status[d] # "none" THEN "gone" ELSE status[d]]
  /\ UNCHANGED <<now, ruleVars, accepted, pc, recent, loopVars, crashes>>

Crash ==
  /\ crashes < MaxCrashes
  /\ crashes' = crashes + 1
  /\ pc' = [f \in Fiber |->
             IF f \in Flush \/ pc[f] = "idle" THEN "idle"
             ELSE IF pc[f] \in Ended THEN pc[f] ELSE "lost"]
  /\ todo' = [f \in Fiber |-> {}]
  /\ at' = [f \in Fiber |-> None]
  /\ UNCHANGED <<now, ruleVars, rowVars, recent>>

Deliver(f) ==
  \/ LookUp(f) \/ LookUpRejected(f) \/ Sent(f) \/ NotSent(f)
  \/ RecordDelivered(f) \/ RecordRejected(f)
  \/ Requeue(f) \/ RequeueRejected(f) \/ LoopEnds(f)

Raising(r) ==
  \/ ReadRule(r) \/ FindRecent(r) \/ Bump(r) \/ CreateEvent(r) \/ Fire(r)
  \/ RaiseRejected(r) \/ Route(r) \/ CreateDelivery(r) \/ CreateRejected(r)
  \/ Deliver(r)

Flushing(f) == ReadQueued(f) \/ NextQueued(f) \/ Deliver(f)

Next ==
  \/ \E r \in Raise : Raising(r)
  \/ \E f \in Flush : Flushing(f)
  \/ \E c \in Channel : DeleteChannel(c)
  \/ Tick
  \/ Crash

Spec == Init /\ [][Next]_vars

-----------------------------------------------------------------------------
(* Properties                                                              *)

\* "NEVER marks delivered without a real 2xx."
DeliveredIsReal ==
  \A d \in Delivery : status[d] = "delivered" => d \in accepted

\* What was delivered stays so, as long as flushes do not overlap.
DeliveredIsFinal ==
  [][\A d \in Delivery :
       status[d] = "delivered" => status'[d] \in {"delivered", "gone"}]_vars

\* "Real suppression accounting": an event counts the calls that were
\* suppressed into it, however they interleave.
SuppressionAccounts ==
  \A e \in Raise :
    suppressed[e] =
      Cardinality({r \in Raise : pc[r] = "suppressed" /\ recent[r] = e})

\* A channel that fails keeps no other channel from its delivery: a call that
\* returned left none out.
AllChannelsServed ==
  \A r \in Raise : pc[r] = "done" =>
    \A c \in Wanted[r] \cap channels : status[<<r, c>>] # "none"
=============================================================================
