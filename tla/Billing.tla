------------------------------ MODULE Billing ------------------------------
(***************************************************************************)
(* src/lib/billing.ts: the ingestion of usage events of one provider, the  *)
(* check of its budgets after each, and the configuration of billing, one  *)
(* row that every writer reads and writes as a whole.  Amounts are what    *)
(* matters of events; a threshold is the amount at which it is crossed.    *)
(***************************************************************************)
EXTENDS Naturals, FiniteSets

CONSTANTS
  Gen,        \* generationIds
  Ingest,     \* calls of recordEvent
  GenOf,      \* [Ingest -> Gen]: a retry has the id of its first attempt
  Stamped,    \* events that come with a requestAt; the others get the clock's
  Writer,     \* other requests that write the configuration
  Rotating,   \* those that replace the ingest token; the others poll a balance
  Budget,     \* enabled BillingBudget rows of the provider, one per period
  Threshold,  \* [Budget -> sets of amounts]
  Limit,      \* [Budget -> amount]
  Pausing,    \* budgets whose actionOnBreach is "pause"
  Spend,      \* [SUBSET Gen -> amount]: what a set of events costs
  Faulty,     \* whether another statement of checkBudgets may be rejected
  OldToken,   \* the ingest token there is at the start
  MaxLost,    \* bound: alerts that raiseAlert rejects
  MaxRolls,   \* bound: periods that end
  MaxCrashes  \* bound: deaths of the panel's process

Fiber == Ingest \cup Writer

ASSUME BillingAssumption ==
  /\ GenOf \in [Ingest -> Gen] /\ Stamped \subseteq Gen
  /\ Ingest \cap Writer = {} /\ Rotating \subseteq Writer
  /\ Threshold \in [Budget -> SUBSET (Nat \ {0})]
  /\ Limit \in [Budget -> Nat \ {0}]
  /\ \A b \in Budget : IsFiniteSet(Threshold[b])
  /\ Pausing \subseteq Budget
  /\ Spend \in [SUBSET Gen -> Nat] /\ Spend[{}] = 0
  /\ \A S \in SUBSET Gen : \A T \in SUBSET S : Spend[T] <= Spend[S]
  /\ Faulty \in BOOLEAN
  /\ OldToken \notin Writer
  /\ {MaxLost, MaxRolls, MaxCrashes} \subseteq Nat

VARIABLES
  recorded,    \* BillingEvent rows, by their generationId
  past,        \* [Budget -> events dated before its current period]
  ahead,       \* events dated after the "now" of their own check
  future,      \* those of them whose date has not come
  alerts,      \* [Budget -> [Threshold -> alerts raised in its period]]
  config,      \* the setting "billing"
  pc,          \* [Fiber -> Step]
  base,        \* [Ingest -> events dated up to the "now" of its check]
  view,        \* [Ingest -> crossed and paused as its check has them]
  todo,        \* [Ingest -> budgets its check has to visit]
  due,         \* [Ingest -> thresholds of a budget it has to alert of]
  dirty,       \* [Ingest -> whether it has something to write]
  cur,         \* [Fiber -> configuration it read in order to write it]
  lost,        \* history: alerts that raiseAlert was asked for and rejected
  overlapped,  \* history: two writers of the configuration overlapped
  counted,     \* history: events dated up to the "now" of the latest check
  rolls,
  crashes

rowVars   == <<recorded, past, ahead, future, alerts>>
localVars == <<base, view, todo, due, dirty, cur>>
history   == <<lost, overlapped, counted>>
counters  == <<rolls, crashes>>
vars == <<rowVars, config, pc, localVars, history, counters>>

Amount == {0} \cup UNION {Threshold[b] : b \in Budget}
Marks  == [crossed : [Budget -> Amount], paused : BOOLEAN]
Config == [crossed : [Budget -> Amount], paused : BOOLEAN,
           token : Writer \cup {OldToken}]
Default == [crossed |-> [b \in Budget |-> 0], paused |-> FALSE,
            token |-> OldToken]

\* A check or a write of the configuration is under way ...
Inside == {"read", "check", "patch", "write"}
\* ... and the whole of a call.
Active == Inside \cup {"create"}
Step   == Active \cup {"idle", "done", "failed"}
Nothing == [crossed |-> Default.crossed, paused |-> FALSE]

TypeOK ==
  /\ recorded \subseteq Gen
  /\ past \in [Budget -> SUBSET Gen]
  /\ ahead \subseteq Gen /\ future \subseteq Gen /\ counted \subseteq Gen
  /\ alerts \in [Budget -> [Amount -> Nat]]
  /\ config \in Config
  /\ pc \in [Fiber -> Step]
  /\ base \in [Ingest -> SUBSET Gen]
  /\ view \in [Ingest -> Marks]
  /\ todo \in [Ingest -> SUBSET Budget]
  /\ due \in [Ingest -> SUBSET (Budget \X Amount)]
  /\ dirty \in [Ingest -> BOOLEAN]
  /\ cur \in [Fiber -> Config]
  /\ lost \subseteq Budget \X Amount
  /\ overlapped \in BOOLEAN
  /\ rolls \in 0..MaxRolls
  /\ crashes \in 0..MaxCrashes

Init ==
  /\ recorded = {}
  /\ past = [b \in Budget |-> {}]
  /\ ahead = {} /\ future = {} /\ counted = {}
  /\ alerts = [b \in Budget |-> [t \in Amount |-> 0]]
  /\ config = Default
  /\ pc = [f \in Fiber |-> "idle"]
  /\ base = [c \in Ingest |-> {}]
  /\ view = [c \in Ingest |-> Nothing]
  /\ todo = [c \in Ingest |-> {}]
  /\ due = [c \in Ingest |-> {}]
  /\ dirty = [c \in Ingest |-> FALSE]
  /\ cur = [f \in Fiber |-> Default]
  /\ lost = {}
  /\ overlapped = FALSE
  /\ rolls = 0
  /\ crashes = 0

Goes(f, from, to) ==
  /\ pc[f] = from
  /\ pc' = [pc EXCEPT ![f] = to]

\* f begins what ends in a write.
Enters(f) ==
  overlapped' = (overlapped \/ \E g \in Fiber \ {f} : pc[g] \in Inside)

-----------------------------------------------------------------------------
(* recordEvent                                                             *)

FindEvent(c) ==
  /\ Goes(c, "idle", IF GenOf[c] \in recorded THEN "done" ELSE "create")
  /\ UNCHANGED <<rowVars, config, localVars, history, counters>>

\* The second of two that race finds the row of the first (P2002).
CreateTwice(c) ==
  /\ GenOf[c] \in recorded
  /\ Goes(c, "create", "done")
  /\ UNCHANGED <<rowVars, config, localVars, history, counters>>

\* requestAt is what the sender says: a date ahead of the clock, one before
\* the current period of some budgets, or one in between.
Dates(g) ==
  \/ /\ g \in Stamped
     /\ ahead' = ahead \cup {g}
     /\ future' = future \cup {g}
     /\ UNCHANGED past
  \/ /\ \E B \in SUBSET Budget :
          /\ B # {} => g \in Stamped
          /\ past' = [b \in Budget |-> past[b] \cup {x \in {g} : b \in B}]
     /\ UNCHANGED <<ahead, future>>

\* The first goes on to checkBudgets, whose "now" is here.
CreateEvent(c) ==
  /\ GenOf[c] \notin recorded
  /\ Goes(c, "create", "read")
  /\ recorded' = recorded \cup {GenOf[c]}
  /\ Dates(GenOf[c])
  /\ counted' = recorded' \ future'
  /\ base' = [base EXCEPT ![c] = counted']
  /\ Enters(c)
  /\ UNCHANGED <<alerts, config, view, todo, due, dirty, cur, lost, counters>>

\* The date of an event comes.
DateComes(g) ==
  /\ g \in future
  /\ future' = future \ {g}
  /\ UNCHANGED <<recorded, past, ahead, alerts, config, pc, localVars, history,
                 counters>>

-----------------------------------------------------------------------------
(* checkBudgets                                                            *)

ReadConfig(c) ==
  /\ Goes(c, "read", "check")
  /\ view' = [view EXCEPT ![c] = [crossed |-> config.crossed,
                                  paused |-> config.paused]]
  /\ todo' = [todo EXCEPT ![c] = Budget]
  /\ UNCHANGED <<rowVars, config, base, due, dirty, cur, history, counters>>

\* The events of the period with requestAt up to "now": those recorded by then,
\* and any that were sent before and recorded since.  One dated ahead of a
\* "now" is in no sum of its check.
Seen(c, b) ==
  {S \in SUBSET ((base[c] \cup (recorded \ ahead)) \ past[b]) :
     base[c] \ past[b] \subseteq S}

\* Mutant: the comparison with the last threshold is off by one.
NewlyCrossedOrSame(b, last, spend) ==
  {t \in Threshold[b] : last <= t /\ t <= spend}

\* Mutant: a threshold counts once it is exceeded.
NewlyExceeded(b, last, spend) == {t \in Threshold[b] : last < t /\ t < spend}

\* Thresholds that spend has reached since the last that was recorded.
NewlyCrossed(b, last, spend) == {t \in Threshold[b] : last < t /\ t <= spend}

\* The threshold to record for b: the highest that is reached, zero once the
\* spend is below all of them, or what it was.
CrossedBy(b, last, spend, h) ==
  LET new == NewlyCrossed(b, last, spend)
  IN  \/ h \in new /\ \A t \in new : t <= h
      \/ /\ new = {}
         /\ h = IF \A t \in Threshold[b] : spend < t THEN 0 ELSE last

\* Mutant: the flag is set only when the limit is exceeded.
BreachedByMore(b, spend) == b \in Pausing /\ Limit[b] < spend

Breached(b, spend) == b \in Pausing /\ Limit[b] <= spend

\* One budget of the loop: its spend is summed and compared.
CheckBudget(c) ==
  /\ Goes(c, "check", "check")
  /\ due[c] = {}
  /\ \E b \in todo[c] : \E S \in Seen(c, b), h \in Amount :
       LET last   == view[c].crossed[b]
           paused == view[c].paused \/ Breached(b, Spend[S])
       IN  /\ CrossedBy(b, last, Spend[S], h)
           /\ due' = [due EXCEPT ![c] = {b} \X NewlyCrossed(b, last, Spend[S])]
           /\ view' = [view EXCEPT ![c] =
                          [crossed |-> [@.crossed EXCEPT ![b] = h],
                           paused |-> paused]]
           /\ dirty' = [dirty EXCEPT ![c] = @ \/ h # last
                                              \/ paused # view[c].paused]
           /\ todo' = [todo EXCEPT ![c] = @ \ {b}]
  /\ UNCHANGED <<rowVars, config, base, cur, history, counters>>

RaiseAlert(c) ==
  /\ Goes(c, "check", "check")
  /\ \E d \in due[c] :
       /\ alerts' = [alerts EXCEPT ![d[1]][d[2]] = @ + 1]
       /\ due' = [due EXCEPT ![c] = @ \ {d}]
  /\ UNCHANGED <<recorded, past, ahead, future, config, base, view, todo,
                 dirty, cur, history, counters>>

\* raiseAlert(...).catch(() => {})
AlertRejected(c) ==
  /\ Cardinality(lost) < MaxLost
  /\ Goes(c, "check", "check")
  /\ \E d \in due[c] :
       /\ lost' = lost \cup {d}
       /\ due' = [due EXCEPT ![c] = @ \ {d}]
  /\ UNCHANGED <<rowVars, config, base, view, todo, dirty, cur, overlapped,
                 counted, counters>>

\* What a check held is gone when it ends.
Forgets(C) ==
  /\ base' = [c \in Ingest |-> IF c \in C THEN {} ELSE base[c]]
  /\ view' = [c \in Ingest |-> IF c \in C THEN Nothing ELSE view[c]]
  /\ todo' = [c \in Ingest |-> IF c \in C THEN {} ELSE todo[c]]
  /\ due' = [c \in Ingest |-> IF c \in C THEN {} ELSE due[c]]
  /\ dirty' = [c \in Ingest |-> dirty[c] /\ c \notin C]

LoopEnds(c) ==
  /\ due[c] = {} /\ todo[c] = {} /\ dirty[c]
  /\ Goes(c, "check", "patch")
  /\ UNCHANGED <<rowVars, config, localVars, history, counters>>

NothingToWrite(c) ==
  /\ due[c] = {} /\ todo[c] = {} /\ ~dirty[c]
  /\ Goes(c, "check", "done")
  /\ Forgets({c})
  /\ UNCHANGED <<rowVars, config, cur, history, counters>>

\* patchBillingConfig reads the row again ...
PatchRead(c) ==
  /\ Goes(c, "patch", "write")
  /\ cur' = [cur EXCEPT ![c] = config]
  /\ UNCHANGED <<rowVars, config, base, view, todo, due, dirty, history,
                 counters>>

\* ... and writes all of it, with the two maps as the check left them.
PatchWrite(c) ==
  /\ Goes(c, "write", "done")
  /\ config' = [cur[c] EXCEPT !.crossed = view[c].crossed,
                              !.paused = view[c].paused]
  /\ cur' = [cur EXCEPT ![c] = Default]
  /\ Forgets({c})
  /\ UNCHANGED <<rowVars, history, counters>>

\* recordEvent swallows what fails in the check.
CheckFails(c) ==
  /\ Faulty
  /\ \E s \in Inside : Goes(c, s, "failed")
  /\ cur' = [cur EXCEPT ![c] = Default]
  /\ Forgets({c})
  /\ UNCHANGED <<rowVars, config, history, counters>>

-----------------------------------------------------------------------------
(* Other writers of the configuration                                      *)

\* PUT /api/billing/config and the poll of a balance.
ReadForWrite(w) ==
  /\ Goes(w, "idle", "write")
  /\ Enters(w)
  /\ cur' = [cur EXCEPT ![w] = config]
  /\ UNCHANGED <<rowVars, config, base, view, todo, due, dirty, lost, counted,
                 counters>>

WriteBack(w) ==
  /\ Goes(w, "write", "done")
  /\ config' = [cur[w] EXCEPT !.token = IF w \in Rotating THEN w ELSE @]
  /\ cur' = [cur EXCEPT ![w] = Default]
  /\ UNCHANGED <<rowVars, base, view, todo, due, dirty, history, counters>>

-----------------------------------------------------------------------------
(* Everything else                                                         *)

Quiet == \A f \in Fiber : pc[f] \notin Active

\* A period ends, between two calls.
Roll(b) ==
  /\ Quiet
  /\ rolls < MaxRolls
  /\ rolls' = rolls + 1
  /\ past' = [past EXCEPT ![b] = recorded \ future]
  /\ alerts' = [alerts EXCEPT ![b] = [t \in Amount |-> 0]]
  /\ UNCHANGED <<recorded, ahead, future, config, pc, localVars, history,
                 crashes>>

Crash ==
  /\ crashes < MaxCrashes
  /\ crashes' = crashes + 1
  /\ pc' = [f \in Fiber |-> IF pc[f] \in Active THEN "failed" ELSE pc[f]]
  /\ cur' = [f \in Fiber |-> Default]
  /\ Forgets(Ingest)
  /\ UNCHANGED <<rowVars, config, history, rolls>>

CheckBudgets(c) ==
  \/ ReadConfig(c) \/ CheckBudget(c) \/ RaiseAlert(c) \/ AlertRejected(c)
  \/ LoopEnds(c) \/ NothingToWrite(c)
  \/ PatchRead(c) \/ PatchWrite(c) \/ CheckFails(c)

Next ==
  \/ \E c \in Ingest : FindEvent(c) \/ CreateTwice(c) \/ CreateEvent(c)
                     \/ CheckBudgets(c)
  \/ \E w \in Writer : ReadForWrite(w) \/ WriteBack(w)
  \/ \E g \in Gen : DateComes(g)
  \/ \E b \in Budget : Roll(b)
  \/ Crash

Spec == Init /\ [][Next]_vars

-----------------------------------------------------------------------------
(* Properties                                                              *)

\* What the period of b had cost at the "now" of the latest check.  An event
\* dated ahead of the clock is not in it before a check that comes after its
\* date: nothing looks at the budgets when a date comes.
SpendOf(b) == Spend[counted \ past[b]]

\* Every check ended, none was cut short.
AllChecked == \A f \in Fiber : pc[f] \in {"idle", "done"}

\* Every threshold the spend of the first period had reached at the latest
\* check was alerted of, or the database rejected that very alert, however the
\* checks of a batch and the other writers interleave and whatever dates the
\* events have.
NoAlertMissed ==
  AllChecked /\ rolls = 0 =>
    \A b \in Budget : \A t \in Threshold[b] :
      t <= SpendOf(b) => alerts[b][t] > 0 \/ <<b, t>> \in lost

\* "For each threshold newly crossed fire exactly ONE billing_budget alert":
\* as long as no writers of the configuration overlapped.
NoAlertRepeated ==
  ~overlapped /\ (\A f \in Fiber : pc[f] # "failed") =>
    \A b \in Budget, t \in Amount : alerts[b][t] <= 1

\* "On a 100% breach with actionOnBreach=pause set the honest pause flag": once
\* a check could see the breach, and as long as no writers of the configuration
\* overlapped.
BreachPauses ==
  ~overlapped /\ AllChecked =>
    \A b \in Pausing : Limit[b] <= SpendOf(b) => config.paused

\* The same without the condition on overlaps.  A batch is recorded by calls
\* that overlap, and the last of them to write may have read the configuration
\* before the breach.
AlwaysPauses ==
  AllChecked =>
    \A b \in Pausing : Limit[b] <= SpendOf(b) => config.paused

\* An alert for every threshold in every period: "New period / spend reset -
\* clear so future crossings re-alert".  A first event of a period that is
\* large enough leaves the old threshold in place.
EveryPeriodAlerts ==
  AllChecked =>
    \A b \in Budget : \A t \in Threshold[b] :
      t <= SpendOf(b) => alerts[b][t] > 0
=============================================================================
