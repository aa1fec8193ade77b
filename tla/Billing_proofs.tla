--------------------------- MODULE Billing_proofs ---------------------------
(***************************************************************************)
(* Proofs about the ingestion of usage events and the check of budgets:    *)
(* types, that no threshold is passed over, and what holds as long as the  *)
(* writers of the configuration do not overlap.                            *)
(***************************************************************************)
EXTENDS Billing, TLAPS

LEMMA NextCases ==
  ASSUME [Next]_vars
  PROVE  \/ \E c \in Ingest : FindEvent(c) \/ CreateTwice(c) \/ CreateEvent(c)
         \/ \E c \in Ingest : CheckBudgets(c)
         \/ \E w \in Writer : ReadForWrite(w) \/ WriteBack(w)
         \/ \E g \in Gen : DateComes(g)
         \/ \E b \in Budget : Roll(b)
         \/ Crash
         \/ UNCHANGED vars
  BY DEF Next

LEMMA Amounts ==
  /\ 0 \in Amount /\ Amount \subseteq Nat
  /\ \A b \in Budget : Threshold[b] \subseteq Amount
<1>1. \A b \in Budget : Threshold[b] \subseteq Nat
  BY BillingAssumption
<1>2. \A b \in Budget : Threshold[b] \subseteq Amount
  BY DEF Amount
<1>3. Amount \subseteq Nat
  <2> SUFFICES ASSUME NEW x \in Amount, x # 0 PROVE x \in Nat
    OBVIOUS
  <2>1. \E b \in Budget : x \in Threshold[b]
    BY DEF Amount
  <2>2. QED
    BY <1>1, <2>1
<1>4. 0 \in Amount
  BY DEF Amount
<1>5. QED
  BY <1>2, <1>3, <1>4

LEMMA DefaultType == Default \in Config /\ Nothing \in Marks
  BY Amounts DEF Default, Config, Nothing, Marks

LEMMA InitType == Init => TypeOK
<1> SUFFICES ASSUME Init PROVE TypeOK
  OBVIOUS
<1>1. /\ recorded \subseteq Gen /\ past \in [Budget -> SUBSET Gen]
      /\ ahead \subseteq Gen /\ future \subseteq Gen /\ counted \subseteq Gen
      /\ pc \in [Fiber -> Step] /\ base \in [Ingest -> SUBSET Gen]
      /\ todo \in [Ingest -> SUBSET Budget]
      /\ due \in [Ingest -> SUBSET (Budget \X Amount)]
      /\ lost \subseteq Budget \X Amount
  BY DEF Init, Step
<1>2. /\ config \in Config /\ view \in [Ingest -> Marks]
      /\ cur \in [Fiber -> Config]
  BY DefaultType DEF Init
<1>3. alerts \in [Budget -> [Amount -> Nat]]
  BY DEF Init
<1>4. dirty \in [Ingest -> BOOLEAN] /\ overlapped \in BOOLEAN
  BY DEF Init
<1>5. rolls \in 0..MaxRolls /\ crashes \in 0..MaxCrashes
  BY BillingAssumption DEF Init
<1>6. QED
  BY <1>1, <1>2, <1>3, <1>4, <1>5 DEF TypeOK

LEMMA ForgetsType ==
  ASSUME TypeOK, NEW C, Forgets(C)
  PROVE  /\ base' \in [Ingest -> SUBSET Gen]
         /\ view' \in [Ingest -> Marks]
         /\ todo' \in [Ingest -> SUBSET Budget]
         /\ due' \in [Ingest -> SUBSET (Budget \X Amount)]
         /\ dirty' \in [Ingest -> BOOLEAN]
<1>1. /\ base' \in [Ingest -> SUBSET Gen]
      /\ todo' \in [Ingest -> SUBSET Budget]
      /\ due' \in [Ingest -> SUBSET (Budget \X Amount)]
  BY DEF TypeOK, Forgets
<1>2. view' \in [Ingest -> Marks]
  BY DefaultType DEF TypeOK, Forgets
<1>3. dirty' \in [Ingest -> BOOLEAN]
  BY DEF Forgets
<1>4. QED
  BY <1>1, <1>2, <1>3

LEMMA RecordType ==
  ASSUME TypeOK, NEW c \in Ingest,
         FindEvent(c) \/ CreateTwice(c) \/ CreateEvent(c)
  PROVE  TypeOK'
<1> USE BillingAssumption
    DEF TypeOK, Fiber, Step, Active, Inside, Goes, rowVars, localVars, history,
        counters
<1>1. CASE FindEvent(c) \/ CreateTwice(c)
  BY <1>1 DEF FindEvent, CreateTwice
<1>2. CASE CreateEvent(c)
  <2>1. overlapped' \in BOOLEAN
    BY <1>2 DEF CreateEvent, Enters
  <2>2. GenOf[c] \in Gen
    OBVIOUS
  <2>3. /\ past' \in [Budget -> SUBSET Gen]
        /\ ahead' \subseteq Gen /\ future' \subseteq Gen
    BY <1>2, <2>2 DEF CreateEvent, Dates
  <2>4. recorded' \subseteq Gen /\ counted' \subseteq Gen
    BY <1>2, <2>2 DEF CreateEvent
  <2>5. base' \in [Ingest -> SUBSET Gen] /\ pc' \in [Fiber -> Step]
    BY <1>2, <2>4 DEF CreateEvent
  <2>6. QED
    BY <1>2, <2>1, <2>3, <2>4, <2>5 DEF CreateEvent
<1>3. QED
  BY <1>1, <1>2

LEMMA CheckType ==
  ASSUME TypeOK, NEW c \in Ingest, CheckBudgets(c)
  PROVE  TypeOK'
<1> USE BillingAssumption
    DEF TypeOK, Fiber, Step, Active, Inside, Goes, rowVars, localVars, history,
        counters
<1>1. CASE ReadConfig(c)
  BY <1>1 DEF ReadConfig, Config, Marks
<1>2. CASE CheckBudget(c)
  <2>1. PICK b \in todo[c] : \E S \in Seen(c, b), h \in Amount :
          LET last   == view[c].crossed[b]
              paused == view[c].paused \/ Breached(b, Spend[S])
          IN  /\ due' = [due EXCEPT ![c] =
                           {b} \X NewlyCrossed(b, last, Spend[S])]
              /\ view' = [view EXCEPT ![c] =
                             [crossed |-> [@.crossed EXCEPT ![b] = h],
                              paused |-> paused]]
              /\ dirty' = [dirty EXCEPT ![c] = @ \/ h # last
                                                 \/ paused # view[c].paused]
              /\ todo' = [todo EXCEPT ![c] = @ \ {b}]
    BY <1>2 DEF CheckBudget
  <2>2. b \in Budget /\ todo' \in [Ingest -> SUBSET Budget]
    BY <2>1
  <2>3. due' \in [Ingest -> SUBSET (Budget \X Amount)]
    BY <2>1, <2>2, Amounts DEF NewlyCrossed
  <2>4. view' \in [Ingest -> Marks]
    <3>1. PICK S \in Seen(c, b), h \in Amount :
            view' = [view EXCEPT ![c] =
              [crossed |-> [view[c].crossed EXCEPT ![b] = h],
               paused |-> view[c].paused \/ Breached(b, Spend[S])]]
      BY <2>1
    <3> DEFINE marks == [crossed |-> [view[c].crossed EXCEPT ![b] = h],
                         paused |-> view[c].paused \/ Breached(b, Spend[S])]
    <3>2. /\ view[c].crossed \in [Budget -> Amount]
          /\ view[c].paused \in BOOLEAN
          /\ Breached(b, Spend[S]) \in BOOLEAN
      BY DEF Marks, Breached
    <3>3. marks \in Marks
      BY <2>2, <3>2 DEF Marks
    <3> HIDE DEF marks
    <3>4. QED
      BY <3>1, <3>3 DEF marks
  <2>5. dirty' \in [Ingest -> BOOLEAN]
    BY <2>1
  <2>6. QED
    BY <1>2, <2>2, <2>3, <2>4, <2>5 DEF CheckBudget
<1>3. CASE RaiseAlert(c) \/ AlertRejected(c)
  <2>1. PICK d \in due[c] :
          /\ due' = [due EXCEPT ![c] = @ \ {d}]
          /\ \/ alerts' = [alerts EXCEPT ![d[1]][d[2]] = @ + 1] /\ lost' = lost
             \/ alerts' = alerts /\ lost' = lost \cup {d}
    BY <1>3 DEF RaiseAlert, AlertRejected
  <2>2. d \in Budget \X Amount
    OBVIOUS
  <2>3. due' \in [Ingest -> SUBSET (Budget \X Amount)]
    BY <2>1
  <2>4. /\ alerts' \in [Budget -> [Amount -> Nat]]
        /\ lost' \subseteq Budget \X Amount
    <3>1. lost' \subseteq Budget \X Amount
      BY <2>1, <2>2
    <3>2. PICK b \in Budget, t \in Amount : d[1] = b /\ d[2] = t
      BY <2>2
    <3> DEFINE row == [alerts[b] EXCEPT ![t] = @ + 1]
    <3>3. row \in [Amount -> Nat]
      BY <3>2
    <3>4. alerts' = alerts \/ alerts' = [alerts EXCEPT ![b] = row]
      BY <2>1, <3>2
    <3> HIDE DEF row
    <3>5. alerts' \in [Budget -> [Amount -> Nat]]
      BY <3>3, <3>4
    <3>6. QED
      BY <3>1, <3>5
  <2>5. QED
    BY <1>3, <2>3, <2>4 DEF RaiseAlert, AlertRejected
<1>4. CASE LoopEnds(c)
  BY <1>4 DEF LoopEnds
<1>5. CASE NothingToWrite(c)
  BY <1>5, ForgetsType DEF NothingToWrite
<1>6. CASE PatchRead(c)
  BY <1>6 DEF PatchRead
<1>7. CASE PatchWrite(c)
  <2>1. config' \in Config
    BY <1>7 DEF PatchWrite, Config, Marks
  <2>2. QED
    BY <1>7, <2>1, DefaultType, ForgetsType DEF PatchWrite
<1>8. CASE CheckFails(c)
  BY <1>8, DefaultType, ForgetsType DEF CheckFails
<1>9. QED
  BY <1>1, <1>2, <1>3, <1>4, <1>5, <1>6, <1>7, <1>8 DEF CheckBudgets

LEMMA NextType == TypeOK /\ [Next]_vars => TypeOK'
<1> SUFFICES ASSUME TypeOK, [Next]_vars PROVE TypeOK'
  OBVIOUS
<1> USE BillingAssumption
    DEF TypeOK, Fiber, Step, Active, Inside, Goes, rowVars, localVars, history,
        counters
<1>1. ASSUME NEW w \in Writer, ReadForWrite(w) PROVE TypeOK'
  <2>1. overlapped' \in BOOLEAN
    BY <1>1 DEF ReadForWrite, Enters
  <2>2. QED
    BY <1>1, <2>1 DEF ReadForWrite
<1>2. ASSUME NEW w \in Writer, WriteBack(w) PROVE TypeOK'
  <2>1. config' \in Config
    BY <1>2 DEF WriteBack, Config
  <2>2. QED
    BY <1>2, <2>1, DefaultType DEF WriteBack
<1>3. ASSUME NEW b \in Budget, Roll(b) PROVE TypeOK'
  BY <1>3 DEF Roll
<1>7. ASSUME NEW g \in Gen, DateComes(g) PROVE TypeOK'
  BY <1>7 DEF DateComes
<1>4. CASE Crash
  BY <1>4, DefaultType, ForgetsType DEF Crash
<1>5. CASE UNCHANGED vars
  BY <1>5 DEF vars
<1>6. QED
  BY <1>1, <1>2, <1>3, <1>7, <1>4, <1>5, NextCases, RecordType, CheckType

\* Type invariant of the events, the alerts and the configuration.
THEOREM TypeCorrect == Spec => []TypeOK
<1>1. QED
  BY InitType, NextType, PTL DEF Spec

-----------------------------------------------------------------------------
(* What a step leaves alone                                                *)

\* What the check of c holds.
Holds(c)     == <<base[c], view[c], todo[c], due[c], dirty[c]>>
SameOthers(c) == /\ \A f \in Fiber \ {c} : pc'[f] = pc[f] /\ cur'[f] = cur[f]
                 /\ \A d \in Ingest \ {c} : Holds(d)' = Holds(d)

LEMMA ForgetsOne ==
  ASSUME TypeOK, NEW C, Forgets(C)
  PROVE  /\ \A c \in Ingest \ C : Holds(c)' = Holds(c)
         /\ \A c \in Ingest \cap C : /\ base'[c] = {} /\ view'[c] = Nothing
                                     /\ todo'[c] = {} /\ due'[c] = {}
                                     /\ ~dirty'[c]
<1>1. \A c \in Ingest : dirty'[c] <=> dirty[c] /\ c \notin C
  BY DEF Forgets, TypeOK
<1>2. \A c \in Ingest \ C : dirty'[c] = dirty[c]
  BY <1>1, ForgetsType DEF TypeOK
<1>3. \A c \in Ingest \ C : /\ base'[c] = base[c] /\ view'[c] = view[c]
                            /\ todo'[c] = todo[c] /\ due'[c] = due[c]
  BY DEF Forgets
<1>4. \A c \in Ingest \cap C : /\ base'[c] = {} /\ view'[c] = Nothing
                               /\ todo'[c] = {} /\ due'[c] = {}
  BY DEF Forgets
<1>5. QED
  BY <1>1, <1>2, <1>3, <1>4 DEF Holds

LEMMA RecordAlone ==
  ASSUME TypeOK, NEW c \in Ingest,
         FindEvent(c) \/ CreateTwice(c) \/ CreateEvent(c)
  PROVE  /\ SameOthers(c)
         /\ UNCHANGED <<alerts, config, cur, lost, counters>>
         /\ UNCHANGED <<view[c], todo[c], due[c], dirty[c]>>
<1>1. /\ \A f \in Fiber \ {c} : pc'[f] = pc[f]
      /\ \A d \in Ingest \ {c} : base'[d] = base[d]
  BY DEF FindEvent, CreateTwice, CreateEvent, Goes, TypeOK, localVars
<1>2. UNCHANGED <<alerts, config, cur, lost, counters, view, todo, due, dirty>>
  BY DEF FindEvent, CreateTwice, CreateEvent, rowVars, localVars, history
<1>3. QED
  BY <1>1, <1>2 DEF SameOthers, Holds

LEMMA CheckAlone ==
  ASSUME TypeOK, NEW c \in Ingest, CheckBudgets(c)
  PROVE  /\ SameOthers(c)
         /\ UNCHANGED <<recorded, past, ahead, future, overlapped, counted,
                        counters>>
<1> USE BillingAssumption
    DEF SameOthers, Holds, Goes, rowVars, localVars, history, Fiber
<1>1. CASE ReadConfig(c) \/ CheckBudget(c) \/ LoopEnds(c)
  BY <1>1 DEF ReadConfig, CheckBudget, LoopEnds, TypeOK
<1>2. CASE RaiseAlert(c) \/ AlertRejected(c) \/ PatchRead(c)
  BY <1>2 DEF RaiseAlert, AlertRejected, PatchRead, TypeOK
<1>3. CASE NothingToWrite(c) \/ PatchWrite(c) \/ CheckFails(c)
  <2>1. \A d \in Ingest \ {c} : Holds(d)' = Holds(d)
    BY <1>3, ForgetsOne DEF NothingToWrite, PatchWrite, CheckFails
  <2>2. \A f \in Fiber \ {c} : pc'[f] = pc[f] /\ cur'[f] = cur[f]
    BY <1>3 DEF NothingToWrite, PatchWrite, CheckFails, TypeOK
  <2>3. UNCHANGED <<recorded, past, ahead, future, overlapped, counted,
                    counters>>
    BY <1>3 DEF NothingToWrite, PatchWrite, CheckFails
  <2>4. QED
    BY <2>1, <2>2, <2>3
<1>4. QED
  BY <1>1, <1>2, <1>3 DEF CheckBudgets

\* One budget of the loop, as what becomes of each part.
Compares(c, b, S, h) ==
  LET last == view[c].crossed[b] IN
  /\ CrossedBy(b, last, Spend[S], h)
  /\ due'[c] = {b} \X NewlyCrossed(b, last, Spend[S])
  /\ view'[c].crossed = [view[c].crossed EXCEPT ![b] = h]
  /\ view'[c].paused = (view[c].paused \/ Breached(b, Spend[S]))
  /\ dirty'[c] = (\/ dirty[c] \/ h # last
                  \/ view'[c].paused # view[c].paused)
  /\ todo'[c] = todo[c] \ {b}

LEMMA CheckOne ==
  ASSUME TypeOK, NEW c \in Ingest, CheckBudget(c)
  PROVE  /\ pc[c] = "check" /\ pc' = pc /\ due[c] = {}
         /\ UNCHANGED <<rowVars, config, base, cur, history, counters>>
         /\ \E b \in todo[c] : \E S \in Seen(c, b), h \in Amount :
              Compares(c, b, S, h)
<1>1. pc[c] = "check" /\ pc' = pc /\ due[c] = {}
  BY DEF CheckBudget, Goes, TypeOK
<1>2. UNCHANGED <<rowVars, config, base, cur, history, counters>>
  BY DEF CheckBudget
<1>3. PICK b \in todo[c] : \E S \in Seen(c, b), h \in Amount :
        LET last   == view[c].crossed[b]
            paused == view[c].paused \/ Breached(b, Spend[S])
        IN  /\ CrossedBy(b, last, Spend[S], h)
            /\ due' = [due EXCEPT
                         ![c] = {b} \X NewlyCrossed(b, last, Spend[S])]
            /\ view' = [view EXCEPT ![c] =
                           [crossed |-> [@.crossed EXCEPT ![b] = h],
                            paused |-> paused]]
            /\ dirty' = [dirty EXCEPT ![c] = @ \/ h # last
                                               \/ paused # view[c].paused]
            /\ todo' = [todo EXCEPT ![c] = @ \ {b}]
  BY DEF CheckBudget
<1>4. PICK S \in Seen(c, b), h \in Amount :
        LET last   == view[c].crossed[b]
            paused == view[c].paused \/ Breached(b, Spend[S])
        IN  /\ CrossedBy(b, last, Spend[S], h)
            /\ due' = [due EXCEPT
                         ![c] = {b} \X NewlyCrossed(b, last, Spend[S])]
            /\ view' = [view EXCEPT ![c] =
                           [crossed |-> [@.crossed EXCEPT ![b] = h],
                            paused |-> paused]]
            /\ dirty' = [dirty EXCEPT ![c] = @ \/ h # last
                                               \/ paused # view[c].paused]
            /\ todo' = [todo EXCEPT ![c] = @ \ {b}]
  BY <1>3
<1> DEFINE last   == view[c].crossed[b]
           paused == view[c].paused \/ Breached(b, Spend[S])
<1>5. view'[c] = [crossed |-> [view[c].crossed EXCEPT ![b] = h],
                  paused |-> paused]
  BY <1>4 DEF TypeOK
<1>6. /\ view'[c].crossed = [view[c].crossed EXCEPT ![b] = h]
      /\ view'[c].paused = paused
  BY <1>5
<1>7. /\ due'[c] = {b} \X NewlyCrossed(b, last, Spend[S])
      /\ todo'[c] = todo[c] \ {b}
  BY <1>4 DEF TypeOK
<1>8. dirty'[c] = (\/ dirty[c] \/ h # last \/ paused # view[c].paused)
  BY <1>4 DEF TypeOK
<1>9. dirty'[c] = (\/ dirty[c] \/ h # last
                   \/ view'[c].paused # view[c].paused)
  BY <1>6, <1>8
<1>10. CrossedBy(b, last, Spend[S], h)
  BY <1>4
<1> HIDE DEF paused
<1>11. QED
  BY <1>1, <1>2, <1>6, <1>7, <1>9, <1>10 DEF paused, Compares

LEMMA WriterAlone ==
  ASSUME TypeOK, NEW w \in Writer, ReadForWrite(w) \/ WriteBack(w)
  PROVE  /\ \A f \in Fiber \ {w} : pc'[f] = pc[f] /\ cur'[f] = cur[f]
         /\ \A c \in Ingest : pc'[c] = pc[c] /\ cur'[c] = cur[c]
         /\ UNCHANGED <<rowVars, base, view, todo, due, dirty, lost, counted,
                        counters>>
  BY BillingAssumption
     DEF ReadForWrite, WriteBack, Goes, TypeOK, Fiber, rowVars, history

\* What the latest check could see: whatever is not dated ahead, and of the
\* rest what is not in the future.
Dated ==
  /\ recorded \ ahead \subseteq counted /\ counted \subseteq recorded
  /\ future \subseteq ahead /\ future \cap counted = {}

\* Only an event that is recorded moves what is counted, and lets it grow.
LEMMA DatedNext ==
  ASSUME TypeOK, Dated, [Next]_vars
  PROVE  Dated'
<1> USE DEF Dated
<1>1. ASSUME NEW c \in Ingest, CreateEvent(c) PROVE Dated'
  <2>1. /\ ahead \subseteq ahead' /\ ahead' \subseteq ahead \cup {GenOf[c]}
        /\ future' \subseteq ahead'
    BY <1>1 DEF CreateEvent, Dates
  <2>2. recorded' = recorded \cup {GenOf[c]} /\ counted' = recorded' \ future'
    BY <1>1 DEF CreateEvent
  <2>3. QED
    BY <2>1, <2>2
<1>2. ASSUME NEW c \in Ingest, FindEvent(c) \/ CreateTwice(c) PROVE Dated'
  BY <1>2 DEF FindEvent, CreateTwice, rowVars, history
<1>3. ASSUME NEW c \in Ingest, CheckBudgets(c) PROVE Dated'
  BY <1>3, CheckAlone
<1>4. ASSUME NEW w \in Writer, ReadForWrite(w) \/ WriteBack(w) PROVE Dated'
  BY <1>4, WriterAlone DEF rowVars
<1>5. ASSUME NEW g \in Gen, DateComes(g) PROVE Dated'
  BY <1>5 DEF DateComes, history
<1>6. ASSUME NEW b \in Budget, Roll(b) PROVE Dated'
  BY <1>6 DEF Roll, history
<1>7. CASE Crash \/ UNCHANGED vars
  BY <1>7 DEF Crash, vars, rowVars, history
<1>8. QED
  BY <1>1, <1>2, <1>3, <1>4, <1>5, <1>6, <1>7, NextCases

LEMMA DatedInit == Init => Dated
  BY DEF Init, Dated

\* Recording an event takes nothing out of what is counted in a period.
LEMMA CountedGrows ==
  ASSUME TypeOK, Dated, NEW c \in Ingest, CreateEvent(c)
  PROVE  /\ counted \subseteq counted' /\ counted' \subseteq Gen
         /\ \A b \in Budget : counted \ past[b] \subseteq counted' \ past'[b]
<1>1. GenOf[c] \in Gen /\ GenOf[c] \notin counted
  BY BillingAssumption DEF CreateEvent, Dated
<1>2. /\ future' \subseteq future \cup {GenOf[c]}
      /\ \A b \in Budget : past'[b] \subseteq past[b] \cup {GenOf[c]}
  BY DEF CreateEvent, Dates
<1>3. recorded' = recorded \cup {GenOf[c]} /\ counted' = recorded' \ future'
  BY DEF CreateEvent
<1>4. counted \subseteq counted'
  BY <1>1, <1>2, <1>3 DEF Dated
<1>5. QED
  BY <1>1, <1>2, <1>3, <1>4 DEF TypeOK

-----------------------------------------------------------------------------
(* No threshold is passed over                                             *)

Failed == \E f \in Fiber : pc[f] = "failed"

\* An alert of the threshold t of b was raised, or rejected.
Told(b, t) == alerts[b][t] > 0 \/ <<b, t>> \in lost
TellsMore  ==
  \A b \in Budget : \A t \in Threshold[b] : Told(b, t) => Told(b, t)'

\* Alerts are left only to a check that is at its loop.
Ended == \A c \in Ingest : pc[c] # "check" => due[c] = {}

\* Whoever holds a mark holds it of thresholds that were told of, or are due.
Known(m)     == \A b \in Budget : \A t \in Threshold[b] :
                  t <= m[b] => Told(b, t)
KnownOrDue(c) == \A b \in Budget : \A t \in Threshold[b] :
                   t <= view[c].crossed[b] => Told(b, t) \/ <<b, t>> \in due[c]
KnownInv == rolls = 0 => /\ Known(config.crossed)
                         /\ \A f \in Fiber : Known(cur[f].crossed)
                         /\ \A c \in Ingest : KnownOrDue(c)

\* The spend of all that counts was compared for b, or a check that counts it
\* all still has to, or some check was cut short.
Reached(b)      == {t \in Threshold[b] : t <= SpendOf(b)}
LastLooks(c, b) == /\ base[c] = counted
                   /\ \/ pc[c] = "read"
                      \/ /\ pc[c] = "check"
                         /\ \/ b \in todo[c]
                            \/ \A t \in Reached(b) :
                                 Told(b, t) \/ <<b, t>> \in due[c]
Covered(b)      == \/ \A t \in Reached(b) : Told(b, t)
                   \/ \E c \in Ingest : LastLooks(c, b)
CoverInv == rolls = 0 => Failed \/ \A b \in Budget : Covered(b)
MissInv  == Ended /\ Dated /\ KnownInv /\ CoverInv

LEMMA MissInit == Init => MissInv
<1> SUFFICES ASSUME Init PROVE MissInv
  OBVIOUS
<1>1. \A b \in Budget : \A t \in Threshold[b] : t \in Nat \ {0}
  BY BillingAssumption
<1>2. Ended
  BY DEF Init, Ended
<1>3. Known(Default.crossed)
  BY <1>1 DEF Known, Default
<1>4. \A c \in Ingest : KnownOrDue(c)
  BY <1>1 DEF KnownOrDue, Init, Nothing, Default
<1>5. KnownInv
  BY <1>3, <1>4 DEF KnownInv, Init
<1>6. \A b \in Budget : Reached(b) = {}
  BY <1>1, BillingAssumption DEF Reached, SpendOf, Init
<1>7. QED
  BY <1>2, <1>5, <1>6, DatedInit DEF MissInv, CoverInv, Covered

\* Alerts are only forgotten with a period, and what failed stays so.
LEMMA TellingGrows ==
  ASSUME TypeOK, [Next]_vars, rolls' = 0
  PROVE  rolls = 0 /\ TellsMore
<1>1. ASSUME NEW b \in Budget, Roll(b) PROVE FALSE
  BY <1>1, BillingAssumption DEF Roll, TypeOK
<1>2. ASSUME NEW c \in Ingest, RaiseAlert(c) PROVE TellsMore
  <2>1. PICK d \in due[c] : alerts' = [alerts EXCEPT ![d[1]][d[2]] = @ + 1]
    BY <1>2 DEF RaiseAlert
  <2>2. \A b \in Budget, t \in Amount : alerts'[b][t] >= alerts[b][t]
    BY <2>1 DEF TypeOK
  <2>3. \A b \in Budget, t \in Amount :
          alerts[b][t] \in Nat /\ alerts'[b][t] \in Nat
    BY <1>2, NextType DEF TypeOK, Next, CheckBudgets
  <2>4. lost' = lost
    BY <1>2 DEF RaiseAlert, history
  <2>5. QED
    <3> SUFFICES ASSUME NEW b \in Budget, NEW t \in Threshold[b], Told(b, t)
                 PROVE  Told(b, t)'
      BY DEF TellsMore
    <3>1. t \in Amount
      BY Amounts
    <3>2. alerts[b][t] > 0 => alerts'[b][t] > 0
      BY <2>2, <2>3, <3>1
    <3>3. QED
      BY <2>4, <3>2 DEF Told
<1>3. ASSUME NEW c \in Ingest, AlertRejected(c) PROVE TellsMore
  BY <1>3 DEF AlertRejected, TellsMore, Told, rowVars
<1>4. ASSUME alerts' = alerts, lost' = lost PROVE TellsMore
  BY <1>4 DEF TellsMore, Told
<1>5. ASSUME NEW c \in Ingest, CheckBudgets(c)
      PROVE  rolls' = rolls /\ TellsMore
  <2>1. rolls' = rolls
    BY <1>5, CheckAlone DEF counters
  <2>2. CASE RaiseAlert(c) \/ AlertRejected(c)
    BY <1>2, <1>3, <2>1, <2>2
  <2>3. CASE ~RaiseAlert(c) /\ ~AlertRejected(c)
    <3>1. alerts' = alerts /\ lost' = lost
      BY <1>5, <2>3
         DEF CheckBudgets, ReadConfig, CheckBudget, LoopEnds, NothingToWrite,
             PatchRead, PatchWrite, CheckFails, rowVars, history
    <3>2. QED
      BY <1>4, <2>1, <3>1
  <2>4. QED
    BY <2>2, <2>3
<1>6. ASSUME NEW c \in Ingest, FindEvent(c) \/ CreateTwice(c) \/ CreateEvent(c)
      PROVE  rolls' = rolls /\ TellsMore
  BY <1>4, <1>6, RecordAlone DEF counters
<1>7. ASSUME NEW w \in Writer, ReadForWrite(w) \/ WriteBack(w)
      PROVE  rolls' = rolls /\ TellsMore
  BY <1>4, <1>7, WriterAlone DEF counters, rowVars
<1>8. CASE Crash \/ UNCHANGED vars \/ \E g \in Gen : DateComes(g)
  BY <1>4, <1>8 DEF Crash, DateComes, vars, rowVars, counters, history
<1>9. QED
  BY <1>1, <1>5, <1>6, <1>7, <1>8, NextCases

LEMMA DefaultKnown == Known(Default.crossed)' /\ Known(Default.crossed)
<1>1. \A b \in Budget : \A t \in Threshold[b] : t \in Nat \ {0}
  BY BillingAssumption
<1>2. QED
  BY <1>1 DEF Known, Default

LEMMA EndedNext == TypeOK /\ Ended /\ [Next]_vars => Ended'
<1> SUFFICES ASSUME TypeOK, Ended, [Next]_vars PROVE Ended'
  OBVIOUS
<1> USE BillingAssumption DEF Ended, Fiber
<1>1. ASSUME NEW c \in Ingest, FindEvent(c) \/ CreateTwice(c) \/ CreateEvent(c)
      PROVE  Ended'
  BY <1>1, RecordAlone
     DEF SameOthers, Holds, FindEvent, CreateTwice, CreateEvent, Goes
<1>2. ASSUME NEW c \in Ingest, CheckBudgets(c) PROVE Ended'
  <2>1. \A d \in Ingest \ {c} : pc'[d] = pc[d] /\ due'[d] = due[d]
    BY <1>2, CheckAlone DEF SameOthers, Holds
  <2>2. pc'[c] # "check" => due'[c] = {}
    <3>1. CASE ReadConfig(c) \/ CheckBudget(c) \/ RaiseAlert(c)
               \/ AlertRejected(c)
      BY <3>1 DEF ReadConfig, CheckBudget, RaiseAlert, AlertRejected, Goes,
                  TypeOK
    <3>2. CASE LoopEnds(c) \/ PatchRead(c)
      BY <3>2 DEF LoopEnds, PatchRead, Goes, localVars
    <3>3. CASE NothingToWrite(c) \/ PatchWrite(c) \/ CheckFails(c)
      BY <3>3, ForgetsOne DEF NothingToWrite, PatchWrite, CheckFails
    <3>4. QED
      BY <1>2, <3>1, <3>2, <3>3 DEF CheckBudgets
  <2>3. QED
    BY <2>1, <2>2
<1>3. ASSUME NEW w \in Writer, ReadForWrite(w) \/ WriteBack(w) PROVE Ended'
  BY <1>3, WriterAlone
<1>4. CASE Crash
  BY <1>4, ForgetsOne DEF Crash
<1>5. CASE \/ UNCHANGED vars \/ \E b \in Budget : Roll(b)
          \/ \E g \in Gen : DateComes(g)
  BY <1>5 DEF vars, Roll, DateComes, localVars
<1>6. QED
  BY <1>1, <1>2, <1>3, <1>4, <1>5, NextCases

\* One alert of c was raised, or rejected.
LEMMA DueTold ==
  ASSUME TypeOK, NEW c \in Ingest, RaiseAlert(c) \/ AlertRejected(c)
  PROVE  /\ pc' = pc /\ view' = view /\ todo' = todo /\ base' = base
         /\ \A d \in due[c] : d \in due'[c] \/ Told(d[1], d[2])'
<1>1. pc' = pc /\ view' = view /\ todo' = todo /\ base' = base
  BY BillingAssumption DEF RaiseAlert, AlertRejected, Goes, TypeOK
<1>2. CASE RaiseAlert(c)
  <2>1. PICK d \in due[c] :
          /\ alerts' = [alerts EXCEPT ![d[1]][d[2]] = @ + 1]
          /\ due' = [due EXCEPT ![c] = @ \ {d}]
    BY <1>2 DEF RaiseAlert
  <2>2. d[1] \in Budget /\ d[2] \in Amount
    BY DEF TypeOK
  <2>3. /\ alerts'[d[1]][d[2]] = alerts[d[1]][d[2]] + 1
        /\ alerts[d[1]][d[2]] \in Nat
    BY <2>1, <2>2 DEF TypeOK
  <2>4. Told(d[1], d[2])' /\ due'[c] = due[c] \ {d}
    BY <2>1, <2>3 DEF Told, TypeOK
  <2>5. QED
    BY <1>1, <2>4
<1>3. CASE AlertRejected(c)
  <2>1. PICK d \in due[c] : /\ lost' = lost \cup {d}
                            /\ due' = [due EXCEPT ![c] = @ \ {d}]
    BY <1>3 DEF AlertRejected
  <2>2. d = <<d[1], d[2]>>
    BY DEF TypeOK
  <2>3. Told(d[1], d[2])' /\ due'[c] = due[c] \ {d}
    BY <2>1, <2>2 DEF Told, TypeOK
  <2>4. QED
    BY <1>1, <2>3
<1>4. QED
  BY <1>2, <1>3

LEMMA KnownNext == TypeOK /\ Ended /\ KnownInv /\ [Next]_vars => KnownInv'
<1> SUFFICES ASSUME TypeOK, Ended, KnownInv, [Next]_vars, rolls' = 0
             PROVE  /\ Known(config.crossed)'
                    /\ \A f \in Fiber : Known(cur[f].crossed)'
                    /\ \A c \in Ingest : KnownOrDue(c)'
  BY DEF KnownInv
<1> USE BillingAssumption
<1>1. rolls = 0 /\ TellsMore
  BY TellingGrows
<1>2. /\ Known(config.crossed)
      /\ \A f \in Fiber : Known(cur[f].crossed)
      /\ \A c \in Ingest : KnownOrDue(c)
  BY <1>1 DEF KnownInv
<1>3. ASSUME NEW m, Known(m) PROVE \A n : n = m => Known(n)'
  BY <1>1, <1>3 DEF TellsMore, Known
<1>4. ASSUME \/ config' = config
             \/ \E f \in Fiber : config'.crossed = cur[f].crossed
             \/ \E c \in Ingest : /\ config'.crossed = view[c].crossed
                                  /\ due[c] = {}
      PROVE  Known(config.crossed)'
  <2>1. \A c \in Ingest : due[c] = {} => Known(view[c].crossed)
    BY <1>2 DEF KnownOrDue, Known
  <2>2. QED
    BY <1>1, <1>2, <1>4, <2>1 DEF TellsMore, Known
<1>5. ASSUME \A f \in Fiber : \/ cur'[f] = cur[f] \/ cur'[f] = config
                              \/ cur'[f] = Default
      PROVE  \A f \in Fiber : Known(cur[f].crossed)'
  BY <1>1, <1>2, <1>5, DefaultKnown DEF TellsMore, Known
<1>6. ASSUME NEW c \in Ingest,
             \/ /\ view'[c].crossed = view[c].crossed
                /\ \A d \in due[c] : d \in due'[c] \/ Told(d[1], d[2])'
             \/ view'[c] = Nothing
             \/ view'[c].crossed = config.crossed
      PROVE  KnownOrDue(c)'
  <2>1. CASE /\ view'[c].crossed = view[c].crossed
             /\ \A d \in due[c] : d \in due'[c] \/ Told(d[1], d[2])'
    <3> SUFFICES ASSUME NEW b \in Budget, NEW t \in Threshold[b],
                        t <= view'[c].crossed[b]
                 PROVE  Told(b, t)' \/ <<b, t>> \in due'[c]
      BY DEF KnownOrDue
    <3>1. Told(b, t) \/ <<b, t>> \in due[c]
      BY <1>2, <2>1 DEF KnownOrDue
    <3>2. CASE Told(b, t)
      BY <1>1, <3>2 DEF TellsMore
    <3>3. CASE <<b, t>> \in due[c]
      BY <2>1, <3>3
    <3>4. QED
      BY <3>1, <3>2, <3>3
  <2>2. CASE view'[c] = Nothing
    BY <2>2, DefaultKnown DEF KnownOrDue, Known, Nothing
  <2>3. CASE view'[c].crossed = config.crossed
    BY <1>1, <1>2, <2>3 DEF KnownOrDue, Known, TellsMore
  <2>4. QED
    BY <1>6, <2>1, <2>2, <2>3
<1>7. ASSUME NEW c \in Ingest, FindEvent(c) \/ CreateTwice(c) \/ CreateEvent(c)
      PROVE  /\ Known(config.crossed)'
             /\ \A f \in Fiber : Known(cur[f].crossed)'
             /\ \A d \in Ingest : KnownOrDue(d)'
  <2>1. config' = config /\ cur' = cur
        /\ \A d \in Ingest : view'[d] = view[d] /\ due'[d] = due[d]
    BY <1>7, RecordAlone DEF SameOthers, Holds
  <2>2. QED
    BY <1>4, <1>5, <1>6, <2>1
<1>8. ASSUME NEW w \in Writer, ReadForWrite(w) \/ WriteBack(w)
      PROVE  /\ Known(config.crossed)'
             /\ \A f \in Fiber : Known(cur[f].crossed)'
             /\ \A d \in Ingest : KnownOrDue(d)'
  <2>1. /\ view' = view /\ due' = due
        /\ \A f \in Fiber \ {w} : cur'[f] = cur[f]
    BY <1>8, WriterAlone
  <2>2. /\ w \in Fiber /\ cur'[w] \in {config, Default}
        /\ config' = config \/ config'.crossed = cur[w].crossed
    BY <1>8 DEF ReadForWrite, WriteBack, TypeOK, Fiber, Config
  <2>3. QED
    BY <1>4, <1>5, <1>6, <2>1, <2>2
<1>9. CASE Crash
  <2>1. config' = config /\ \A f \in Fiber : cur'[f] = Default
    BY <1>9 DEF Crash
  <2>2. \A c \in Ingest : view'[c] = Nothing
    BY <1>9, ForgetsOne DEF Crash
  <2>3. QED
    BY <1>2, <1>4, <1>5, <1>6, <1>1, <2>1, <2>2
<1>10. CASE UNCHANGED vars \/ \E g \in Gen : DateComes(g)
  <2>1. config' = config /\ cur' = cur /\ view' = view /\ due' = due
    BY <1>10 DEF vars, DateComes, localVars
  <2>2. QED
    BY <1>4, <1>5, <1>6, <2>1
<1>11. ASSUME NEW c \in Ingest, CheckBudgets(c)
       PROVE  /\ Known(config.crossed)'
              /\ \A f \in Fiber : Known(cur[f].crossed)'
              /\ \A d \in Ingest : KnownOrDue(d)'
  <2>1. \A d \in Ingest \ {c} : KnownOrDue(d)'
    BY <1>6, <1>11, CheckAlone DEF SameOthers, Holds
  <2>2. /\ \A f \in Fiber \ {c} : cur'[f] = cur[f]
        /\ c \in Fiber
    BY <1>11, CheckAlone DEF SameOthers, Fiber
  <2>3. CASE ReadConfig(c) \/ RaiseAlert(c) \/ AlertRejected(c)
             \/ LoopEnds(c) \/ NothingToWrite(c) \/ PatchRead(c)
             \/ CheckFails(c)
    <3>1. config' = config /\ cur'[c] \in {cur[c], config, Default}
      BY <2>2, <2>3
         DEF ReadConfig, RaiseAlert, AlertRejected, LoopEnds, NothingToWrite,
             PatchRead, CheckFails, localVars, TypeOK
    <3>2. KnownOrDue(c)'
      <4>1. CASE ReadConfig(c)
        BY <1>6, <4>1 DEF ReadConfig, TypeOK
      <4>2. CASE RaiseAlert(c) \/ AlertRejected(c)
        BY <1>6, <4>2, DueTold
      <4>3. CASE LoopEnds(c) \/ PatchRead(c)
        BY <1>6, <4>3 DEF LoopEnds, PatchRead, localVars
      <4>4. CASE NothingToWrite(c) \/ CheckFails(c)
        BY <1>6, <4>4, ForgetsOne DEF NothingToWrite, CheckFails
      <4>5. QED
        BY <2>3, <4>1, <4>2, <4>3, <4>4
    <3>3. QED
      BY <1>4, <1>5, <2>1, <2>2, <3>1, <3>2
  <2>4. CASE CheckBudget(c)
    <3>1. config' = config /\ cur' = cur /\ due[c] = {}
      BY <2>4, CheckOne
    <3>2. PICK b \in todo[c] : \E S \in Seen(c, b), h \in Amount :
                                Compares(c, b, S, h)
      BY <2>4, CheckOne
    <3>3. PICK S \in Seen(c, b), h \in Amount :
            LET last == view[c].crossed[b] IN
            /\ CrossedBy(b, last, Spend[S], h)
            /\ due'[c] = {b} \X NewlyCrossed(b, last, Spend[S])
            /\ view'[c].crossed = [view[c].crossed EXCEPT ![b] = h]
      BY <3>2 DEF Compares
    <3> DEFINE last == view[c].crossed[b]
               new  == NewlyCrossed(b, last, Spend[S])
    <3>4. KnownOrDue(c)'
      <4> SUFFICES ASSUME NEW a \in Budget, NEW t \in Threshold[a],
                          t <= view'[c].crossed[a]
                   PROVE  Told(a, t)' \/ <<a, t>> \in due'[c]
        BY DEF KnownOrDue
      <4>1. view[c].crossed \in [Budget -> Amount] /\ b \in Budget
        BY DEF TypeOK, Marks
      <4>2. \A d \in Budget : \A u \in Threshold[d] :
              u <= view[c].crossed[d] => Told(d, u)'
        BY <1>1, <1>2, <3>1 DEF KnownOrDue, TellsMore
      <4>3. CASE a # b
        BY <3>3, <4>1, <4>2, <4>3
      <4>4. CASE a = b
        <5>1. t <= h
          BY <3>3, <4>1, <4>4
        <5>2. t \in Nat /\ h \in Nat /\ last \in Nat
          BY <4>1, <4>4, Amounts
        <5>3. CASE h \in new
          <6>1. h <= Spend[S] /\ Spend[S] \in Nat
            BY <5>3 DEF NewlyCrossed, Seen, TypeOK
          <6>2. CASE t <= last
            BY <4>2, <4>4, <6>2
          <6>3. CASE last < t
            <7>1. t \in new
              BY <4>4, <5>1, <5>2, <6>1, <6>3 DEF NewlyCrossed
            <7>2. QED
              BY <3>3, <4>4, <7>1
          <6>4. QED
            BY <5>2, <6>2, <6>3
        <5>4. CASE h \notin new
          <6>1. h = 0 \/ h = last
            BY <3>3, <5>4 DEF CrossedBy
          <6>2. t # 0
            BY <4>1
          <6>3. t <= last
            BY <5>1, <5>2, <6>1, <6>2
          <6>4. QED
            BY <4>2, <4>4, <6>3
        <5>5. QED
          BY <5>3, <5>4
      <4>5. QED
        BY <4>3, <4>4
    <3>5. QED
      BY <1>4, <1>5, <2>1, <3>1, <3>4
  <2>5. CASE PatchWrite(c)
    <3>1. due[c] = {} /\ config'.crossed = view[c].crossed
      BY <2>5 DEF PatchWrite, Goes, Ended, TypeOK, Config, Fiber
    <3>2. cur'[c] = Default /\ view'[c] = Nothing
      BY <2>2, <2>5, ForgetsOne DEF PatchWrite, TypeOK
    <3>3. QED
      BY <1>4, <1>5, <1>6, <2>1, <2>2, <3>1, <3>2
  <2>6. QED
    BY <1>11, <2>3, <2>4, <2>5 DEF CheckBudgets
<1>12. ASSUME NEW b \in Budget, Roll(b) PROVE FALSE
  BY <1>1, <1>12 DEF Roll, TypeOK
<1>13. QED
  BY <1>1, <1>2, <1>7, <1>8, <1>9, <1>10, <1>11, <1>12, NextCases

LEMMA FailedStays == TypeOK /\ Failed /\ [Next]_vars => Failed'
<1> SUFFICES ASSUME TypeOK, [Next]_vars, NEW f \in Fiber, pc[f] = "failed"
             PROVE  pc'[f] = "failed"
  BY DEF Failed
<1> USE BillingAssumption DEF Fiber
<1>1. ASSUME NEW c \in Ingest, FindEvent(c) \/ CreateTwice(c) \/ CreateEvent(c)
      PROVE  pc'[f] = "failed"
  BY <1>1, RecordAlone DEF SameOthers, FindEvent, CreateTwice, CreateEvent,
                           Goes
<1>2. ASSUME NEW c \in Ingest, CheckBudgets(c) PROVE pc'[f] = "failed"
  <2>1. pc[c] \in Inside
    BY <1>2 DEF CheckBudgets, ReadConfig, CheckBudget, RaiseAlert,
                AlertRejected, LoopEnds, NothingToWrite, PatchRead,
                PatchWrite, CheckFails, Goes, Inside
  <2>2. QED
    BY <1>2, <2>1, CheckAlone DEF SameOthers, Inside
<1>3. ASSUME NEW w \in Writer, ReadForWrite(w) \/ WriteBack(w)
      PROVE  pc'[f] = "failed"
  BY <1>3, WriterAlone DEF ReadForWrite, WriteBack, Goes
<1>4. CASE Crash
  BY <1>4 DEF Crash
<1>5. CASE \/ UNCHANGED vars \/ \E b \in Budget : Roll(b)
          \/ \E g \in Gen : DateComes(g)
  BY <1>5 DEF vars, Roll, DateComes
<1>6. QED
  BY <1>1, <1>2, <1>3, <1>4, <1>5, NextCases

LEMMA CoverNext == TypeOK /\ MissInv /\ [Next]_vars => CoverInv'
<1> SUFFICES ASSUME TypeOK, MissInv, [Next]_vars, rolls' = 0, ~Failed'
             PROVE  \A b \in Budget : Covered(b)'
  BY DEF CoverInv
<1> USE BillingAssumption
<1>1. /\ rolls = 0 /\ TellsMore /\ ~Failed
      /\ \A b \in Budget : Covered(b)
      /\ \A c \in Ingest : KnownOrDue(c)
  BY TellingGrows, FailedStays DEF MissInv, KnownInv, CoverInv
\* Steps that count nothing more, by whether they are of the check that looks.
<1>2. ASSUME NEW b \in Budget, SpendOf(b)' = SpendOf(b),
             \A c \in Ingest : LastLooks(c, b) =>
               LastLooks(c, b)' \/ \A t \in Reached(b) : Told(b, t)'
      PROVE  Covered(b)'
  BY <1>1, <1>2 DEF Covered, TellsMore, Reached
<1>3. ASSUME NEW c \in Ingest, NEW b \in Budget,
             counted' = counted, past' = past, LastLooks(c, b),
             pc'[c] = pc[c], Holds(c)' = Holds(c)
      PROVE  LastLooks(c, b)'
  BY <1>1, <1>3 DEF LastLooks, Holds, TellsMore, Reached, SpendOf
<1>4. ASSUME NEW c \in Ingest, FindEvent(c) \/ CreateTwice(c)
      PROVE  \A b \in Budget : Covered(b)'
  <2>1. /\ counted' = counted /\ past' = past
        /\ pc[c] \in {"idle", "create"}
    BY <1>4 DEF FindEvent, CreateTwice, Goes, rowVars, history
  <2>2. \A b \in Budget : ~LastLooks(c, b)
    BY <2>1 DEF LastLooks
  <2>3. \A d \in Ingest \ {c} : pc'[d] = pc[d] /\ Holds(d)' = Holds(d)
    BY <1>4, RecordAlone DEF SameOthers, Fiber
  <2>4. QED
    BY <1>2, <1>3, <2>1, <2>2, <2>3 DEF SpendOf
<1>5. ASSUME NEW c \in Ingest, CreateEvent(c)
      PROVE  \A b \in Budget : Covered(b)'
  <2>1. base'[c] = counted' /\ pc'[c] = "read"
    BY <1>5 DEF CreateEvent, Goes, TypeOK, Fiber
  <2>2. QED
    BY <2>1 DEF Covered, LastLooks
<1>6. ASSUME NEW c \in Ingest, CheckBudgets(c)
      PROVE  \A b \in Budget : Covered(b)'
  <2>1. counted' = counted /\ past' = past
    BY <1>6, CheckAlone
  <2>2. \A d \in Ingest \ {c} : pc'[d] = pc[d] /\ Holds(d)' = Holds(d)
    BY <1>6, CheckAlone DEF SameOthers, Fiber
  <2>3. SUFFICES ASSUME NEW b \in Budget, LastLooks(c, b)
                 PROVE  LastLooks(c, b)' \/ \A t \in Reached(b) : Told(b, t)'
    BY <1>2, <1>3, <2>1, <2>2 DEF SpendOf
  <2>4. CASE ReadConfig(c)
    BY <2>1, <2>3, <2>4 DEF ReadConfig, Goes, TypeOK, Fiber, LastLooks
  <2>5. CASE RaiseAlert(c) \/ AlertRejected(c)
    <3>1. /\ pc'[c] = pc[c] /\ todo'[c] = todo[c] /\ base'[c] = base[c]
          /\ \A d \in due[c] : d \in due'[c] \/ Told(d[1], d[2])'
      BY <2>5, DueTold
    <3>2. \A t \in Threshold[b] : <<b, t>> \in due[c] =>
                                    <<b, t>> \in due'[c] \/ Told(b, t)'
      BY <3>1
    <3>3. Reached(b)' = Reached(b) /\ Reached(b) \subseteq Threshold[b]
      BY <2>1 DEF Reached, SpendOf
    <3>4. QED
      BY <1>1, <2>1, <2>3, <3>1, <3>2, <3>3 DEF LastLooks, TellsMore
  <2>6. CASE LoopEnds(c) \/ NothingToWrite(c)
    <3>1. pc[c] = "check" /\ due[c] = {} /\ todo[c] = {}
      BY <2>6 DEF LoopEnds, NothingToWrite, Goes
    <3>2. \A t \in Reached(b) : Told(b, t)
      BY <2>3, <3>1 DEF LastLooks
    <3>3. QED
      BY <1>1, <2>1, <3>2 DEF TellsMore, Reached, SpendOf
  <2>7. CASE PatchRead(c) \/ PatchWrite(c)
    BY <2>3, <2>7 DEF PatchRead, PatchWrite, Goes, LastLooks
  <2>8. CASE CheckFails(c)
    BY <2>8 DEF CheckFails, Goes, TypeOK, Fiber, Failed
  <2>9. CASE CheckBudget(c)
    <3>1. /\ pc[c] = "check" /\ pc' = pc /\ due[c] = {} /\ base' = base
          /\ base[c] = counted
      BY <2>3, <2>9, CheckOne DEF LastLooks
    <3>2. PICK a \in todo[c] : \E S \in Seen(c, a), h \in Amount :
                                Compares(c, a, S, h)
      BY <2>9, CheckOne
    <3>3. PICK S \in Seen(c, a), h \in Amount :
            /\ due'[c] = {a} \X NewlyCrossed(a, view[c].crossed[a], Spend[S])
            /\ todo'[c] = todo[c] \ {a}
      BY <3>2 DEF Compares
    <3>4. CASE a # b
      <4>1. b \in todo[c] => LastLooks(c, b)'
        BY <2>1, <3>1, <3>3, <3>4 DEF LastLooks
      <4>2. b \notin todo[c] => \A t \in Reached(b) : Told(b, t)'
        BY <1>1, <2>1, <2>3, <3>1 DEF LastLooks, TellsMore, Reached, SpendOf
      <4>3. QED
        BY <4>1, <4>2
    <3>5. CASE a = b
      <4>1. S = counted \ past[b]
        BY <3>1, <3>5 DEF Seen, MissInv, Dated
      <4>2. view[c].crossed[b] \in Nat /\ SpendOf(b) \in Nat
        <5>1. view[c].crossed \in [Budget -> Amount]
          BY DEF TypeOK, Marks
        <5>2. SpendOf(b) \in Nat
          BY BillingAssumption DEF TypeOK, SpendOf
        <5>3. QED
          BY <5>1, <5>2, Amounts
      <4>3. ASSUME NEW t \in Reached(b)
            PROVE  Told(b, t)' \/ <<b, t>> \in due'[c]
        <5>1. t \in Threshold[b] /\ t \in Nat /\ t <= SpendOf(b)
          BY Amounts DEF Reached
        <5>2. CASE t <= view[c].crossed[b]
          BY <1>1, <3>1, <5>1, <5>2 DEF KnownOrDue, TellsMore
        <5>3. CASE view[c].crossed[b] < t
          <6>1. t \in NewlyCrossed(b, view[c].crossed[b], Spend[S])
            BY <4>1, <5>1, <5>3 DEF NewlyCrossed, SpendOf
          <6>2. QED
            BY <3>3, <3>5, <6>1
        <5>4. QED
          BY <4>2, <5>1, <5>2, <5>3
      <4>4. Reached(b)' = Reached(b)
        BY <2>1 DEF Reached, SpendOf
      <4>5. QED
        BY <2>1, <3>1, <4>3, <4>4 DEF LastLooks
    <3>6. QED
      BY <3>4, <3>5
  <2>10. QED
    BY <1>6, <2>4, <2>5, <2>6, <2>7, <2>8, <2>9 DEF CheckBudgets
<1>7. ASSUME NEW w \in Writer, ReadForWrite(w) \/ WriteBack(w)
      PROVE  \A b \in Budget : Covered(b)'
  BY <1>2, <1>3, <1>7, WriterAlone DEF rowVars, Holds, SpendOf
<1>8. CASE Crash
  <2>1. /\ counted' = counted /\ past' = past
        /\ \A c \in Ingest : pc[c] \notin Active
    BY <1>8 DEF Crash, Failed, Fiber, rowVars, history
  <2>2. \A b \in Budget, c \in Ingest : ~LastLooks(c, b)
    BY <2>1 DEF LastLooks, Active, Inside
  <2>3. QED
    BY <1>2, <2>1, <2>2 DEF SpendOf
<1>9. CASE UNCHANGED vars \/ \E g \in Gen : DateComes(g)
  <2>1. UNCHANGED <<counted, past, pc, localVars>>
    BY <1>9 DEF vars, DateComes, rowVars, history
  <2>2. QED
    BY <1>2, <1>3, <2>1 DEF localVars, Holds, SpendOf
<1>10. ASSUME NEW b \in Budget, Roll(b) PROVE FALSE
  BY <1>1, <1>10 DEF Roll, TypeOK
<1>11. QED
  BY <1>4, <1>5, <1>6, <1>7, <1>8, <1>9, <1>10, NextCases

\* "For each threshold newly crossed fire exactly ONE billing_budget alert"
\* (billing.ts), for any events, dates, budgets and writers: none that the
\* spend had reached at the latest check is passed over in the first period,
\* however the checks of a batch interleave.
THEOREM NoThresholdMissed == Spec => []NoAlertMissed
<1>1. TypeOK /\ MissInv => NoAlertMissed
  <2> SUFFICES ASSUME TypeOK, MissInv, AllChecked, rolls = 0,
                      NEW b \in Budget, NEW t \in Threshold[b], t <= SpendOf(b)
               PROVE  Told(b, t)
    BY DEF NoAlertMissed, Told
  <2>1. t \in Reached(b)
    BY DEF Reached
  <2>2. ~Failed /\ \A c \in Ingest : ~LastLooks(c, b)
    BY DEF AllChecked, Failed, LastLooks, Fiber
  <2>3. QED
    BY <2>1, <2>2 DEF MissInv, CoverInv, Covered
<1>2. TypeOK /\ MissInv /\ [Next]_vars => MissInv'
  BY EndedNext, DatedNext, KnownNext, CoverNext DEF MissInv
<1>3. QED
  BY <1>1, <1>2, MissInit, TypeCorrect, PTL DEF Spec

-----------------------------------------------------------------------------
(* As long as writers do not overlap                                       *)

Calm == ~overlapped /\ ~Failed

OneInside ==
  \A f, g \in Fiber : pc[f] \in Inside /\ pc[g] \in Inside => f = g

\* A check that has its copy of the marks.
Visits(c) == pc[c] \in {"check", "patch", "write"}

\* What a check works with is what there is: all the events that count, the row
\* it will write and, until it changes something, the marks.
FreshOf(c) ==
  /\ pc[c] \in Inside => base[c] = counted
  /\ Visits(c) /\ ~dirty[c] => /\ view[c].crossed = config.crossed
                               /\ view[c].paused = config.paused
Fresh ==
  /\ \A c \in Ingest : FreshOf(c)
  /\ \A f \in Fiber : pc[f] = "write" => cur[f] = config

\* The mark that counts is the copy of the check, and the row's without one.
Latest(b, t) ==
  /\ \A c \in Ingest : Visits(c) => t <= view[c].crossed[b]
  /\ (\A c \in Ingest : ~Visits(c)) => t <= config.crossed[b]

\* It is at or above every threshold that was alerted of.
AlertedOf(b, t) ==
  /\ alerts[b][t] <= 1
  /\ alerts[b][t] = 1 => t \in Threshold[b] /\ t <= SpendOf(b) /\ Latest(b, t)
DueOf(c, b, t) ==
  <<b, t>> \in due[c] => /\ alerts[b][t] = 0 /\ t \in Threshold[b]
                         /\ t <= SpendOf(b) /\ t <= view[c].crossed[b]
Once ==
  \A b \in Budget, t \in Amount :
    AlertedOf(b, t) /\ \A c \in Ingest : DueOf(c, b, t)

\* A breach is in the flag, in its copy, or in a budget still to be checked.
PausedOf(b) ==
  Limit[b] <= SpendOf(b) =>
    /\ \A c \in Ingest : pc[c] \in Inside =>
         pc[c] = "read" \/ b \in todo[c] \/ view[c].paused
    /\ (\A c \in Ingest : pc[c] \notin Inside) => config.paused
Paused == \A b \in Pausing : PausedOf(b)

\* A check that is through its loop has visited every budget.
Through == \A c \in Ingest : pc[c] \in {"patch", "write"} => todo[c] = {}

CalmInv == Calm => OneInside /\ Fresh /\ Once /\ Paused

LEMMA SpendTypes ==
  ASSUME TypeOK, NEW b \in Budget
  PROVE  /\ SpendOf(b) \in Nat
         /\ \A t \in Amount : alerts[b][t] \in Nat /\ t \in Nat
         /\ \A t \in Threshold[b] : t \in Amount /\ t \in Nat \ {0}
         /\ \A c \in Ingest : view[c].crossed[b] \in Nat
         /\ config.crossed[b] \in Nat /\ Limit[b] \in Nat \ {0}
<1>1. SpendOf(b) \in Nat
  BY BillingAssumption DEF TypeOK, SpendOf
<1>2. \A c \in Ingest : view[c].crossed \in [Budget -> Amount]
  BY DEF TypeOK, Marks
<1>3. config.crossed \in [Budget -> Amount]
  BY DEF TypeOK, Config
<1>4. \A t \in Amount : alerts[b][t] \in Nat /\ t \in Nat
  BY Amounts DEF TypeOK
<1>5. \A t \in Threshold[b] : t \in Amount /\ t \in Nat \ {0}
  BY Amounts, BillingAssumption
<1>6. \A c \in Ingest : view[c].crossed[b] \in Nat
  BY <1>2, Amounts
<1>7. config.crossed[b] \in Nat /\ Limit[b] \in Nat \ {0}
  BY <1>3, Amounts, BillingAssumption
<1>8. QED
  BY <1>1, <1>4, <1>5, <1>6, <1>7

\* More events do not cost less.
LEMMA SpendGrows ==
  ASSUME TypeOK, Dated, NEW c \in Ingest, CreateEvent(c), NEW b \in Budget
  PROVE  SpendOf(b) <= SpendOf(b)' /\ SpendOf(b)' \in Nat
<1>1. counted' \ past'[b] \in SUBSET Gen
  BY CountedGrows
<1>2. counted \ past[b] \in SUBSET (counted' \ past'[b])
  BY CountedGrows
<1>3. QED
  BY <1>1, <1>2, BillingAssumption DEF SpendOf

LEMMA ThroughNext == TypeOK /\ Through /\ [Next]_vars => Through'
<1> SUFFICES ASSUME TypeOK, Through, [Next]_vars PROVE Through'
  OBVIOUS
<1> USE BillingAssumption DEF Through, Fiber
<1>1. ASSUME NEW c \in Ingest, FindEvent(c) \/ CreateTwice(c) \/ CreateEvent(c)
      PROVE  Through'
  <2>1. /\ \A d \in Ingest \ {c} : pc'[d] = pc[d] /\ todo'[d] = todo[d]
        /\ pc'[c] \notin {"patch", "write"}
    BY <1>1, RecordAlone
       DEF SameOthers, Holds, FindEvent, CreateTwice, CreateEvent, Goes, TypeOK
  <2>2. QED
    BY <2>1
<1>2. ASSUME NEW c \in Ingest, CheckBudgets(c) PROVE Through'
  <2>1. \A d \in Ingest \ {c} : pc'[d] = pc[d] /\ todo'[d] = todo[d]
    BY <1>2, CheckAlone DEF SameOthers, Holds
  <2>2. pc'[c] \in {"patch", "write"} => todo'[c] = {}
    <3>1. CASE ReadConfig(c) \/ CheckBudget(c) \/ RaiseAlert(c)
               \/ AlertRejected(c)
      BY <3>1 DEF ReadConfig, CheckBudget, RaiseAlert, AlertRejected, Goes,
                  TypeOK
    <3>2. CASE LoopEnds(c) \/ PatchRead(c)
      BY <3>2 DEF LoopEnds, PatchRead, Goes, localVars
    <3>3. CASE NothingToWrite(c) \/ PatchWrite(c) \/ CheckFails(c)
      BY <3>3, ForgetsOne DEF NothingToWrite, PatchWrite, CheckFails
    <3>4. QED
      BY <1>2, <3>1, <3>2, <3>3 DEF CheckBudgets
  <2>3. QED
    BY <2>1, <2>2
<1>3. ASSUME NEW w \in Writer, ReadForWrite(w) \/ WriteBack(w) PROVE Through'
  BY <1>3, WriterAlone
<1>4. CASE Crash
  BY <1>4, ForgetsOne DEF Crash
<1>5. CASE \/ UNCHANGED vars
           \/ \E b \in Budget : Roll(b)
           \/ \E g \in Gen : DateComes(g)
  BY <1>5 DEF vars, Roll, DateComes, localVars
<1>6. QED
  BY <1>1, <1>2, <1>3, <1>4, <1>5, NextCases

-----------------------------------------------------------------------------
(* The view of the one check that is inside                                *)

OnlyOne(c) == \A f \in Fiber : f # c => pc[f] \notin Inside
Mark(c, b) == IF Visits(c) THEN view[c].crossed[b] ELSE config.crossed[b]
AlertOf(c, b, t) ==
  /\ alerts[b][t] <= 1
  /\ alerts[b][t] = 1 => /\ t \in Threshold[b] /\ t <= SpendOf(b)
                         /\ t <= Mark(c, b)
FlagOf(c, b) ==
  Limit[b] <= SpendOf(b) =>
    IF pc[c] \in Inside THEN pc[c] = "read" \/ b \in todo[c] \/ view[c].paused
    ELSE config.paused

LEMMA Focus ==
  ASSUME NEW c \in Ingest, pc[c] \in Inside, OneInside, Once, Paused, Ended
  PROVE  /\ OnlyOne(c)
         /\ \A d \in Ingest : d # c => due[d] = {}
         /\ \A b \in Budget, t \in Amount : AlertOf(c, b, t) /\ DueOf(c, b, t)
         /\ \A b \in Pausing : FlagOf(c, b)
<1>1. OnlyOne(c)
  BY DEF OneInside, OnlyOne, Fiber
<1>2. \A d \in Ingest : d # c => pc[d] \notin Inside /\ ~Visits(d)
  BY <1>1 DEF OnlyOne, Fiber, Visits, Inside
<1>3. \A d \in Ingest : d # c => due[d] = {}
  BY <1>2 DEF Ended, Visits
<1>4. ASSUME NEW b \in Budget, NEW t \in Amount
      PROVE  AlertOf(c, b, t) /\ DueOf(c, b, t)
  <2>1. Latest(b, t) => t <= Mark(c, b)
    BY <1>2 DEF Latest, Mark
  <2>2. QED
    BY <2>1 DEF Once, AlertedOf, AlertOf
<1>5. ASSUME NEW b \in Pausing PROVE FlagOf(c, b)
  BY DEF Paused, PausedOf, FlagOf
<1>6. QED
  BY <1>1, <1>3, <1>4, <1>5

LEMMA Unfocus ==
  ASSUME NEW c \in Ingest, OnlyOne(c)', FreshOf(c)',
         pc'[c] = "write" => cur'[c] = config',
         \A d \in Ingest : d # c => due'[d] = {},
         \A b \in Budget, t \in Amount : AlertOf(c, b, t)' /\ DueOf(c, b, t)',
         \A b \in Pausing : FlagOf(c, b)'
  PROVE  OneInside' /\ Fresh' /\ Once' /\ Paused'
<1>1. OneInside'
  BY DEF OneInside, OnlyOne
<1>2. \A d \in Ingest : d # c => pc'[d] \notin Inside /\ ~Visits(d)'
  BY DEF OnlyOne, Fiber, Visits, Inside
<1>3. Fresh'
  BY <1>2 DEF Fresh, FreshOf, OnlyOne, Inside
<1>4. Once'
  <2> SUFFICES ASSUME NEW b \in Budget, NEW t \in Amount
               PROVE  AlertedOf(b, t)' /\ \A d \in Ingest : DueOf(d, b, t)'
    BY DEF Once
  <2>1. t <= Mark(c, b)' => Latest(b, t)'
    BY <1>2 DEF Latest, Mark
  <2>2. AlertedOf(b, t)'
    BY <2>1 DEF AlertedOf, AlertOf
  <2>3. \A d \in Ingest : DueOf(d, b, t)'
    BY DEF DueOf
  <2>4. QED
    BY <2>2, <2>3
<1>5. Paused'
  <2> SUFFICES ASSUME NEW b \in Pausing PROVE PausedOf(b)'
    BY DEF Paused
  <2>1. FlagOf(c, b)'
    OBVIOUS
  <2>2. QED
    BY <1>2, <2>1 DEF PausedOf, FlagOf
<1>6. QED
  BY <1>1, <1>3, <1>4, <1>5

-----------------------------------------------------------------------------
(* The steps of a calm check                                               *)

\* Steps of the check that alert of nothing and compare nothing.
LEMMA CalmQuietStep ==
  ASSUME TypeOK, Ended, Through, NEW c \in Ingest,
         \/ ReadConfig(c) \/ LoopEnds(c) \/ NothingToWrite(c)
         \/ PatchRead(c) \/ PatchWrite(c),
         OneInside, Fresh, Once, Paused
  PROVE  OneInside' /\ Fresh' /\ Once' /\ Paused'
<1>1. pc[c] \in Inside /\ c \in Fiber
  BY DEF ReadConfig, LoopEnds, NothingToWrite, PatchRead, PatchWrite, Goes,
         Inside, Fiber
<1>2. /\ OnlyOne(c) /\ \A d \in Ingest : d # c => due[d] = {}
      /\ \A b \in Budget, t \in Amount : AlertOf(c, b, t) /\ DueOf(c, b, t)
      /\ \A b \in Pausing : FlagOf(c, b)
  BY <1>1, Focus
<1>3. SameOthers(c) /\ UNCHANGED <<counted, past, alerts>>
  BY CheckAlone
     DEF CheckBudgets, ReadConfig, LoopEnds, NothingToWrite, PatchRead,
         PatchWrite, rowVars
<1>4. OnlyOne(c)' /\ \A d \in Ingest : d # c => due'[d] = {}
  BY <1>2, <1>3 DEF OnlyOne, SameOthers, Holds
<1>5. \A b \in Budget : SpendOf(b)' = SpendOf(b)
  BY <1>3 DEF SpendOf
<1>6. FreshOf(c) /\ (pc[c] = "write" => cur[c] = config)
  BY <1>1 DEF Fresh
<1>7. CASE ReadConfig(c)
  <2>1. /\ pc[c] = "read" /\ pc'[c] = "check" /\ due[c] = {}
        /\ view'[c].crossed = config.crossed
        /\ view'[c].paused = config.paused
        /\ todo'[c] = Budget
        /\ UNCHANGED <<config, base, due, dirty>>
    BY <1>1, <1>7 DEF ReadConfig, Goes, TypeOK, Ended
  <2>2. FreshOf(c)'
    BY <1>3, <1>6, <2>1 DEF FreshOf, Inside, Visits
  <2>3. ASSUME NEW b \in Budget, NEW t \in Amount
        PROVE  AlertOf(c, b, t)' /\ DueOf(c, b, t)'
    <3>1. Mark(c, b)' = Mark(c, b) /\ <<b, t>> \notin due'[c]
      BY <2>1 DEF Mark, Visits
    <3>2. AlertOf(c, b, t)'
      BY <1>2, <1>3, <1>5, <3>1 DEF AlertOf
    <3>3. DueOf(c, b, t)'
      BY <3>1 DEF DueOf
    <3>4. QED
      BY <3>2, <3>3
  <2>4. \A b \in Pausing : FlagOf(c, b)'
    BY <2>1, BillingAssumption DEF FlagOf, Inside
  <2>5. QED
    BY <1>4, <2>1, <2>2, <2>3, <2>4, Unfocus
<1>8. CASE LoopEnds(c) \/ PatchRead(c)
  <2>1. /\ Visits(c) /\ Visits(c)' /\ due[c] = {}
        /\ pc[c] \in Inside /\ pc[c] # "read" /\ pc'[c] \in {"patch", "write"}
        /\ UNCHANGED <<config, base, view, todo, due, dirty>>
        /\ pc'[c] = "write" => cur'[c] = config
    <3>1. CASE LoopEnds(c)
      BY <1>1, <3>1 DEF LoopEnds, Goes, TypeOK, Visits, Inside, localVars
    <3>2. CASE PatchRead(c)
      <4>1. pc[c] = "patch" /\ pc'[c] = "write" /\ cur'[c] = config
        BY <1>1, <3>2 DEF PatchRead, Goes, TypeOK
      <4>2. due[c] = {} /\ UNCHANGED <<config, base, view, todo, due, dirty>>
        BY <3>2, <4>1 DEF PatchRead, Ended
      <4>3. QED
        BY <4>1, <4>2 DEF Visits, Inside
    <3>3. QED
      BY <1>8, <3>1, <3>2
  <2>2. FreshOf(c)'
    BY <1>1, <1>3, <1>6, <2>1 DEF FreshOf
  <2>3. ASSUME NEW b \in Budget, NEW t \in Amount
        PROVE  AlertOf(c, b, t)' /\ DueOf(c, b, t)'
    BY <1>2, <1>3, <1>5, <2>1 DEF AlertOf, DueOf, Mark
  <2>4. ASSUME NEW b \in Pausing PROVE FlagOf(c, b)'
    <3>1. pc'[c] \in Inside
      BY <2>1 DEF Inside
    <3>2. QED
      BY <1>2, <1>5, <2>1, <3>1, BillingAssumption DEF FlagOf
  <2>5. QED
    BY <1>4, <2>1, <2>2, <2>3, <2>4, Unfocus
<1>9. CASE NothingToWrite(c) \/ PatchWrite(c)
  <2>1. /\ Visits(c) /\ pc[c] # "read" /\ pc'[c] = "done"
        /\ todo[c] = {} /\ due'[c] = {}
    BY <1>1, <1>9, ForgetsOne
       DEF NothingToWrite, PatchWrite, Goes, TypeOK, Visits, Through
  <2>2. /\ config'.crossed = view[c].crossed
        /\ config'.paused = view[c].paused
    <3>1. CASE NothingToWrite(c)
      BY <1>6, <2>1, <3>1 DEF NothingToWrite, FreshOf
    <3>2. CASE PatchWrite(c)
      <4>1. cur[c] \in Config
        BY <1>1 DEF TypeOK
      <4>2. config' = [cur[c] EXCEPT !.crossed = view[c].crossed,
                                     !.paused = view[c].paused]
        BY <3>2 DEF PatchWrite
      <4>3. QED
        BY <4>1, <4>2 DEF Config
    <3>3. QED
      BY <1>9, <3>1, <3>2
  <2>3. ~Visits(c)' /\ pc'[c] \notin Inside
    BY <2>1 DEF Visits, Inside
  <2>4. FreshOf(c)'
    BY <2>3 DEF FreshOf
  <2>5. ASSUME NEW b \in Budget, NEW t \in Amount
        PROVE  AlertOf(c, b, t)' /\ DueOf(c, b, t)'
    <3>1. Mark(c, b)' = Mark(c, b)
      BY <2>1, <2>2, <2>3 DEF Mark
    <3>2. AlertOf(c, b, t)'
      BY <1>2, <1>3, <1>5, <3>1 DEF AlertOf
    <3>3. DueOf(c, b, t)'
      BY <2>1 DEF DueOf
    <3>4. QED
      BY <3>2, <3>3
  <2>6. ASSUME NEW b \in Pausing PROVE FlagOf(c, b)'
    <3>1. FlagOf(c, b) /\ b \notin todo[c] /\ SpendOf(b)' = SpendOf(b)
      BY <1>2, <1>5, <2>1, BillingAssumption
    <3>2. QED
      BY <1>1, <2>1, <2>2, <2>3, <3>1 DEF FlagOf
  <2>7. QED
    BY <1>4, <2>1, <2>4, <2>5, <2>6, Unfocus
<1>10. QED
  BY <1>7, <1>8, <1>9

\* One budget is compared: what is due is above the old mark and at or below
\* the new one.
LEMMA CalmCheckStep ==
  ASSUME TypeOK, Ended, Dated, NEW c \in Ingest, CheckBudget(c),
         OneInside, Fresh, Once, Paused
  PROVE  OneInside' /\ Fresh' /\ Once' /\ Paused'
<1> USE BillingAssumption
<1>1. /\ pc[c] = "check" /\ pc' = pc /\ due[c] = {} /\ c \in Fiber
      /\ UNCHANGED <<rowVars, config, base, cur, counted>>
  BY CheckOne DEF Fiber, history
<1>2. PICK a \in todo[c] : \E S \in Seen(c, a), h \in Amount :
                            Compares(c, a, S, h)
  BY CheckOne
<1>3. PICK S \in Seen(c, a), h \in Amount : Compares(c, a, S, h)
  BY <1>2
<1>4. pc[c] \in Inside /\ pc'[c] \in Inside /\ Visits(c) /\ Visits(c)'
  BY <1>1 DEF Inside, Visits
<1>5. /\ OnlyOne(c) /\ \A d \in Ingest : d # c => due[d] = {}
      /\ \A b \in Budget, t \in Amount : AlertOf(c, b, t) /\ DueOf(c, b, t)
      /\ \A b \in Pausing : FlagOf(c, b)
  BY <1>4, Focus
<1>6. OnlyOne(c)' /\ \A d \in Ingest : d # c => due'[d] = {}
  BY <1>1, <1>5, CheckAlone DEF OnlyOne, SameOthers, Holds, CheckBudgets
<1>7. /\ a \in Budget /\ Spend[S] = SpendOf(a) /\ base[c] = counted
      /\ FreshOf(c)
  <2>1. FreshOf(c) /\ a \in Budget
    BY DEF Fresh, TypeOK
  <2>2. base[c] = counted
    BY <1>4, <2>1 DEF FreshOf
  <2>3. S = counted \ past[a]
    BY <2>2 DEF Seen, Dated
  <2>4. QED
    BY <2>1, <2>2, <2>3 DEF SpendOf
<1>8. \A b \in Budget : SpendOf(b)' = SpendOf(b)
  BY <1>1 DEF SpendOf, rowVars
<1> DEFINE last == view[c].crossed[a]
           new  == NewlyCrossed(a, last, Spend[S])
<1>9. /\ CrossedBy(a, last, Spend[S], h)
      /\ due'[c] = {a} \X new
      /\ view'[c].crossed = [view[c].crossed EXCEPT ![a] = h]
      /\ view'[c].paused = (view[c].paused \/ Breached(a, Spend[S]))
      /\ todo'[c] = todo[c] \ {a}
      /\ ~dirty'[c] => /\ ~dirty[c] /\ h = last
                       /\ view'[c].paused = view[c].paused
  BY <1>3 DEF Compares
<1>10. /\ view'[c].crossed[a] = h
       /\ \A b \in Budget : b # a => view'[c].crossed[b] = view[c].crossed[b]
  BY <1>7, <1>9 DEF TypeOK, Marks
<1>11. /\ last \in Nat /\ Spend[S] \in Nat /\ h \in Nat
       /\ \A t \in Threshold[a] : t \in Nat
  BY <1>7, SpendTypes, Amounts
<1>12. \A t \in Threshold[a] :
         t <= Spend[S] /\ (t <= last \/ t \in new) => t <= h
  <2> SUFFICES ASSUME NEW t \in Threshold[a], t <= Spend[S],
                      t <= last \/ t \in new
               PROVE  t <= h
    OBVIOUS
  <2>1. CASE h \in new /\ \A u \in new : u <= h
    BY <1>11, <2>1 DEF NewlyCrossed
  <2>2. CASE /\ new = {}
             /\ h = IF \A u \in Threshold[a] : Spend[S] < u THEN 0 ELSE last
    <3>1. h = last
      BY <1>11, <2>2
    <3>2. QED
      BY <2>2, <3>1
  <2>3. QED
    BY <1>9, <2>1, <2>2 DEF CrossedBy
<1> HIDE DEF last, new
<1>13. FreshOf(c)'
  <2>1. base'[c] = counted'
    BY <1>1, <1>7 DEF rowVars
  <2>2. ASSUME ~dirty'[c]
        PROVE  /\ view'[c].crossed = config'.crossed
               /\ view'[c].paused = config'.paused
    <3>1. /\ view[c].crossed = config.crossed /\ view[c].paused = config.paused
          /\ h = last /\ view'[c].paused = view[c].paused
      BY <1>4, <1>7, <1>9, <2>2 DEF FreshOf
    <3>2. view'[c].crossed = view[c].crossed
      BY <1>7, <1>9, <3>1 DEF last, TypeOK, Marks
    <3>3. QED
      BY <1>1, <3>1, <3>2
  <2>3. QED
    BY <2>1, <2>2 DEF FreshOf
<1>14. ASSUME NEW b \in Budget, NEW t \in Amount
       PROVE  AlertOf(c, b, t)' /\ DueOf(c, b, t)'
  <2>1. alerts' = alerts /\ AlertOf(c, b, t) /\ alerts[b][t] \in Nat
    BY <1>1, <1>5, SpendTypes DEF rowVars
  <2>2. CASE b # a
    <3>1. <<b, t>> \notin due'[c]
      BY <1>9, <2>2
    <3>2. view'[c].crossed[b] = view[c].crossed[b]
      BY <1>10, <2>2
    <3>3. QED
      BY <1>4, <1>8, <2>1, <3>1, <3>2 DEF AlertOf, DueOf, Mark
  <2>3. CASE b = a
    <3>1. alerts[b][t] = 1 => t <= h /\ t <= last
      BY <1>4, <1>7, <1>12, <2>1, <2>3 DEF AlertOf, Mark, last
    <3>2. AlertOf(c, b, t)'
      BY <1>4, <1>8, <1>10, <2>1, <2>3, <3>1 DEF AlertOf, Mark
    <3>3. ASSUME t \in new
          PROVE  /\ t \in Threshold[b] /\ t <= SpendOf(b) /\ t <= h
                 /\ alerts[b][t] = 0
      <4>1. t \in Threshold[a] /\ last < t /\ t <= Spend[S]
        BY <3>3 DEF new, NewlyCrossed
      <4>2. alerts[b][t] # 1
        BY <1>11, <3>1, <4>1
      <4>3. alerts[b][t] = 0
        BY <2>1, <4>2 DEF AlertOf
      <4>4. QED
        BY <1>7, <1>12, <2>3, <3>3, <4>1, <4>3
    <3>4. <<b, t>> \in due'[c] => t \in new
      BY <1>9
    <3>5. DueOf(c, b, t)'
      BY <1>8, <1>10, <2>1, <2>3, <3>3, <3>4 DEF DueOf
    <3>6. QED
      BY <3>2, <3>5
  <2>4. QED
    BY <2>2, <2>3
<1>15. ASSUME NEW b \in Pausing PROVE FlagOf(c, b)'
  <2>1. b \in Budget /\ FlagOf(c, b)
    BY <1>5
  <2>2. CASE b = a
    <3>1. Limit[b] <= SpendOf(b) => view'[c].paused
      BY <1>7, <1>9, <2>2 DEF Breached
    <3>2. QED
      BY <1>4, <1>8, <2>1, <3>1 DEF FlagOf
  <2>3. CASE b # a
    <3>1. /\ b \in todo[c] => b \in todo'[c]
          /\ view[c].paused => view'[c].paused
      BY <1>9, <2>3
    <3>2. QED
      BY <1>1, <1>4, <1>8, <2>1, <3>1 DEF FlagOf
  <2>4. QED
    BY <2>2, <2>3
<1>16. pc'[c] # "write"
  BY <1>1
<1>17. QED
  BY <1>6, <1>13, <1>14, <1>15, <1>16, Unfocus

\* One alert is raised, or rejected: what was due had not been alerted of.
LEMMA CalmAlertStep ==
  ASSUME TypeOK, Ended, NEW c \in Ingest, RaiseAlert(c) \/ AlertRejected(c),
         OneInside, Fresh, Once, Paused
  PROVE  OneInside' /\ Fresh' /\ Once' /\ Paused'
<1>1. /\ pc[c] = "check" /\ pc' = pc /\ c \in Fiber
      /\ UNCHANGED <<counted, past, config, base, view, todo, dirty>>
  BY DEF RaiseAlert, AlertRejected, Goes, TypeOK, Fiber, rowVars, history
<1>2. pc[c] \in Inside /\ Visits(c) /\ Visits(c)'
  BY <1>1 DEF Inside, Visits
<1>3. /\ OnlyOne(c) /\ \A d \in Ingest : d # c => due[d] = {}
      /\ \A b \in Budget, t \in Amount : AlertOf(c, b, t) /\ DueOf(c, b, t)
      /\ \A b \in Pausing : FlagOf(c, b)
  BY <1>2, Focus
<1>4. OnlyOne(c)' /\ \A d \in Ingest : d # c => due'[d] = {}
  BY <1>1, <1>3, CheckAlone DEF OnlyOne, SameOthers, Holds, CheckBudgets
<1>5. FreshOf(c)'
  BY <1>1, <1>2 DEF Fresh, FreshOf, Visits
<1>6. \A b \in Pausing : FlagOf(c, b)'
  BY <1>1, <1>3 DEF FlagOf, SpendOf
<1>7. PICK d \in due[c] :
        /\ \/ alerts' = [alerts EXCEPT ![d[1]][d[2]] = @ + 1]
           \/ alerts' = alerts
        /\ due' = [due EXCEPT ![c] = @ \ {d}]
  BY DEF RaiseAlert, AlertRejected, rowVars
<1>8. /\ d = <<d[1], d[2]>> /\ d[1] \in Budget /\ d[2] \in Amount
      /\ due'[c] = due[c] \ {d}
  BY <1>7 DEF TypeOK
<1>9. ASSUME NEW b \in Budget, NEW t \in Amount
      PROVE  AlertOf(c, b, t)' /\ DueOf(c, b, t)'
  <2>1. /\ SpendOf(b)' = SpendOf(b) /\ Mark(c, b)' = Mark(c, b)
        /\ Mark(c, b) = view[c].crossed[b] /\ view' = view
    BY <1>1, <1>2 DEF SpendOf, Mark, Visits
  <2>2. CASE <<b, t>> = d
    <3>1. /\ alerts[b][t] = 0 /\ t \in Threshold[b] /\ t <= SpendOf(b)
          /\ t <= view[c].crossed[b]
      BY <1>3, <1>8, <2>2 DEF DueOf
    <3>2. alerts'[b][t] \in {0, 1}
      BY <1>7, <2>2, <3>1 DEF TypeOK
    <3>3. <<b, t>> \notin due'[c]
      BY <1>8, <2>2
    <3>4. QED
      BY <2>1, <3>1, <3>2, <3>3 DEF AlertOf, DueOf
  <2>3. CASE <<b, t>> # d
    <3>1. b # d[1] \/ t # d[2]
      BY <1>8, <2>3
    <3>2. alerts'[b][t] = alerts[b][t]
      BY <1>7, <1>8, <3>1 DEF TypeOK
    <3>3. <<b, t>> \in due'[c] => <<b, t>> \in due[c]
      BY <1>8
    <3>4. QED
      BY <1>3, <2>1, <3>2, <3>3 DEF AlertOf, DueOf
  <2>4. QED
    BY <2>2, <2>3
<1>10. pc'[c] # "write"
  BY <1>1
<1>11. QED
  BY <1>4, <1>5, <1>6, <1>9, <1>10, Unfocus

\* An event is recorded, or found: the marks stay what they were.
LEMMA CalmRecordStep ==
  ASSUME TypeOK, Ended, Dated, NEW c \in Ingest,
         FindEvent(c) \/ CreateTwice(c) \/ CreateEvent(c),
         ~overlapped', OneInside, Fresh, Once, Paused
  PROVE  OneInside' /\ Fresh' /\ Once' /\ Paused'
<1>1. /\ pc[c] \in {"idle", "create"} /\ c \in Fiber
      /\ pc'[c] \in {"create", "read", "done"}
      /\ \A f \in Fiber : f # c => pc'[f] = pc[f]
      /\ UNCHANGED <<alerts, config, cur, view, todo, due, dirty>>
  BY DEF FindEvent, CreateTwice, CreateEvent, Goes, TypeOK, Fiber, rowVars,
         localVars
<1>2. /\ \A d \in Ingest : Visits(d)' <=> Visits(d)
      /\ ~Visits(c) /\ ~Visits(c)'
  BY <1>1 DEF Visits, Fiber
<1>3. CreateEvent(c) \/ UNCHANGED <<past, base, counted>>
  BY DEF FindEvent, CreateTwice, rowVars, localVars, history
<1>4. ASSUME NEW b \in Budget
      PROVE  /\ SpendOf(b) <= SpendOf(b)' /\ SpendOf(b) \in Nat
             /\ SpendOf(b)' \in Nat
  <2>1. CASE CreateEvent(c)
    BY <2>1, SpendGrows, SpendTypes
  <2>2. CASE UNCHANGED <<past, base, counted>>
    <3>1. SpendOf(b)' = SpendOf(b) /\ SpendOf(b) \in Nat
      BY <2>2, SpendTypes DEF SpendOf
    <3>2. QED
      BY <3>1
  <2>3. QED
    BY <1>3, <2>1, <2>2
<1>5. Once'
  <2> SUFFICES ASSUME NEW b \in Budget, NEW t \in Amount
               PROVE  AlertedOf(b, t)' /\ \A d \in Ingest : DueOf(d, b, t)'
    BY DEF Once
  <2>1. \A u \in Nat : u <= SpendOf(b) => u <= SpendOf(b)'
    BY <1>4
  <2>2. t \in Nat
    BY Amounts
  <2>3. AlertedOf(b, t) /\ \A d \in Ingest : DueOf(d, b, t)
    BY DEF Once
  <2>4. AlertedOf(b, t)'
    BY <1>1, <1>2, <2>1, <2>2, <2>3 DEF AlertedOf, Latest
  <2>5. \A d \in Ingest : DueOf(d, b, t)'
    BY <1>1, <2>1, <2>2, <2>3 DEF DueOf
  <2>6. QED
    BY <2>4, <2>5
<1>6. CASE ~CreateEvent(c)
  <2>1. /\ base' = base /\ counted' = counted /\ past' = past
        /\ pc'[c] \notin Inside /\ pc[c] \notin Inside
    BY <1>1, <1>3, <1>6
       DEF FindEvent, CreateTwice, Goes, rowVars, localVars, Inside, TypeOK,
           Fiber
  <2>2. OneInside'
    BY <1>1, <2>1 DEF OneInside
  <2>3. Fresh'
    BY <1>1, <1>2, <2>1 DEF Fresh, FreshOf, Fiber, Inside
  <2>4. \A d \in Ingest : pc'[d] \in Inside => pc'[d] = pc[d]
    BY <1>1, <2>1 DEF Fiber
  <2>5. \A d \in Ingest : pc[d] \in Inside => pc'[d] \in Inside
    BY <1>1, <2>1 DEF Fiber
  <2>6. Paused'
    BY <1>1, <2>1, <2>4, <2>5 DEF Paused, PausedOf, SpendOf
  <2>7. QED
    BY <1>5, <2>2, <2>3, <2>6
<1>7. CASE CreateEvent(c)
  <2>1. /\ pc'[c] = "read" /\ base'[c] = counted'
        /\ \A f \in Fiber : f # c => pc[f] \notin Inside
    BY <1>1, <1>7 DEF CreateEvent, Goes, TypeOK, Enters
  <2>2. OneInside'
    BY <1>1, <2>1 DEF OneInside
  <2>3. Fresh'
    <3>1. ASSUME NEW d \in Ingest PROVE FreshOf(d)'
      BY <1>1, <1>2, <2>1 DEF FreshOf, Fiber, Fresh
    <3>2. ASSUME NEW f \in Fiber PROVE pc'[f] # "write"
      BY <1>1, <2>1 DEF Inside
    <3>3. QED
      BY <3>1, <3>2 DEF Fresh
  <2>4. Paused'
    <3>1. \A d \in Ingest : pc'[d] \in Inside => pc'[d] = "read"
      BY <1>1, <2>1 DEF Fiber
    <3>2. pc'[c] \in Inside
      BY <2>1 DEF Inside
    <3>3. QED
      BY <3>1, <3>2 DEF Paused, PausedOf
  <2>5. QED
    BY <1>5, <2>2, <2>3, <2>4
<1>8. QED
  BY <1>6, <1>7

\* Another writer, a date that comes, a period that ends, a death of the
\* process.
LEMMA CalmOtherStep ==
  ASSUME TypeOK, Ended, Dated, ~overlapped', ~Failed',
         \/ \E w \in Writer : ReadForWrite(w) \/ WriteBack(w)
         \/ \E g \in Gen : DateComes(g)
         \/ \E b \in Budget : Roll(b)
         \/ Crash
         \/ UNCHANGED vars,
         OneInside, Fresh, Once, Paused
  PROVE  OneInside' /\ Fresh' /\ Once' /\ Paused'
\* Nothing a check looks at changes, nor the marks.
<1>1. ASSUME \A c \in Ingest : pc'[c] = pc[c],
             UNCHANGED <<past, alerts, counted, base, view, todo, due, dirty>>,
             config'.crossed = config.crossed, config'.paused = config.paused
      PROVE  Once' /\ Paused' /\ \A c \in Ingest : FreshOf(c)'
  <2>1. /\ \A c \in Ingest : Visits(c)' <=> Visits(c)
        /\ \A b \in Budget : SpendOf(b)' = SpendOf(b)
    BY <1>1 DEF Visits, SpendOf
  <2>2. Once'
    <3> SUFFICES ASSUME NEW b \in Budget, NEW t \in Amount
                 PROVE  AlertedOf(b, t)' /\ \A c \in Ingest : DueOf(c, b, t)'
      BY DEF Once
    <3>1. AlertedOf(b, t) /\ \A c \in Ingest : DueOf(c, b, t)
      BY DEF Once
    <3>2. Latest(b, t) => Latest(b, t)'
      BY <1>1, <2>1 DEF Latest
    <3>3. AlertedOf(b, t)'
      BY <1>1, <2>1, <3>1, <3>2 DEF AlertedOf
    <3>4. \A c \in Ingest : DueOf(c, b, t)'
      BY <1>1, <2>1, <3>1 DEF DueOf
    <3>5. QED
      BY <3>3, <3>4
  <2>3. Paused'
    <3> SUFFICES ASSUME NEW b \in Pausing PROVE PausedOf(b)'
      BY DEF Paused
    <3>1. PausedOf(b) /\ SpendOf(b)' = SpendOf(b)
      BY <2>1, BillingAssumption DEF Paused
    <3>2. QED
      BY <1>1, <3>1 DEF PausedOf
  <2>4. \A c \in Ingest : FreshOf(c)'
    BY <1>1, <2>1 DEF Fresh, FreshOf
  <2>5. QED
    BY <2>2, <2>3, <2>4
<1>2. ASSUME NEW w \in Writer, ReadForWrite(w)
      PROVE  OneInside' /\ Fresh' /\ Once' /\ Paused'
  <2>1. /\ w \in Fiber /\ pc'[w] = "write" /\ cur'[w] = config'
        /\ \A f \in Fiber : f # w => pc[f] \notin Inside /\ pc'[f] = pc[f]
        /\ config' = config
    BY <1>2 DEF ReadForWrite, Goes, TypeOK, Enters, Fiber
  <2>2. Once' /\ Paused' /\ \A c \in Ingest : FreshOf(c)'
    BY <1>1, <1>2, <2>1, WriterAlone DEF rowVars
  <2>3. OneInside'
    BY <2>1 DEF OneInside
  <2>4. Fresh'
    BY <2>1, <2>2 DEF Fresh, Inside
  <2>5. QED
    BY <2>2, <2>3, <2>4
<1>3. ASSUME NEW w \in Writer, WriteBack(w)
      PROVE  OneInside' /\ Fresh' /\ Once' /\ Paused'
  <2>1. /\ w \in Fiber /\ pc[w] = "write" /\ pc'[w] = "done"
        /\ \A f \in Fiber : f # w => pc'[f] = pc[f]
        /\ config' = [cur[w] EXCEPT !.token = IF w \in Rotating THEN w ELSE @]
    BY <1>3 DEF WriteBack, Goes, TypeOK, Fiber
  <2>2. cur[w] = config /\ config \in Config
    BY <2>1 DEF Fresh, TypeOK
  <2>3. config'.crossed = config.crossed /\ config'.paused = config.paused
    BY <2>1, <2>2 DEF Config
  <2>4. Once' /\ Paused' /\ \A c \in Ingest : FreshOf(c)'
    BY <1>1, <1>3, <2>3, WriterAlone DEF rowVars
  <2>5. \A f \in Fiber : pc'[f] \notin Inside
    BY <2>1 DEF OneInside, Inside
  <2>6. OneInside' /\ Fresh'
    BY <2>4, <2>5 DEF OneInside, Fresh, Inside
  <2>7. QED
    BY <2>4, <2>6
<1>4. ASSUME NEW a \in Budget, Roll(a)
      PROVE  OneInside' /\ Fresh' /\ Once' /\ Paused'
  <2>1. /\ UNCHANGED <<counted, config, pc, localVars>>
        /\ \A f \in Fiber : pc[f] \notin Inside
        /\ past' = [past EXCEPT ![a] = recorded \ future]
        /\ alerts' = [alerts EXCEPT ![a] = [t \in Amount |-> 0]]
    BY <1>4 DEF Roll, Quiet, Active, history
  <2>2. /\ \A c \in Ingest : pc[c] \notin Inside /\ ~Visits(c)
        /\ \A c \in Ingest : due'[c] = {} /\ ~Visits(c)'
    BY <2>1 DEF Fiber, Inside, Visits, Ended, localVars
  <2>3. OneInside' /\ Fresh'
    BY <2>1, <2>2 DEF OneInside, Fresh, FreshOf, Inside
  <2>4. SpendOf(a)' = 0 /\ \A b \in Budget : b # a => SpendOf(b)' = SpendOf(b)
    BY <2>1, BillingAssumption DEF SpendOf, TypeOK, Dated
  <2>5. ASSUME NEW b \in Budget, NEW t \in Amount
        PROVE  AlertedOf(b, t)' /\ \A c \in Ingest : DueOf(c, b, t)'
    <3>1. \A c \in Ingest : DueOf(c, b, t)'
      BY <2>2 DEF DueOf
    <3>2. CASE b = a
      <4>1. alerts'[b][t] = 0
        BY <2>1, <3>2 DEF TypeOK
      <4>2. QED
        BY <3>1, <4>1 DEF AlertedOf
    <3>3. CASE b # a
      <4>1. alerts'[b][t] = alerts[b][t] /\ SpendOf(b)' = SpendOf(b)
        BY <2>1, <2>4, <3>3 DEF TypeOK
      <4>2. Latest(b, t) => Latest(b, t)'
        BY <2>1, <2>2 DEF Latest
      <4>3. QED
        BY <3>1, <4>1, <4>2 DEF AlertedOf, Once
    <3>4. QED
      BY <3>2, <3>3
  <2>6. ASSUME NEW b \in Pausing PROVE PausedOf(b)'
    <3>1. b \in Budget /\ Limit[b] \in Nat \ {0} /\ PausedOf(b)
      BY BillingAssumption DEF Paused
    <3>2. CASE b = a
      BY <2>4, <3>1, <3>2 DEF PausedOf
    <3>3. CASE b # a
      <4>1. SpendOf(b)' = SpendOf(b)
        BY <2>4, <3>1, <3>3
      <4>2. QED
        BY <2>1, <2>2, <3>1, <4>1 DEF PausedOf
    <3>4. QED
      BY <3>2, <3>3
  <2>7. QED
    BY <2>3, <2>5, <2>6 DEF Once, Paused
<1>5. ASSUME Crash PROVE OneInside' /\ Fresh' /\ Once' /\ Paused'
  <2>1. /\ \A f \in Fiber : pc[f] \notin Active /\ pc'[f] = pc[f]
        /\ UNCHANGED <<counted, past, alerts, config>>
    BY <1>5 DEF Crash, Failed, rowVars, history
  <2>2. /\ \A c \in Ingest : pc[c] \notin Inside /\ ~Visits(c)
        /\ \A c \in Ingest : pc'[c] \notin Inside /\ ~Visits(c)'
    BY <2>1 DEF Fiber, Active, Inside, Visits
  <2>3. \A c \in Ingest : due'[c] = {}
    BY <1>5, ForgetsOne DEF Crash
  <2>4. OneInside' /\ Fresh'
    BY <2>1, <2>2 DEF OneInside, Fresh, FreshOf, Active, Inside
  <2>5. \A b \in Budget : SpendOf(b)' = SpendOf(b)
    BY <2>1 DEF SpendOf
  <2>6. ASSUME NEW b \in Budget, NEW t \in Amount
        PROVE  AlertedOf(b, t)' /\ \A c \in Ingest : DueOf(c, b, t)'
    <3>1. \A c \in Ingest : DueOf(c, b, t)'
      BY <2>3 DEF DueOf
    <3>2. Latest(b, t) => Latest(b, t)'
      BY <2>1, <2>2 DEF Latest
    <3>3. QED
      BY <2>1, <2>5, <3>1, <3>2 DEF AlertedOf, Once
  <2>7. ASSUME NEW b \in Pausing PROVE PausedOf(b)'
    <3>1. PausedOf(b) /\ SpendOf(b)' = SpendOf(b)
      BY <2>5, BillingAssumption DEF Paused
    <3>2. QED
      BY <2>1, <2>2, <3>1 DEF PausedOf
  <2>8. QED
    BY <2>4, <2>6, <2>7 DEF Once, Paused
<1>6. ASSUME UNCHANGED vars \/ \E g \in Gen : DateComes(g)
      PROVE  OneInside' /\ Fresh' /\ Once' /\ Paused'
  <2>1. UNCHANGED <<past, alerts, counted, config, pc, base, view, todo, due,
                    dirty, cur>>
    BY <1>6 DEF vars, DateComes, rowVars, localVars, history
  <2>2. Once' /\ Paused' /\ \A c \in Ingest : FreshOf(c)'
    BY <1>1, <2>1
  <2>3. QED
    BY <2>1, <2>2 DEF OneInside, Fresh
<1>7. QED
  BY <1>2, <1>3, <1>4, <1>5, <1>6

LEMMA CalmNext ==
  TypeOK /\ Ended /\ Dated /\ Through /\ CalmInv /\ [Next]_vars => CalmInv'
<1> SUFFICES ASSUME TypeOK, Ended, Dated, Through, CalmInv, [Next]_vars,
                    ~overlapped', ~Failed'
             PROVE  OneInside' /\ Fresh' /\ Once' /\ Paused'
  BY DEF CalmInv, Calm
<1>1. ~Failed
  BY FailedStays
<1>2. ~overlapped
  <2>1. CASE \E c \in Ingest : FindEvent(c) \/ CreateTwice(c) \/ CreateEvent(c)
    BY <2>1 DEF FindEvent, CreateTwice, CreateEvent, Enters, history
  <2>2. CASE \E c \in Ingest : CheckBudgets(c)
    BY <2>2, CheckAlone
  <2>3. CASE \E w \in Writer : ReadForWrite(w) \/ WriteBack(w)
    BY <2>3 DEF ReadForWrite, WriteBack, Enters, history
  <2>4. CASE \/ Crash \/ UNCHANGED vars
             \/ \E b \in Budget : Roll(b)
             \/ \E g \in Gen : DateComes(g)
    BY <2>4 DEF Crash, Roll, DateComes, vars, history
  <2>5. QED
    BY <2>1, <2>2, <2>3, <2>4, NextCases
<1>3. OneInside /\ Fresh /\ Once /\ Paused
  BY <1>1, <1>2 DEF CalmInv, Calm
<1>4. ASSUME NEW c \in Ingest, CheckBudgets(c)
      PROVE  OneInside' /\ Fresh' /\ Once' /\ Paused'
  <2>1. CASE \/ ReadConfig(c) \/ LoopEnds(c) \/ NothingToWrite(c)
             \/ PatchRead(c) \/ PatchWrite(c)
    BY <1>3, <2>1, CalmQuietStep
  <2>2. CASE CheckBudget(c)
    BY <1>3, <2>2, CalmCheckStep
  <2>3. CASE RaiseAlert(c) \/ AlertRejected(c)
    BY <1>3, <2>3, CalmAlertStep
  <2>4. CASE CheckFails(c)
    <3>1. c \in Fiber /\ pc'[c] = "failed"
      BY <2>4 DEF CheckFails, Goes, TypeOK, Fiber
    <3>2. QED
      BY <3>1 DEF Failed
  <2>5. QED
    BY <1>4, <2>1, <2>2, <2>3, <2>4 DEF CheckBudgets
<1>5. ASSUME NEW c \in Ingest, FindEvent(c) \/ CreateTwice(c) \/ CreateEvent(c)
      PROVE  OneInside' /\ Fresh' /\ Once' /\ Paused'
  BY <1>3, <1>5, CalmRecordStep
<1>6. QED
  BY <1>3, <1>4, <1>5, CalmOtherStep, NextCases

LEMMA CalmInvariant ==
  Spec => [](TypeOK /\ Ended /\ Dated /\ Through /\ CalmInv)
<1>1. Init => Ended /\ Dated /\ Through /\ CalmInv
  <2> SUFFICES ASSUME Init PROVE Ended /\ Dated /\ Through /\ CalmInv
    OBVIOUS
  <2>1. Ended /\ Dated /\ Through
    BY DatedInit DEF Init, Ended, Through
  <2>2. OneInside /\ Fresh
    BY DEF Init, OneInside, Fresh, FreshOf, Inside, Visits, Fiber
  <2>3. Once
    BY DEF Init, Once, AlertedOf, DueOf
  <2>4. \A b \in Pausing : SpendOf(b) = 0 /\ Limit[b] \in Nat \ {0}
    BY BillingAssumption DEF Init, SpendOf
  <2>5. Paused
    BY <2>4 DEF Paused, PausedOf
  <2>6. QED
    BY <2>1, <2>2, <2>3, <2>5 DEF CalmInv
<1>2. TypeOK /\ Ended /\ Dated /\ Through /\ CalmInv /\ [Next]_vars
      => Ended' /\ Dated' /\ Through' /\ CalmInv'
  BY EndedNext, DatedNext, ThroughNext, CalmNext
<1>3. QED
  BY <1>1, <1>2, TypeCorrect, PTL DEF Spec

\* "exactly ONE billing_budget alert": none is repeated in a period, for any
\* budgets, as long as no writers of the configuration overlapped and no check
\* was cut short.
THEOREM NoThresholdTwice == Spec => []NoAlertRepeated
<1>1. TypeOK /\ CalmInv => NoAlertRepeated
  BY DEF CalmInv, Calm, Failed, Once, AlertedOf, NoAlertRepeated
<1>2. QED
  BY <1>1, CalmInvariant, PTL

\* "On a 100% breach with actionOnBreach=pause set the honest pause flag": it
\* is set when the checks have ended, under the same condition.
THEOREM BreachesPause == Spec => []BreachPauses
<1>1. TypeOK /\ CalmInv => BreachPauses
  <2> SUFFICES ASSUME CalmInv, ~overlapped, AllChecked,
                      NEW b \in Pausing, Limit[b] <= SpendOf(b)
               PROVE  config.paused
    BY DEF BreachPauses
  <2>1. ~Failed /\ \A c \in Ingest : pc[c] \notin Inside
    BY DEF AllChecked, Failed, Fiber, Inside
  <2>2. PausedOf(b)
    BY <2>1 DEF CalmInv, Calm, Paused
  <2>3. QED
    BY <2>1, <2>2 DEF PausedOf
<1>2. QED
  BY <1>1, CalmInvariant, PTL
=============================================================================
