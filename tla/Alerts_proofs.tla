---------------------------- MODULE Alerts_proofs ---------------------------
(***************************************************************************)
(* The promises of the delivery of alerts, for any number of calls,        *)
(* flushes and channels, with writes that are rejected, answers that are   *)
(* lost and deaths of the process.                                         *)
(***************************************************************************)
EXTENDS Alerts, SequenceTheorems, FiniteSetTheorems, TLAPS

\* raiseAlert up to its event touches no delivery.
Announcing(r) ==
  \/ ReadRule(r) \/ FindRecent(r) \/ Bump(r) \/ CreateEvent(r) \/ Fire(r)
  \/ RaiseRejected(r)

Before == {"idle", "silenced", "bump", "create", "fire", "route"}

\* How the call moves, and what it leaves alone.
LEMMA AnnouncingIsQuiet ==
  ASSUME NEW r \in Raise, Announcing(r)
  PROVE  /\ UNCHANGED <<rowVars, loopVars, now, crashes>>
         /\ \E s \in Before, t \in Before \cup {"suppressed", "failed"} :
              Goes(r, s, t)
  BY DEF Announcing, ReadRule, FindRecent, Bump, CreateEvent, Fire,
         RaiseRejected, Goes, ruleVars, Before

Delivering == {"deliver", "send", "record", "requeue"}

\* The same, value by value.
LEMMA AnnouncingMoves ==
  ASSUME NEW r \in Raise, pc \in [Fiber -> Step], Announcing(r)
  PROVE  /\ pc' \in [Fiber -> Step]
         /\ pc[r] \in Before
         /\ pc'[r] \in Before \cup {"suppressed", "failed"}
         /\ \A f \in Fiber : f # r => pc'[f] = pc[f]
<1>1. PICK s \in Before, t \in Before \cup {"suppressed", "failed"} :
        pc[r] = s /\ pc' = [pc EXCEPT ![r] = t]
  BY AnnouncingIsQuiet DEF Goes
<1>2. r \in Fiber /\ t \in Step
  BY DEF Fiber, Before, Step
<1>3. QED
  BY <1>1, <1>2

\* Who delivers has a delivery.
Armed == \A f \in Fiber : pc[f] \in Delivering => at[f] \in Delivery

LEMMA InitType == Init => TypeOK /\ Armed
  BY AlertsAssumption, EmptySeq
  DEF Init, TypeOK, Status, Step, Time, Armed, Delivering

LEMMA NextType == TypeOK /\ Armed /\ [Next]_vars => TypeOK' /\ Armed'
<1> SUFFICES ASSUME TypeOK, Armed, [Next]_vars PROVE TypeOK' /\ Armed'
  OBVIOUS
<1> USE AlertsAssumption
    DEF TypeOK, Armed, Delivering, Goes, ruleVars, rowVars, loopVars
<1>0. Raise \subseteq Fiber /\ Flush \subseteq Fiber
  BY DEF Fiber
<1>1. ASSUME NEW r \in Raise, Announcing(r) PROVE TypeOK' /\ Armed'
  <2>1. pc' \in [Fiber -> Step] /\ Armed'
    <3>1. at' = at
      BY <1>1, AnnouncingIsQuiet
    <3>2. pc'[r] \notin Delivering
      BY <1>1, AnnouncingMoves DEF Before
    <3>3. QED
      BY <1>1, <3>1, <3>2, AnnouncingMoves
  <2>2. CASE ReadRule(r) \/ RaiseRejected(r)
    BY <2>1, <2>2 DEF ReadRule, RaiseRejected
  <2>3. CASE FindRecent(r)
    <3>1. \A i \in DOMAIN events : events[i] \in Raise
      BY ElementOfSeq, LenProperties
    <3>2. recent' \in [Raise -> Raise \cup {None}]
      BY <2>3, <3>1 DEF FindRecent
    <3>3. QED
      BY <2>1, <2>3, <3>2, AnnouncingIsQuiet, <1>1 DEF FindRecent
  <2>4. CASE Bump(r)
    <3>1. suppressed' \in [Raise -> Nat]
      <4>1. CASE recent[r] = None
        BY <2>4, <4>1 DEF Bump
      <4>2. CASE recent[r] \in Raise
        BY <2>4, <4>2 DEF Bump
      <4>3. QED
        BY <4>1, <4>2
    <3>2. QED
      BY <2>1, <2>4, <3>1 DEF Bump
  <2>5. CASE CreateEvent(r)
    BY <2>1, <2>5, AppendProperties DEF CreateEvent
  <2>6. CASE Fire(r)
    BY <2>1, <2>6 DEF Fire
  <2>7. QED
    BY <1>1, <2>2, <2>3, <2>4, <2>5, <2>6 DEF Announcing
<1>2. ASSUME NEW r \in Raise, Route(r) PROVE TypeOK' /\ Armed'
  <2>1. {r} \X (Wanted[r] \cap channels) \in SUBSET Delivery
    BY DEF Delivery
  <2>2. QED
    BY <1>0, <1>2, <2>1 DEF Route, Step
<1>3. ASSUME NEW r \in Raise, CreateDelivery(r) PROVE TypeOK' /\ Armed'
  <2>1. PICK d \in todo[r] :
          /\ Goes(r, "next", "deliver")
          /\ status' = [status EXCEPT ![d] = "pending"]
          /\ todo' = [todo EXCEPT ![r] = @ \ {d}]
          /\ at' = [at EXCEPT ![r] = d]
          /\ UNCHANGED <<now, ruleVars, channels, accepted, recent, crashes>>
    BY <1>3 DEF CreateDelivery
  <2>2. r \in Fiber /\ d \in Delivery
    BY <1>0
  <2>3. QED
    BY <2>1, <2>2 DEF Step, Status
<1>4. ASSUME NEW r \in Raise, CreateRejected(r) PROVE TypeOK' /\ Armed'
  BY <1>0, <1>4 DEF CreateRejected, Step
<1>5. ASSUME NEW f \in Flush, ReadQueued(f) PROVE TypeOK' /\ Armed'
  BY <1>0, <1>5 DEF ReadQueued, Step
<1>6. ASSUME NEW f \in Flush, NextQueued(f) PROVE TypeOK' /\ Armed'
  BY <1>0, <1>6 DEF NextQueued, Step
<1>7. ASSUME NEW f \in Fiber, Deliver(f) PROVE TypeOK' /\ Armed'
  <2>1. CASE LookUp(f)
    <3>1. /\ at' = at \/ at' = [at EXCEPT ![f] = None]
          /\ \/ /\ pc' = [pc EXCEPT ![f] = "send"]
                /\ pc[f] = "deliver" /\ at' = at
             \/ pc' = [pc EXCEPT ![f] = "next"]
          /\ UNCHANGED <<now, ruleVars, rowVars, recent, todo, crashes>>
      BY <2>1 DEF LookUp, Returns
    <3>2. pc' \in [Fiber -> Step] /\ at' \in [Fiber -> Delivery \cup {None}]
      BY <3>1 DEF Step
    <3>3. Armed'
      BY <3>1
    <3>4. QED
      BY <3>1, <3>2, <3>3
  <2>2. CASE LookUpRejected(f)
    BY <2>2 DEF LookUpRejected, Returns, Step
  <2>3. CASE LoopEnds(f)
    <3>1. PICK t \in {"idle", "done"} : Goes(f, "next", t)
      BY <2>3 DEF LoopEnds
    <3>2. QED
      BY <2>3, <3>1 DEF LoopEnds, Step
  <2>4. CASE Sent(f) \/ NotSent(f)
    BY <2>4 DEF Sent, NotSent, Step
  <2>5. CASE RecordDelivered(f)
    BY <2>5 DEF RecordDelivered, Returns, Step, Status
  <2>6. CASE Requeue(f)
    BY <2>6 DEF Requeue, Returns, Step, Status
  <2>7. CASE RecordRejected(f)
    BY <2>7 DEF RecordRejected, Step
  <2>8. CASE RequeueRejected(f)
    BY <2>8 DEF RequeueRejected, Returns, Step
  <2>9. QED
    BY <1>7, <2>1, <2>2, <2>3, <2>4, <2>5, <2>6, <2>7, <2>8 DEF Deliver
<1>8. CASE Tick
  BY <1>8 DEF Tick, Time
<1>9. ASSUME NEW c \in Channel, DeleteChannel(c) PROVE TypeOK' /\ Armed'
  BY <1>9 DEF DeleteChannel, Status
<1>10. CASE Crash
  BY <1>10 DEF Crash, Step, Ended
<1>11. CASE UNCHANGED vars
  BY <1>11 DEF vars
<1>12. QED
  BY <1>0, <1>1, <1>2, <1>3, <1>4, <1>5, <1>6, <1>7, <1>8, <1>9, <1>10, <1>11
  DEF Next, Raising, Flushing, Announcing

LEMMA Shape == Spec => [](TypeOK /\ Armed)
  BY InitType, NextType, PTL DEF Spec

\* Every variable keeps its type.
THEOREM TypeCorrect == Spec => []TypeOK
  BY Shape, PTL

-----------------------------------------------------------------------------
(* Delivered means accepted                                                *)

RealInv ==
  /\ \A f \in Fiber : pc[f] = "record" => at[f] \in accepted
  /\ DeliveredIsReal

LEMMA RealStep ==
  ASSUME TypeOK, Armed, RealInv, [Next]_vars
  PROVE  RealInv'
<1> USE AlertsAssumption
    DEF TypeOK, Armed, Delivering, RealInv, DeliveredIsReal, Goes, rowVars,
        loopVars
<1>0. Raise \subseteq Fiber /\ Flush \subseteq Fiber
  BY DEF Fiber
<1>1. ASSUME NEW r \in Raise, Announcing(r) PROVE RealInv'
  <2>1. UNCHANGED <<status, accepted, at>>
    BY <1>1, AnnouncingIsQuiet
  <2>2. \A f \in Fiber : pc'[f] = "record" => pc[f] = "record"
    BY <1>1, AnnouncingMoves DEF Before
  <2>3. QED
    BY <2>1, <2>2
<1>2. ASSUME NEW r \in Raise, Route(r) \/ CreateRejected(r) PROVE RealInv'
  BY <1>0, <1>2 DEF Route, CreateRejected
<1>3. ASSUME NEW r \in Raise, CreateDelivery(r) PROVE RealInv'
  <2>1. PICK d \in todo[r] :
          /\ status' = [status EXCEPT ![d] = "pending"]
          /\ at' = [at EXCEPT ![r] = d]
          /\ pc' = [pc EXCEPT ![r] = "deliver"]
          /\ UNCHANGED accepted
    BY <1>3 DEF CreateDelivery
  <2>2. QED
    BY <1>0, <2>1
<1>4. ASSUME NEW f \in Flush, ReadQueued(f) \/ NextQueued(f) PROVE RealInv'
  <2>1. /\ UNCHANGED <<accepted, status>>
        /\ \E t \in {"next", "deliver"} : pc' = [pc EXCEPT ![f] = t]
        /\ \E d \in Delivery \cup {None} :
             at' = at \/ at' = [at EXCEPT ![f] = d]
    BY <1>0, <1>4 DEF ReadQueued, NextQueued
  <2>2. \A g \in Fiber : g # f => pc'[g] = pc[g] /\ at'[g] = at[g]
    BY <1>0, <2>1
  <2>3. pc'[f] # "record"
    BY <1>0, <2>1
  <2>4. QED
    BY <2>1, <2>2, <2>3
<1>5. ASSUME NEW f \in Fiber, Deliver(f) PROVE RealInv'
  <2>1. CASE LookUp(f) \/ LookUpRejected(f) \/ LoopEnds(f)
    BY <2>1 DEF LookUp, LookUpRejected, LoopEnds, Returns
  <2>2. CASE Sent(f) \/ NotSent(f)
    BY <2>2 DEF Sent, NotSent
  <2>3. CASE RecordDelivered(f)
    BY <2>3 DEF RecordDelivered, Returns
  <2>4. CASE Requeue(f)
    BY <2>4 DEF Requeue, Returns
  <2>5. CASE RecordRejected(f)
    BY <2>5 DEF RecordRejected
  <2>6. CASE RequeueRejected(f)
    BY <2>6 DEF RequeueRejected, Returns
  <2>7. QED
    BY <1>5, <2>1, <2>2, <2>3, <2>4, <2>5, <2>6 DEF Deliver
<1>6. CASE Tick \/ UNCHANGED vars
  BY <1>6 DEF Tick, vars
<1>7. ASSUME NEW c \in Channel, DeleteChannel(c) PROVE RealInv'
  <2>1. /\ UNCHANGED <<accepted, pc, at>>
        /\ \A d \in Delivery : status'[d] \in {status[d], "gone"}
    BY <1>7 DEF DeleteChannel
  <2>2. QED
    BY <2>1
<1>8. CASE Crash
  <2>1. /\ UNCHANGED <<accepted, status>>
        /\ \A f \in Fiber : pc'[f] # "record"
    BY <1>8 DEF Crash, Ended
  <2>2. QED
    BY <2>1
<1>9. QED
  BY <1>0, <1>1, <1>2, <1>3, <1>4, <1>5, <1>6, <1>7, <1>8
  DEF Next, Raising, Flushing, Announcing

\* "NEVER marks delivered without a real 2xx", whatever is rejected, lost,
\* deleted or interrupted.
THEOREM DeliveredWasAccepted == Spec => []DeliveredIsReal
<1>1. Init => RealInv
  BY DEF Init, RealInv, DeliveredIsReal
<1>2. RealInv => DeliveredIsReal
  BY DEF RealInv
<1>3. QED
  BY <1>1, <1>2, RealStep, Shape, PTL DEF Spec

-----------------------------------------------------------------------------
(* No channel is left out                                                  *)

\* While a call is in its loop, a channel it wants and has no row for is still
\* to come.
ServedInv ==
  \A r \in Raise : pc[r] \in {"next", "done"} \cup Delivering =>
    \A c \in Wanted[r] \cap channels :
      \/ status[<<r, c>>] # "none"
      \/ pc[r] # "done" /\ <<r, c>> \in todo[r]

LEMMA ServedStep ==
  ASSUME TypeOK, Armed, ServedInv, [Next]_vars
  PROVE  ServedInv'
<1> USE AlertsAssumption
    DEF TypeOK, Armed, Delivering, ServedInv, Goes, rowVars, loopVars
<1>0. /\ Raise \subseteq Fiber /\ Flush \subseteq Fiber
      /\ \A r \in Raise : Wanted[r] \subseteq Channel
      /\ \A r \in Raise, c \in Channel : <<r, c>> \in Delivery
  BY DEF Fiber, Delivery
<1>1. ASSUME NEW r \in Raise, Announcing(r) PROVE ServedInv'
  <2>1. UNCHANGED <<status, channels, todo>>
    BY <1>1, AnnouncingIsQuiet
  <2>2. \A q \in Raise : pc'[q] \in {"next", "done"} \cup Delivering =>
                           pc'[q] = pc[q]
    BY <1>0, <1>1, AnnouncingMoves DEF Before
  <2>3. QED
    BY <2>1, <2>2
<1>2. ASSUME NEW r \in Raise, Route(r) \/ CreateRejected(r) PROVE ServedInv'
  <2>1. CASE Route(r)
    <3>1. \A c \in Wanted[r] \cap channels :
            <<r, c>> \in {r} \X (Wanted[r] \cap channels)
      OBVIOUS
    <3>2. todo'[r] = {r} \X (Wanted[r] \cap channels)
      BY <1>0, <2>1 DEF Route
    <3>3. /\ UNCHANGED <<status, channels>>
          /\ pc'[r] = "next"
          /\ \A q \in Raise : q # r => pc'[q] = pc[q] /\ todo'[q] = todo[q]
      BY <1>0, <2>1 DEF Route
    <3>4. QED
      BY <3>1, <3>2, <3>3
  <2>2. CASE CreateRejected(r)
    BY <1>0, <2>2 DEF CreateRejected
  <2>3. QED
    BY <1>2, <2>1, <2>2
<1>3. ASSUME NEW r \in Raise, CreateDelivery(r) PROVE ServedInv'
  BY <1>0, <1>3 DEF CreateDelivery
<1>4. ASSUME NEW f \in Flush, ReadQueued(f) \/ NextQueued(f) PROVE ServedInv'
  BY <1>0, <1>4 DEF ReadQueued, NextQueued
<1>5. ASSUME NEW f \in Fiber, Deliver(f) PROVE ServedInv'
  <2>1. CASE LookUp(f) \/ LookUpRejected(f) \/ LoopEnds(f)
    BY <1>0, <2>1 DEF LookUp, LookUpRejected, LoopEnds, Returns
  <2>2. CASE Sent(f) \/ NotSent(f)
    BY <1>0, <2>2 DEF Sent, NotSent
  <2>3. CASE RecordDelivered(f) \/ Requeue(f)
    BY <1>0, <2>3 DEF RecordDelivered, Requeue, Returns
  <2>4. CASE RecordRejected(f) \/ RequeueRejected(f)
    BY <1>0, <2>4 DEF RecordRejected, RequeueRejected, Returns
  <2>5. QED
    BY <1>5, <2>1, <2>2, <2>3, <2>4 DEF Deliver
<1>6. CASE Tick \/ UNCHANGED vars
  BY <1>6 DEF Tick, vars
<1>7. ASSUME NEW c \in Channel, DeleteChannel(c) PROVE ServedInv'
  <2>1. /\ channels' \subseteq channels
        /\ UNCHANGED <<pc, todo>>
        /\ \A d \in Delivery : status[d] # "none" => status'[d] # "none"
    BY <1>7 DEF DeleteChannel
  <2>2. QED
    BY <1>0, <2>1
<1>8. CASE Crash
  BY <1>0, <1>8 DEF Crash, Ended
<1>9. QED
  BY <1>0, <1>1, <1>2, <1>3, <1>4, <1>5, <1>6, <1>7, <1>8
  DEF Next, Raising, Flushing, Announcing

\* A call of raiseAlert that returned left no channel out because another one
\* failed.
THEOREM NoChannelLeftOut == Spec => []AllChannelsServed
<1>1. Init => ServedInv
  BY DEF Init, ServedInv, Fiber, Delivering
<1>2. ServedInv => AllChannelsServed
  BY DEF ServedInv, AllChannelsServed
<1>3. QED
  BY <1>1, <1>2, ServedStep, Shape, PTL DEF Spec

-----------------------------------------------------------------------------
(* What was delivered stays delivered                                      *)

\* With one flush at a time every delivery has one process that may write it.
EarlyInv ==
  \A r \in Raise, d \in Delivery :
    pc[r] \in Before /\ d[1] = r => status[d] = "none"

\* Rows still to be created ...
RaiseLoopInv ==
  \A r \in Raise, d \in Delivery :
    d \in todo[r] => d[1] = r /\ status[d] = "none"

\* ... the one that its call is delivering ...
RaiseAtInv ==
  \A r \in Raise : pc[r] \in Delivering =>
    at[r][1] = r /\ status[at[r]] \in {"pending", "gone"}

\* ... and those the flush retries.
FlushLoopInv ==
  \A f \in Flush, d \in Delivery :
    d \in todo[f] => status[d] \in {"queued", "gone"}

FlushAtInv ==
  \A f \in Flush : pc[f] \in Delivering =>
    at[f] \notin todo[f] /\ status[at[f]] \in {"queued", "gone"}

FinalInv ==
  EarlyInv /\ RaiseLoopInv /\ RaiseAtInv /\ FlushLoopInv /\ FlushAtInv

LEMMA FinalStep ==
  ASSUME TypeOK, Armed, FinalInv, [Next]_vars,
         \A f, g \in Flush : f = g
  PROVE  /\ FinalInv'
         /\ \A d \in Delivery :
              status[d] = "delivered" => status'[d] \in {"delivered", "gone"}
<1> DEFINE Kept == \A d \in Delivery :
             status[d] = "delivered" => status'[d] \in {"delivered", "gone"}
<1> USE AlertsAssumption
    DEF TypeOK, Armed, Delivering, FinalInv, EarlyInv, RaiseLoopInv,
        RaiseAtInv,
        FlushLoopInv, FlushAtInv, Goes, rowVars, loopVars, Before
<1>0. /\ Raise \subseteq Fiber /\ Flush \subseteq Fiber
      /\ Raise \cap Flush = {} /\ Fiber = Raise \cup Flush
  BY DEF Fiber
<1>1. ASSUME NEW r \in Raise, Announcing(r) PROVE FinalInv' /\ Kept
  <2>1. UNCHANGED <<status, todo, at>>
    BY <1>1, AnnouncingIsQuiet
  <2>2. /\ \A f \in Fiber : pc'[f] \in Delivering => pc'[f] = pc[f]
        /\ pc[r] \in Before /\ \A f \in Fiber : f # r => pc'[f] = pc[f]
    BY <1>1, AnnouncingMoves
  <2>3. QED
    BY <1>0, <2>1, <2>2
<1>2. ASSUME NEW r \in Raise, Route(r) PROVE FinalInv' /\ Kept
  <2>1. \A d \in todo'[r] : d \in Delivery /\ d[1] = r
    BY <1>0, <1>2 DEF Route, Delivery
  <2>2. /\ pc[r] = "route" /\ pc' = [pc EXCEPT ![r] = "next"]
        /\ \A f \in Fiber : f # r => todo'[f] = todo[f]
        /\ UNCHANGED <<status, at>>
    BY <1>0, <1>2 DEF Route
  <2>3. \A d \in todo'[r] : status[d] = "none"
    BY <2>1, <2>2
  <2>4. QED
    <3>1. pc'[r] = "next" /\ \A g \in Fiber : g # r => pc'[g] = pc[g]
      BY <1>0, <2>2
    <3>2. EarlyInv' /\ RaiseAtInv'
      BY <1>0, <2>2, <3>1
    <3>3. RaiseLoopInv'
      <4>1. ASSUME NEW q \in Raise, q # r, NEW d \in Delivery, d \in todo'[q]
            PROVE  d[1] = q /\ status'[d] = "none"
        BY <1>0, <2>2, <4>1
      <4>2. \A d \in todo'[r] : d[1] = r /\ status'[d] = "none"
        BY <2>1, <2>2, <2>3
      <4>3. QED
        BY <4>1, <4>2
    <3>4. FlushLoopInv' /\ FlushAtInv'
      BY <1>0, <2>2, <3>1
    <3>5. QED
      BY <2>2, <3>2, <3>3, <3>4
<1>3. ASSUME NEW r \in Raise, CreateRejected(r) PROVE FinalInv' /\ Kept
  BY <1>0, <1>3 DEF CreateRejected
<1>4. ASSUME NEW r \in Raise, CreateDelivery(r) PROVE FinalInv' /\ Kept
  <2>1. PICK d \in todo[r] :
          /\ Goes(r, "next", "deliver")
          /\ status' = [status EXCEPT ![d] = "pending"]
          /\ todo' = [todo EXCEPT ![r] = @ \ {d}]
          /\ at' = [at EXCEPT ![r] = d]
    BY <1>4 DEF CreateDelivery
  <2>2. d \in Delivery /\ d[1] = r /\ status[d] = "none"
    BY <1>0
  <2>3. QED
    BY <1>0, <2>1, <2>2
<1>5. ASSUME NEW f \in Flush, ReadQueued(f) PROVE FinalInv' /\ Kept
  BY <1>0, <1>5 DEF ReadQueued
<1>6. ASSUME NEW f \in Flush, NextQueued(f) PROVE FinalInv' /\ Kept
  BY <1>0, <1>6 DEF NextQueued
<1>7. ASSUME NEW f \in Fiber, Deliver(f) PROVE FinalInv' /\ Kept
  <2>0. ASSUME pc[f] \in Delivering, UNCHANGED <<status, todo>>,
               \/ /\ UNCHANGED at
                  /\ \E t \in Delivering : pc' = [pc EXCEPT ![f] = t]
               \/ /\ at' = [at EXCEPT ![f] = None]
                  /\ pc' = [pc EXCEPT ![f] = "next"]
        PROVE  FinalInv' /\ Kept
    <3>1. \A g \in Fiber : g # f => pc'[g] = pc[g] /\ at'[g] = at[g]
      BY <2>0
    <3>2. pc'[f] \notin Before
      BY <2>0
    <3>3. pc'[f] \in Delivering => at'[f] = at[f]
      BY <2>0
    <3>4. QED
      <4>1. EarlyInv' /\ RaiseLoopInv' /\ FlushLoopInv'
        BY <1>0, <2>0, <3>1, <3>2
      <4>2. RaiseAtInv'
        BY <1>0, <2>0, <3>1, <3>3
      <4>3. FlushAtInv'
        BY <1>0, <2>0, <3>1, <3>3
      <4>4. QED
        BY <2>0, <4>1, <4>2, <4>3
  <2>1. CASE LookUp(f) \/ LookUpRejected(f)
    BY <2>0, <2>1 DEF LookUp, LookUpRejected, Returns
  <2>2. CASE Sent(f) \/ NotSent(f) \/ LoopEnds(f)
    BY <1>0, <2>2 DEF Sent, NotSent, LoopEnds
  <2>3. CASE RecordDelivered(f) \/ Requeue(f)
    <3>1. PICK s \in {"delivered", "queued"} :
            status' = [status EXCEPT ![at[f]] = s]
      BY <2>3 DEF RecordDelivered, Requeue
    <3>2. /\ pc[f] \in {"record", "requeue"} /\ status[at[f]] # "gone"
          /\ pc' = [pc EXCEPT ![f] = "next"]
          /\ at' = [at EXCEPT ![f] = None]
          /\ UNCHANGED todo
      BY <2>3 DEF RecordDelivered, Requeue, Returns
    <3>3. at[f] \in Delivery
      BY <3>2
    <3>4. CASE f \in Raise
      <4>1. at[f][1] = f /\ status[at[f]] = "pending"
        BY <3>2, <3>4
      <4>2. QED
        BY <1>0, <3>1, <3>2, <3>3, <3>4, <4>1
    <3>5. CASE f \in Flush
      <4>1. at[f] \notin todo[f] /\ status[at[f]] = "queued"
        BY <3>2, <3>5
      <4>2. QED
        BY <1>0, <3>1, <3>2, <3>3, <3>5, <4>1
    <3>6. QED
      BY <1>0, <3>4, <3>5
  <2>4. CASE RecordRejected(f) \/ RequeueRejected(f)
    BY <2>0, <2>4 DEF RecordRejected, RequeueRejected, Returns
  <2>5. QED
    BY <1>7, <2>1, <2>2, <2>3, <2>4 DEF Deliver
<1>8. CASE Tick \/ UNCHANGED vars
  <2>1. UNCHANGED <<pc, status, todo, at>>
    BY <1>8 DEF Tick, vars
  <2>2. QED
    BY <2>1
<1>9. ASSUME NEW c \in Channel, DeleteChannel(c) PROVE FinalInv' /\ Kept
  BY <1>0, <1>9 DEF DeleteChannel
<1>10. CASE Crash
  BY <1>0, <1>10 DEF Crash, Ended
<1>11. QED
  BY <1>0, <1>1, <1>2, <1>3, <1>4, <1>5, <1>6, <1>7, <1>8, <1>9, <1>10
  DEF Next, Raising, Flushing, Announcing

\* As long as flushes do not overlap, a delivery that was recorded as delivered
\* is never queued and sent again.
THEOREM DeliveredOnce ==
  ASSUME \A f, g \in Flush : f = g
  PROVE  Spec => DeliveredIsFinal
<1>1. Init => FinalInv
  BY DEF Init, FinalInv, EarlyInv, RaiseLoopInv, RaiseAtInv, FlushLoopInv,
         FlushAtInv, Fiber, Delivering, Before
<1>2. /\ TypeOK /\ Armed /\ FinalInv /\ [Next]_vars
      => /\ FinalInv'
         /\ [\A d \in Delivery : status[d] = "delivered"
               => status'[d] \in {"delivered", "gone"}]_vars
  BY FinalStep
<1>3. QED
  BY <1>1, <1>2, Shape, PTL DEF Spec, DeliveredIsFinal

-----------------------------------------------------------------------------
(* The accounts of suppression                                             *)

SuppressedInto(e) ==
  {r \in Raise : pc[r] = "suppressed" /\ recent[r] = e}

\* Every call that ended as suppressed is in the account of one event, and who
\* is about to count has found one.
AccountInv ==
  /\ \A e \in Raise :
       /\ IsFiniteSet(SuppressedInto(e))
       /\ suppressed[e] = Cardinality(SuppressedInto(e))
  /\ \A r \in Raise : pc[r] = "bump" => recent[r] \in Raise

\* A step that suppresses nobody and finds no event.
Unaccounted ==
  /\ suppressed' = suppressed /\ recent' = recent
  /\ \A r \in Raise :
       /\ pc'[r] = "suppressed" <=> pc[r] = "suppressed"
       /\ pc'[r] = "bump" => pc[r] = "bump"

LEMMA UnaccountedKeeps ==
  ASSUME AccountInv, Unaccounted
  PROVE  AccountInv'
<1>1. ASSUME NEW e \in Raise PROVE SuppressedInto(e)' = SuppressedInto(e)
  BY DEF Unaccounted, SuppressedInto
<1>2. QED
  BY <1>1 DEF AccountInv, Unaccounted

\* A fiber that goes elsewhere.
LEMMA GoesUnaccounted ==
  ASSUME TypeOK, NEW f \in Fiber, NEW s, NEW t, Goes(f, s, t),
         s # "suppressed", t \notin {"suppressed", "bump"},
         suppressed' = suppressed, recent' = recent
  PROVE  Unaccounted
<1>1. /\ pc[f] = s /\ pc'[f] = t
      /\ \A r \in Raise : r # f => pc'[r] = pc[r]
  BY DEF TypeOK, Goes, Fiber
<1>2. QED
  BY <1>1 DEF Unaccounted

LEMMA AccountStep ==
  ASSUME TypeOK, AccountInv, [Next]_vars
  PROVE  AccountInv'
<1>0. Raise \subseteq Fiber /\ Flush \subseteq Fiber
  BY DEF Fiber
<1>1. ASSUME NEW r \in Raise, ReadRule(r) PROVE AccountInv'
  <2>1. PICK t \in {"silenced", "create"} : Goes(r, "idle", t)
    BY <1>1 DEF ReadRule
  <2>2. suppressed' = suppressed /\ recent' = recent
    BY <1>1 DEF ReadRule, ruleVars
  <2>3. QED
    BY <1>0, <2>1, <2>2, GoesUnaccounted, UnaccountedKeeps
<1>2. ASSUME NEW r \in Raise, FindRecent(r) PROVE AccountInv'
  <2>1. /\ suppressed' = suppressed /\ pc[r] = "silenced"
        /\ pc'[r] \in {"create", "bump"}
        /\ \A q \in Raise : q # r => pc'[q] = pc[q] /\ recent'[q] = recent[q]
    BY <1>0, <1>2 DEF FindRecent, Goes, TypeOK, ruleVars
  <2>2. pc'[r] = "bump" => recent'[r] \in Raise
    <3>1. \A i \in DOMAIN events : events[i] \in Raise
      BY ElementOfSeq, LenProperties DEF TypeOK
    <3>2. QED
      BY <1>0, <1>2, <3>1 DEF FindRecent, Goes, TypeOK
  <2>3. ASSUME NEW e \in Raise PROVE SuppressedInto(e)' = SuppressedInto(e)
    BY <2>1 DEF SuppressedInto
  <2>4. QED
    BY <2>1, <2>2, <2>3 DEF AccountInv
<1>3. ASSUME NEW r \in Raise, Bump(r) PROVE AccountInv'
  <2>1. /\ recent[r] \in Raise /\ recent' = recent
        /\ suppressed' = [suppressed EXCEPT ![recent[r]] = @ + 1]
        /\ pc[r] = "bump" /\ pc'[r] = "suppressed"
        /\ \A q \in Raise : q # r => pc'[q] = pc[q]
    BY <1>0, <1>3 DEF Bump, Goes, AccountInv, TypeOK
  <2>2. ASSUME NEW e \in Raise
        PROVE  /\ IsFiniteSet(SuppressedInto(e)')
               /\ suppressed'[e] = Cardinality(SuppressedInto(e)')
    <3>1. CASE e = recent[r]
      <4>1. /\ SuppressedInto(e)' = SuppressedInto(e) \cup {r}
            /\ r \notin SuppressedInto(e)
        BY <2>1, <3>1 DEF SuppressedInto
      <4>2. /\ IsFiniteSet(SuppressedInto(e) \cup {r})
            /\ Cardinality(SuppressedInto(e) \cup {r}) =
                 Cardinality(SuppressedInto(e)) + 1
        BY <4>1, FS_AddElement DEF AccountInv
      <4>3. suppressed'[e] = suppressed[e] + 1
        BY <2>1, <3>1 DEF TypeOK
      <4>4. QED
        BY <4>1, <4>2, <4>3 DEF AccountInv
    <3>2. CASE e # recent[r]
      <4>1. SuppressedInto(e)' = SuppressedInto(e)
        BY <2>1, <3>2 DEF SuppressedInto
      <4>2. suppressed'[e] = suppressed[e]
        BY <2>1, <3>2 DEF TypeOK
      <4>3. QED
        BY <4>1, <4>2 DEF AccountInv
    <3>3. QED
      BY <3>1, <3>2
  <2>3. ASSUME NEW q \in Raise, pc'[q] = "bump" PROVE recent'[q] \in Raise
    BY <2>1, <2>3 DEF AccountInv
  <2>4. QED
    BY <2>2, <2>3 DEF AccountInv
<1>4. ASSUME NEW r \in Raise, CreateEvent(r) \/ Fire(r) PROVE AccountInv'
  <2>1. PICK s \in {"create", "fire"}, t \in {"fire", "route"} : Goes(r, s, t)
    BY <1>4 DEF CreateEvent, Fire
  <2>2. suppressed' = suppressed /\ recent' = recent
    BY <1>4 DEF CreateEvent, Fire
  <2>3. QED
    BY <1>0, <2>1, <2>2, GoesUnaccounted, UnaccountedKeeps
<1>5. ASSUME NEW r \in Raise,
             RaiseRejected(r) \/ Route(r) \/ CreateDelivery(r)
               \/ CreateRejected(r)
      PROVE  AccountInv'
  <2>1. PICK s \in Before \cup {"next"}, t \in {"failed", "next", "deliver"} :
          Goes(r, s, t)
    BY <1>5
    DEF RaiseRejected, Route, CreateDelivery, CreateRejected, Before
  <2>2. suppressed' = suppressed /\ recent' = recent
    BY <1>5
    DEF RaiseRejected, Route, CreateDelivery, CreateRejected, ruleVars
  <2>3. s # "suppressed"
    BY DEF Before
  <2>4. QED
    BY <1>0, <2>1, <2>2, <2>3, GoesUnaccounted, UnaccountedKeeps
<1>6. ASSUME NEW f \in Flush, ReadQueued(f) \/ NextQueued(f)
      PROVE  AccountInv'
  <2>1. PICK s \in {"idle", "next"}, t \in {"next", "deliver"} : Goes(f, s, t)
    BY <1>6 DEF ReadQueued, NextQueued
  <2>2. suppressed' = suppressed /\ recent' = recent
    BY <1>6 DEF ReadQueued, NextQueued, ruleVars
  <2>3. QED
    BY <1>0, <2>1, <2>2, GoesUnaccounted, UnaccountedKeeps
<1>7. ASSUME NEW f \in Fiber, Deliver(f) PROVE AccountInv'
  <2>1. PICK s \in Delivering \cup {"next"},
             t \in {"send", "next", "record", "requeue", "idle", "done"} :
          Goes(f, s, t)
    BY <1>7
    DEF Deliver, LookUp, LookUpRejected, Sent, NotSent, RecordDelivered,
        RecordRejected, Requeue, RequeueRejected, LoopEnds, Returns, Delivering
  <2>2. suppressed' = suppressed /\ recent' = recent
    BY <1>7
    DEF Deliver, LookUp, LookUpRejected, Sent, NotSent, RecordDelivered,
        RecordRejected, Requeue, RequeueRejected, LoopEnds, ruleVars
  <2>3. s # "suppressed"
    BY DEF Delivering
  <2>4. QED
    BY <2>1, <2>2, <2>3, GoesUnaccounted, UnaccountedKeeps
<1>8. CASE Tick \/ (\E c \in Channel : DeleteChannel(c)) \/ UNCHANGED vars
  <2>1. UNCHANGED <<suppressed, recent, pc>>
    BY <1>8 DEF Tick, DeleteChannel, vars, ruleVars
  <2>2. QED
    BY <2>1, UnaccountedKeeps DEF Unaccounted
<1>9. CASE Crash
  <2>1. ASSUME NEW r \in Raise
        PROVE  /\ pc'[r] = "suppressed" <=> pc[r] = "suppressed"
               /\ pc'[r] # "bump"
    BY <1>0, <1>9, AlertsAssumption DEF Crash, Ended
  <2>2. QED
    BY <1>9, <2>1, UnaccountedKeeps DEF Crash, Unaccounted, ruleVars
<1>10. QED
  BY <1>0, <1>1, <1>2, <1>3, <1>4, <1>5, <1>6, <1>7, <1>8, <1>9
  DEF Next, Raising, Flushing

\* "Real suppression accounting": an event counts exactly the calls that were
\* suppressed into it, for any number of calls and however they interleave.
THEOREM SuppressedAreCounted == Spec => []SuppressionAccounts
<1>1. Init => AccountInv
  <2> SUFFICES ASSUME Init PROVE AccountInv
    OBVIOUS
  <2>1. ASSUME NEW e \in Raise PROVE SuppressedInto(e) = {}
    BY DEF Init, SuppressedInto, Fiber
  <2>2. \A r \in Raise : pc[r] # "bump"
    BY DEF Init, Fiber
  <2>3. QED
    BY <2>1, <2>2, FS_EmptySet DEF Init, AccountInv
<1>2. AccountInv => SuppressionAccounts
  BY DEF AccountInv, SuppressionAccounts, SuppressedInto
<1>3. QED
  BY <1>1, <1>2, AccountStep, Shape, PTL DEF Spec
=============================================================================
