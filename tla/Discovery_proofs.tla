-------------------------- MODULE Discovery_proofs --------------------------
(***************************************************************************)
(* Proofs about the port registry and the proposals: types, and the        *)
(* exactness of scans and proposals that are not raced.                    *)
(***************************************************************************)
EXTENDS Discovery, FiniteSetTheorems, TLAPS

LEMMA NextCases ==
  ASSUME [Next]_vars
  PROVE  \/ \E s \in Scan : Scanning(s)
         \/ \E g \in Generation : Generating(g)
         \/ \E d \in Decision : Deciding(d)
         \/ \E f \in Fiber : Fails(f)
         \/ \E k \in Port : RegisterPort(k)
         \/ \E k \in Key : HostChanges(k)
         \/ UNCHANGED vars
  BY DEF Next

\* Rows are never deleted: what a call holds of one is of a row that is there.
Linked ==
  /\ \A d \in Decision : pc[d] # "idle" =>
       choice[d] \in Row /\ prop[choice[d]] # None
  /\ \A g \in Generation, i \in Row : existing[g][i] # None => prop[i] # None
TypeInv == TypeOK /\ Linked

LEMMA InitType == Init => TypeInv
<1> SUFFICES ASSUME Init PROVE TypeInv
  OBVIOUS
<1>1. /\ prop \in [Row -> Proposal \cup {None}]
      /\ existing \in [Generation -> [Row -> Proposal \cup {None}]]
      /\ choice \in [Decision -> Row \cup {None}]
  BY DEF Init
<1>2. /\ up \subseteq Key /\ alloc \in [Port -> {"active", "stale", None}]
      /\ applied \subseteq Row /\ pc \in [Fiber -> Step]
      /\ seen \in [Observing -> SUBSET Key]
      /\ todo \in [Scan -> SUBSET Port]
      /\ drafts \in [Generation -> SUBSET Draft]
      /\ stale \in [Scan -> SUBSET Port]
      /\ disturbed \subseteq Scan
  BY DEF Init, Step
<1>3. calls \in 0..MaxCalls /\ changes \in 0..MaxChanges
  <2>1. calls = 0 /\ changes = 0
    BY DEF Init
  <2>2. {MaxCalls, MaxChanges} \subseteq Nat
    BY DiscoveryAssumption
  <2>3. QED
    BY <2>1, <2>2
<1>4. raced \in BOOLEAN
  BY DEF Init
<1>5. Linked
  BY DEF Init, Linked, Fiber
<1>6. QED
  BY <1>1, <1>2, <1>3, <1>4, <1>5 DEF TypeInv, TypeOK

LEMMA ForgetsType ==
  ASSUME TypeOK, NEW f, Forgets(f)
  PROVE  /\ seen' \in [Observing -> SUBSET Key]
         /\ todo' \in [Scan -> SUBSET Port]
         /\ drafts' \in [Generation -> SUBSET Draft]
         /\ stale' \in [Scan -> SUBSET Port]
         /\ existing' \in [Generation -> [Row -> Proposal \cup {None}]]
         /\ choice' \in [Decision -> Row \cup {None}]
         /\ \A d \in Decision : choice'[d] = IF d = f THEN None ELSE choice[d]
         /\ \A g \in Generation, i \in Row :
              existing'[g][i] = IF g = f THEN None ELSE existing[g][i]
<1>1. /\ seen' \in [Observing -> SUBSET Key]
      /\ todo' \in [Scan -> SUBSET Port]
      /\ drafts' \in [Generation -> SUBSET Draft]
      /\ stale' \in [Scan -> SUBSET Port]
  BY DEF TypeOK, Forgets
<1>2. /\ choice' \in [Decision -> Row \cup {None}]
      /\ \A d \in Decision : choice'[d] = IF d = f THEN None ELSE choice[d]
  BY DEF TypeOK, Forgets
<1>3. \A g \in Generation :
        existing'[g] = IF g = f THEN [i \in Row |-> None] ELSE existing[g]
  BY DEF Forgets
<1>4. existing' \in [Generation -> [Row -> Proposal \cup {None}]]
  BY DEF TypeOK, Forgets
<1>5. QED
  BY <1>1, <1>2, <1>3, <1>4

LEMMA ScanType ==
  ASSUME TypeInv, NEW s \in Scan, Scanning(s)
  PROVE  TypeInv'
<1> USE DiscoveryAssumption
    DEF TypeInv, TypeOK, Linked, Fiber, Observing, Step, Goes, Begins,
        WritesPorts, hostVars
<1>1. CASE Observe(s)
  BY <1>1 DEF Observe, Listening
<1>2. CASE UpsertPort(s)
  <2>1. PICK k \in todo[s] :
          /\ alloc' = [alloc EXCEPT ![k] = "active"]
          /\ todo' = [todo EXCEPT ![s] = @ \ {k}]
    BY <1>2 DEF UpsertPort
  <2>2. /\ alloc' \in [Port -> {"active", "stale", None}]
        /\ todo' \in [Scan -> SUBSET Port]
    BY <2>1
  <2>3. QED
    BY <1>2, <2>2 DEF UpsertPort
<1>3. CASE FindStale(s)
  BY <1>3 DEF FindStale
<1>4. CASE MarkStale(s)
  <2>1. alloc' \in [Port -> {"active", "stale", None}]
    BY <1>4 DEF MarkStale
  <2>2. QED
    BY <1>4, <2>1, ForgetsType DEF MarkStale
<1>5. QED
  BY <1>1, <1>2, <1>3, <1>4 DEF Scanning

LEMMA GenerationType ==
  ASSUME TypeInv, NEW g \in Generation, Generating(g)
  PROVE  TypeInv'
<1> USE DiscoveryAssumption
    DEF TypeInv, TypeOK, Linked, Fiber, Observing, Step, Goes, Begins,
        hostVars
<1>1. CASE Plan(g)
  BY <1>1 DEF Plan, Observable
<1>2. CASE FindExisting(g)
  BY <1>2 DEF FindExisting, Open
<1>3. CASE ProposeOne(g)
  <2>1. PICK d \in drafts[g] :
          /\ drafts' = [drafts EXCEPT ![g] = @ \ {d}]
          /\ \/ prop' = prop
             \/ \E i \in Row : prop' = [prop EXCEPT ![i] =
                                         [draft |-> d, status |-> "pending"]]
    BY <1>3 DEF ProposeOne
  <2>2. [draft |-> d, status |-> "pending"] \in Proposal
    <3>1. d \in Draft
      OBVIOUS
    <3>2. QED
      BY ONLY <3>1 DEF Proposal
  <2>3. /\ prop' \in [Row -> Proposal \cup {None}]
        /\ \A i \in Row : prop[i] # None => prop'[i] # None
        /\ drafts' \in [Generation -> SUBSET Draft]
    <3> DEFINE row == [draft |-> d, status |-> "pending"]
    <3>1. row \in Proposal
      BY <2>2
    <3>2. prop' = prop \/ \E i \in Row : prop' = [prop EXCEPT ![i] = row]
      BY <2>1
    <3> HIDE DEF row
    <3>3. prop \in [Row -> Proposal \cup {None}] /\ None \notin Proposal
      OBVIOUS
    <3>4. /\ prop' \in [Row -> Proposal \cup {None}]
          /\ \A i \in Row : prop[i] # None => prop'[i] # None
      BY ONLY <3>1, <3>2, <3>3
    <3>5. drafts' \in [Generation -> SUBSET Draft]
      BY <2>1
    <3>6. QED
      BY <3>4, <3>5
  <2>4. QED
    BY <1>3, <2>3 DEF ProposeOne
<1>4. CASE Supersede(g)
  <2>1. \A i \in Outdated(g) : prop[i] \in Proposal
    BY DEF Outdated, Pending
  <2>2. \A i \in Row : IF i \in Outdated(g)
                       THEN /\ prop'[i] =
                                 [prop[i] EXCEPT !.status = "superseded"]
                            /\ prop'[i] \in Proposal
                       ELSE prop'[i] = prop[i]
    BY <1>4, <2>1 DEF Supersede, Proposal
  <2>3. prop' = [i \in Row |-> prop'[i]]
    BY <1>4 DEF Supersede
  <2>4. \A i \in Row : /\ prop'[i] \in Proposal \cup {None}
                       /\ prop[i] # None => prop'[i] # None
    <3>1. /\ None \notin Proposal
          /\ \A i \in Row : prop[i] \in Proposal \cup {None}
      OBVIOUS
    <3>2. QED
      BY ONLY <2>1, <2>2, <3>1
  <2>5. prop' \in [Row -> Proposal \cup {None}]
    BY <2>3, <2>4
  <2>6. /\ \A d \in Decision : choice'[d] = choice[d] /\ pc'[d] = pc[d]
        /\ \A h \in Generation, i \in Row :
             existing'[h][i] = None \/ existing'[h][i] = existing[h][i]
    BY <1>4, ForgetsType DEF Supersede
  <2>7. Linked'
    BY <2>4, <2>6
  <2>8. QED
    BY <1>4, <2>5, <2>7, ForgetsType DEF Supersede
<1>5. QED
  BY <1>1, <1>2, <1>3, <1>4 DEF Generating

LEMMA DecisionType ==
  ASSUME TypeInv, NEW d \in Decision, Deciding(d)
  PROVE  TypeInv'
<1> USE DiscoveryAssumption
    DEF TypeInv, TypeOK, Linked, Fiber, Observing, Step, Goes, Begins,
        WritesPorts, hostVars, localVars
<1>1. CASE FindProposal(d)
  BY <1>1 DEF FindProposal, Pending
<1>2. CASE ApplyEffect(d)
  BY <1>2 DEF ApplyEffect
<1>3. CASE Decide(d)
  <2>1. /\ choice[d] \in Row /\ prop[choice[d]] \in Proposal
        /\ pc' = [pc EXCEPT ![d] = "idle"] /\ Forgets(d)
    BY <1>3 DEF Decide
  <2>2. PICK x \in {"accepted", "rejected"} :
          prop' = [prop EXCEPT ![choice[d]].status = x]
    BY <1>3 DEF Decide
  <2>3. [prop[choice[d]] EXCEPT !.status = x] \in Proposal
    BY <2>1 DEF Proposal
  <2>4. prop' = [prop EXCEPT ![choice[d]] =
                   [prop[choice[d]] EXCEPT !.status = x]]
    BY <2>1, <2>2
  <2>5. /\ prop' \in [Row -> Proposal \cup {None}]
        /\ \A i \in Row : prop[i] # None => prop'[i] # None
    BY <2>1, <2>3, <2>4
  <2>6. QED
    BY <1>3, <2>1, <2>5, ForgetsType DEF Decide
<1>4. QED
  BY <1>1, <1>2, <1>3 DEF Deciding

LEMMA NextType == TypeInv /\ [Next]_vars => TypeInv'
<1> SUFFICES ASSUME TypeInv, [Next]_vars PROVE TypeInv'
  OBVIOUS
<1> USE DiscoveryAssumption
    DEF TypeInv, TypeOK, Linked, Fiber, Step, hostVars, localVars
<1>1. ASSUME NEW f \in Fiber, Fails(f) PROVE TypeInv'
  BY <1>1, ForgetsType DEF Fails
<1>2. ASSUME NEW k \in Port, RegisterPort(k) PROVE TypeInv'
  BY <1>2 DEF RegisterPort, WritesPorts
<1>3. ASSUME NEW k \in Key, HostChanges(k) PROVE TypeInv'
  BY <1>3 DEF HostChanges
<1>4. CASE UNCHANGED vars
  BY <1>4 DEF vars
<1>5. QED
  BY <1>1, <1>2, <1>3, <1>4, NextCases, ScanType, GenerationType,
     DecisionType

\* Type invariant of the registry, the proposals and what the calls hold.
THEOREM TypeCorrect == Spec => []TypeOK
<1>1. TypeInv => TypeOK
  BY DEF TypeInv
<1>2. QED
  BY <1>1, InitType, NextType, PTL DEF Spec

-----------------------------------------------------------------------------
(* Scans                                                                   *)

\* What a scan that nobody disturbed has written, and what it found.
Exact(s) ==
  s \notin disturbed =>
    /\ pc[s] = "upsert" =>
         \A k \in Port \cap (seen[s] \ todo[s]) : alloc[k] = "active"
    /\ pc[s] = "mark" =>
         \A k \in Port :
           IF k \in seen[s] THEN alloc[k] = "active" /\ k \notin stale[s]
                            ELSE alloc[k] = "active" => k \in stale[s]
ScanInv == \A s \in Scan : Exact(s)

\* f writes the registry, or nobody does.
LEMMA ScanKept ==
  ASSUME ScanInv, NEW f, disturbed \subseteq disturbed' \cup {f},
         alloc' = alloc \/ \A s \in Scan \ {f} : pc[s] # "idle" =>
                                                   s \in disturbed',
         NEW s \in Scan \ {f}, pc'[s] = pc[s],
         seen'[s] = seen[s], todo'[s] = todo[s], stale'[s] = stale[s]
  PROVE  Exact(s)'
  BY DEF ScanInv, Exact

LEMMA ForgetsOne ==
  ASSUME TypeOK, NEW f, Forgets(f)
  PROVE  /\ \A g \in Observing \ {f} : seen'[g] = seen[g]
         /\ \A s \in Scan \ {f} : todo'[s] = todo[s] /\ stale'[s] = stale[s]
         /\ \A g \in Generation \ {f} : /\ drafts'[g] = drafts[g]
                                        /\ existing'[g] = existing[g]
         /\ \A d \in Decision \ {f} : choice'[d] = choice[d]
  BY DEF TypeOK, Forgets

LEMMA ScanKeepsExact ==
  ASSUME TypeOK, ScanInv, NEW s \in Scan, Scanning(s)
  PROVE  ScanInv'
<1> USE DiscoveryAssumption DEF Fiber, Observing
<1>1. /\ \A r \in Scan \ {s} : /\ pc'[r] = pc[r] /\ seen'[r] = seen[r]
                               /\ todo'[r] = todo[r] /\ stale'[r] = stale[r]
      /\ disturbed \subseteq disturbed' \cup {s}
      /\ alloc' = alloc \/ \A r \in Scan \ {s} : pc[r] # "idle" =>
                                                   r \in disturbed'
  <2>1. CASE Observe(s)
    BY <2>1 DEF Observe, Begins, TypeOK
  <2>2. CASE UpsertPort(s)
    BY <2>2 DEF UpsertPort, Goes, WritesPorts, TypeOK
  <2>3. CASE FindStale(s)
    BY <2>3 DEF FindStale, Goes, TypeOK
  <2>4. CASE MarkStale(s)
    BY <2>4, ForgetsOne DEF MarkStale, Goes, WritesPorts, TypeOK
  <2>5. QED
    BY <2>1, <2>2, <2>3, <2>4 DEF Scanning
<1>2. \A r \in Scan \ {s} : Exact(r)'
  BY <1>1, ScanKept
<1>3. Exact(s)'
  <2>1. CASE Observe(s)
    BY <2>1 DEF Observe, Begins, Exact, TypeOK
  <2>2. CASE UpsertPort(s)
    <3>1. /\ pc[s] = "upsert" /\ pc'[s] = "upsert" /\ seen' = seen
          /\ s \in disturbed' => s \in disturbed
          /\ s \in disturbed => s \in disturbed'
      BY <2>2 DEF UpsertPort, Goes, WritesPorts, TypeOK
    <3>2. PICK k \in todo[s] :
            /\ alloc' = [alloc EXCEPT ![k] = "active"]
            /\ todo' = [todo EXCEPT ![s] = @ \ {k}]
      BY <2>2 DEF UpsertPort
    <3>3. todo'[s] = todo[s] \ {k}
          /\ \A p \in Port : alloc'[p] = IF p = k THEN "active" ELSE alloc[p]
      BY <3>2 DEF TypeOK
    <3>4. QED
      BY <3>1, <3>3 DEF ScanInv, Exact
  <2>3. CASE FindStale(s)
    <3>1. /\ pc[s] = "upsert" /\ pc'[s] = "mark" /\ todo[s] = {}
          /\ UNCHANGED <<seen, alloc, disturbed>>
          /\ stale'[s] = {k \in Port : alloc[k] = "active"} \ seen[s]
      BY <2>3 DEF FindStale, Goes, TypeOK
    <3>2. QED
      BY <3>1 DEF ScanInv, Exact
  <2>4. CASE MarkStale(s)
    BY <2>4 DEF MarkStale, Goes, Exact, TypeOK
  <2>5. QED
    BY <2>1, <2>2, <2>3, <2>4 DEF Scanning
<1>4. QED
  BY <1>2, <1>3 DEF ScanInv

LEMMA ScanNext == TypeOK /\ ScanInv /\ [Next]_vars => ScanInv'
<1> SUFFICES ASSUME TypeOK, ScanInv, [Next]_vars PROVE ScanInv'
  OBVIOUS
<1> USE DiscoveryAssumption DEF Fiber, Observing
<1>1. ASSUME NEW g \in Generation, Generating(g) PROVE ScanInv'
  <2>1. \A s \in Scan : /\ pc'[s] = pc[s] /\ seen'[s] = seen[s]
                        /\ todo'[s] = todo[s] /\ stale'[s] = stale[s]
    <3>1. CASE Supersede(g)
      BY <3>1, ForgetsOne DEF Supersede, Goes, TypeOK
    <3>2. CASE Plan(g) \/ FindExisting(g) \/ ProposeOne(g)
      BY <3>2 DEF Plan, FindExisting, ProposeOne, Begins, Goes, TypeOK
    <3>3. QED
      BY <1>1, <3>1, <3>2 DEF Generating
  <2>2. disturbed' = disturbed /\ alloc' = alloc
    BY <1>1 DEF Generating, Plan, FindExisting, ProposeOne, Supersede
  <2>3. QED
    BY <2>1, <2>2, ScanKept DEF ScanInv
<1>2. ASSUME NEW d \in Decision, Deciding(d) PROVE ScanInv'
  <2>1. \A s \in Scan : /\ pc'[s] = pc[s] /\ seen'[s] = seen[s]
                        /\ todo'[s] = todo[s] /\ stale'[s] = stale[s]
    <3>1. CASE Decide(d)
      BY <3>1, ForgetsOne DEF Decide, Goes, TypeOK
    <3>2. CASE FindProposal(d) \/ ApplyEffect(d)
      BY <3>2 DEF FindProposal, ApplyEffect, Begins, Goes, localVars, TypeOK
    <3>3. QED
      BY <1>2, <3>1, <3>2 DEF Deciding
  <2>2. /\ disturbed \subseteq disturbed'
        /\ alloc' = alloc \/ \A s \in Scan : pc[s] # "idle" => s \in disturbed'
    BY <1>2 DEF Deciding, FindProposal, ApplyEffect, Decide, WritesPorts
  <2>3. QED
    BY <2>1, <2>2, ScanKept DEF ScanInv
<1>3. ASSUME NEW f \in Fiber, Fails(f) PROVE ScanInv'
  <2>1. \A s \in Scan \ {f} : /\ pc'[s] = pc[s] /\ seen'[s] = seen[s]
                              /\ todo'[s] = todo[s] /\ stale'[s] = stale[s]
    BY <1>3, ForgetsOne DEF Fails, TypeOK
  <2>2. disturbed' = disturbed /\ alloc' = alloc /\ pc'[f] = "idle"
    BY <1>3 DEF Fails, TypeOK
  <2>3. QED
    BY <2>1, <2>2, ScanKept DEF ScanInv, Exact
<1>4. ASSUME NEW k \in Port, RegisterPort(k) PROVE ScanInv'
  <2>1. None \notin Scan
    OBVIOUS
  <2>2. /\ UNCHANGED <<pc, localVars>> /\ disturbed \subseteq disturbed'
        /\ \A s \in Scan : pc[s] # "idle" => s \in disturbed'
    BY <1>4, <2>1 DEF RegisterPort, WritesPorts
  <2>3. QED
    BY <2>1, <2>2, ScanKept DEF ScanInv, localVars
<1>5. ASSUME NEW k \in Key, HostChanges(k) PROVE ScanInv'
  BY <1>5 DEF HostChanges, localVars, ScanInv, Exact
<1>6. CASE UNCHANGED vars
  BY <1>6 DEF vars, localVars, ScanInv, Exact
<1>7. QED
  BY <1>1, <1>2, <1>3, <1>4, <1>5, <1>6, NextCases, ScanKeepsExact

\* "marks unseen stale (not deleted)" (ports.ts), for any ports and any number
\* of scans: one that nobody disturbed leaves active exactly what it saw.
THEOREM ScansAreExact == Spec => ScanIsExact
<1>1. Init => ScanInv
  BY DEF Init, ScanInv, Exact, Fiber
<1>2. TypeOK /\ ScanInv /\ [Next]_vars =>
        [\A s \in Scan \ disturbed :
           pc[s] = "mark" /\ MarkStale(s) =>
             \A k \in Port : alloc'[k] = "active" <=> k \in seen[s]]_vars
  BY DEF ScanInv, Exact, MarkStale
<1>3. QED
  BY <1>1, <1>2, ScanNext, TypeCorrect, PTL DEF Spec, ScanIsExact

-----------------------------------------------------------------------------
(* Proposals                                                               *)

Busy(f) == pc[f] # "idle"

\* As long as no generation is raced: at most one is under way, a draft it has
\* still to look at is open only in a row that it found, and a decision has the
\* one open row of its draft, open for as long as a generation is under way.
Unique  == \A i, j \in Row :
             /\ Open(prop[i]) /\ Open(prop[j]) /\ prop[i].draft = prop[j].draft
             => i = j
OneGen  == \A g, h \in Generation : Busy(g) /\ Busy(h) => g = h
Covered == \A g \in Generation, i \in Row :
             /\ pc[g] = "create" /\ Open(prop[i])
                /\ prop[i].draft \in drafts[g]
             => existing[g][i] # None /\ existing[g][i].draft = prop[i].draft
Alone   == \A d \in Decision, i \in Row :
             /\ Busy(d) /\ Open(prop[i])
                /\ prop[i].draft = prop[choice[d]].draft
             => i = choice[d]
Apart   == \A d, e \in Decision :
             /\ Busy(d) /\ Busy(e)
             /\ prop[choice[d]].draft = prop[choice[e]].draft
             => d = e
Live    == \A d \in Decision, g \in Generation :
             Busy(d) /\ Busy(g) => Open(prop[choice[d]])
PropInv == ~raced => Unique /\ OneGen /\ Covered /\ Alone /\ Apart /\ Live

LEMMA PropInit == Init => PropInv
<1> SUFFICES ASSUME Init PROVE PropInv
  OBVIOUS
<1>1. /\ \A i \in Row : ~Open(prop[i])
      /\ \A f \in Generation \cup Decision : pc[f] = "idle"
  BY DEF Init, Open, Fiber
<1>2. QED
  BY <1>1 DEF PropInv, Unique, OneGen, Covered, Alone, Apart, Live, Busy

\* Calls go on with what they hold, or end.
Steady(g) == \/ pc'[g] = "idle"
             \/ /\ pc'[g] = pc[g] /\ drafts'[g] = drafts[g]
                /\ existing'[g] = existing[g]
Firm(d)   == \/ pc'[d] = "idle"
             \/ Busy(d) /\ choice'[d] = choice[d]

LEMMA PropKept ==
  ASSUME PropInv, prop' = prop, raced' = raced,
         \A g \in Generation : Steady(g), \A d \in Decision : Firm(d)
  PROVE  PropInv'
<1> SUFFICES ASSUME ~raced
             PROVE  (Unique /\ OneGen /\ Covered /\ Alone /\ Apart /\ Live)'
  BY DEF PropInv
<1> USE DEF PropInv, Steady, Firm, Busy
<1>1. Unique' /\ OneGen'
  BY DEF Unique, OneGen
<1>2. Covered'
  BY DEF Covered
<1>3. Alone'
  BY DEF Alone
<1>4. Apart'
  BY DEF Apart
<1>5. Live'
  BY DEF Live
<1>6. QED
  BY <1>1, <1>2, <1>3, <1>4, <1>5

LEMMA GenerationKeepsProp ==
  ASSUME TypeInv, PropInv, NEW g \in Generation, Generating(g)
  PROVE  PropInv'
<1> USE DiscoveryAssumption DEF Fiber, Observing
<1> DEFINE Other == (Generation \cup Decision) \ {g}
<1>1. /\ \A f \in Other : pc'[f] = pc[f]
      /\ \A h \in Generation \ {g} : /\ drafts'[h] = drafts[h]
                                     /\ existing'[h] = existing[h]
      /\ choice' = choice \/ Supersede(g)
      /\ \A d \in Decision : choice'[d] = choice[d] /\ d \in Other
  <2>1. CASE Supersede(g)
    BY <2>1, ForgetsOne DEF Supersede, Goes, TypeInv, TypeOK
  <2>2. CASE Plan(g)
    BY <2>2 DEF Plan, Begins, TypeInv, TypeOK
  <2>3. CASE FindExisting(g)
    BY <2>3 DEF FindExisting, Goes, TypeInv, TypeOK
  <2>4. CASE ProposeOne(g)
    BY <2>4 DEF ProposeOne, Goes, TypeInv, TypeOK
  <2>5. QED
    BY <2>1, <2>2, <2>3, <2>4 DEF Generating
<1>2. SUFFICES ASSUME ~raced'
               PROVE  (Unique /\ OneGen /\ Covered /\ Alone /\ Apart /\ Live)'
  BY DEF PropInv
<1>3. ~raced
  BY <1>2 DEF Generating, Plan, FindExisting, ProposeOne, Supersede
<1>4. Unique /\ OneGen /\ Covered /\ Alone /\ Apart /\ Live
  BY <1>3 DEF PropInv
<1>5. CASE Plan(g)
  <2>1. prop' = prop /\ pc'[g] = "read" /\ \A f \in Other : ~Busy(f)
    BY <1>2, <1>5 DEF Plan, Begins, Busy, TypeInv, TypeOK
  <2>2. Unique' /\ OneGen' /\ Covered'
    BY <1>1, <1>4, <2>1 DEF Unique, OneGen, Covered, Busy
  <2>3. \A d \in Decision : pc'[d] = "idle"
    BY <1>1, <2>1 DEF Busy
  <2>4. Alone' /\ Apart' /\ Live'
    BY <2>3 DEF Alone, Apart, Live, Busy
  <2>5. QED
    BY <2>2, <2>4
<1>6. CASE FindExisting(g)
  <2>1. /\ prop' = prop /\ Busy(g) /\ drafts' = drafts
        /\ \A i \in Row : Open(prop[i]) => existing'[g][i] = prop[i]
    BY <1>6 DEF FindExisting, Goes, Busy, TypeInv, TypeOK
  <2>2. Unique' /\ OneGen'
    BY <1>1, <1>4, <2>1 DEF Unique, OneGen, Busy
  <2>3. Covered'
    BY <1>1, <1>4, <2>1 DEF Covered, Open
  <2>4. Alone' /\ Apart' /\ Live'
    BY <1>1, <1>4, <2>1 DEF Alone, Apart, Live, Busy
  <2>5. QED
    BY <2>2, <2>3, <2>4
<1>7. CASE ProposeOne(g)
  <2>1. PICK k \in drafts[g] :
          /\ drafts' = [drafts EXCEPT ![g] = @ \ {k}]
          /\ IF \E i \in Row : /\ existing[g][i] # None
                                /\ KeyOf[existing[g][i].draft] = KeyOf[k]
             THEN prop' = prop
             ELSE \E i \in Row :
                    /\ prop[i] = None
                    /\ prop' = [prop EXCEPT ![i] = [draft |-> k,
                                                    status |-> "pending"]]
    BY <1>7 DEF ProposeOne, key
  <2>2. /\ pc[g] = "create" /\ pc' = pc /\ existing' = existing
        /\ choice' = choice /\ drafts'[g] = drafts[g] \ {k} /\ Busy(g)
    BY <1>7, <2>1 DEF ProposeOne, Goes, Busy, TypeInv, TypeOK
  <2>3. \A h \in Generation : Busy(h) => h = g
    BY <1>4, <2>2 DEF OneGen
  <2>4. CASE prop' = prop
    <3>1. Covered'
      BY <1>1, <1>4, <2>2, <2>4 DEF Covered
    <3>2. QED
      BY <1>4, <2>2, <2>4, <3>1
         DEF Unique, OneGen, Alone, Apart, Live, Busy
  <2>5. ASSUME NEW n \in Row, prop[n] = None,
               prop' = [prop EXCEPT ![n] = [draft |-> k,
                                            status |-> "pending"]],
               \A i \in Row : existing[g][i] # None => existing[g][i].draft # k
        PROVE  (Unique /\ OneGen /\ Covered /\ Alone /\ Apart /\ Live)'
    <3>1. /\ prop'[n].draft = k
          /\ \A i \in Row \ {n} : prop'[i] = prop[i]
      BY <2>5 DEF TypeInv, TypeOK
    <3>2. \A i \in Row : Open(prop[i]) => prop[i].draft # k
      BY <1>4, <2>1, <2>2, <2>5 DEF Covered
    <3>3. \A d \in Decision : Busy(d) =>
            /\ choice[d] \in Row \ {n} /\ Open(prop[choice[d]])
            /\ prop'[choice[d]] = prop[choice[d]] /\ prop[choice[d]].draft # k
      <4> SUFFICES ASSUME NEW d \in Decision, Busy(d)
                   PROVE  /\ choice[d] \in Row \ {n} /\ Open(prop[choice[d]])
                          /\ prop'[choice[d]] = prop[choice[d]]
                          /\ prop[choice[d]].draft # k
        OBVIOUS
      <4>1. choice[d] \in Row /\ prop[choice[d]] # None
        BY DEF TypeInv, Linked, Busy
      <4>2. Open(prop[choice[d]])
        BY <1>4, <2>2 DEF Live
      <4>3. QED
        BY <2>5, <3>1, <3>2, <4>1, <4>2
    <3>4. Unique'
      <4>1. \A i \in Row : Open(prop'[i]) /\ prop'[i].draft = k => i = n
        BY <3>1, <3>2
      <4>2. QED
        BY <1>4, <3>1, <4>1 DEF Unique
    <3>5. OneGen'
      BY <1>4, <2>2 DEF OneGen, Busy
    <3>6. Covered'
      BY <1>4, <2>2, <2>3, <3>1 DEF Covered, Busy
    <3>7. Alone'
      BY <1>4, <2>2, <3>1, <3>3 DEF Alone, Busy
    <3>8. Apart' /\ Live'
      BY <1>4, <2>2, <3>3 DEF Apart, Live, Busy
    <3>9. QED
      BY <3>4, <3>5, <3>6, <3>7, <3>8
  <2>6. QED
    BY <2>1, <2>4, <2>5
<1>8. CASE Supersede(g)
  <2>1. /\ Busy(g) /\ pc'[g] = "idle"
        /\ \A i \in Row :
             prop'[i] = IF i \in Outdated(g)
                        THEN [prop[i] EXCEPT !.status = "superseded"]
                        ELSE prop[i]
    BY <1>8 DEF Supersede, Goes, Busy, TypeInv, TypeOK
  <2>2. \A i \in Outdated(g) : prop[i] \in Proposal
    BY DEF Outdated, Pending, TypeInv, TypeOK, Linked
  <2>3. \A i \in Row : /\ Open(prop'[i]) => prop'[i] = prop[i]
                       /\ prop[i] # None => prop'[i].draft = prop[i].draft
    BY <2>1, <2>2 DEF Open, Proposal
  <2>4. \A h \in Generation : pc'[h] = "idle"
    BY <1>1, <1>4, <2>1 DEF OneGen, Busy
  <2>5. \A d \in Decision : Busy(d)' =>
          /\ Busy(d) /\ choice[d] \in Row /\ choice'[d] = choice[d]
          /\ prop'[choice[d]].draft = prop[choice[d]].draft
    BY <1>1, <2>3 DEF Busy, TypeInv, Linked
  <2>6. Unique'
    BY <1>4, <2>3 DEF Unique
  <2>7. OneGen' /\ Covered' /\ Live'
    BY <2>4 DEF OneGen, Covered, Live, Busy
  <2>8. Alone'
    <3> SUFFICES ASSUME NEW d \in Decision, NEW i \in Row, Busy(d)',
                        Open(prop'[i]),
                        prop'[i].draft = prop'[choice'[d]].draft
                 PROVE  i = choice'[d]
      BY DEF Alone
    <3>1. QED
      BY <1>4, <2>3, <2>5 DEF Alone
  <2>9. Apart'
    BY <1>4, <2>5 DEF Apart
  <2>10. QED
    BY <2>6, <2>7, <2>8, <2>9
<1>9. QED
  BY <1>5, <1>6, <1>7, <1>8 DEF Generating

LEMMA DecisionKeepsProp ==
  ASSUME TypeInv, PropInv, NEW d \in Decision, Deciding(d)
  PROVE  PropInv'
<1> USE DiscoveryAssumption DEF Fiber, Observing
<1>1. /\ \A g \in Generation : /\ pc'[g] = pc[g] /\ drafts'[g] = drafts[g]
                               /\ existing'[g] = existing[g]
      /\ \A e \in Decision \ {d} : pc'[e] = pc[e] /\ choice'[e] = choice[e]
  <2>1. CASE FindProposal(d)
    BY <2>1 DEF FindProposal, Begins, TypeInv, TypeOK
  <2>2. CASE ApplyEffect(d)
    BY <2>2 DEF ApplyEffect, Goes, localVars, TypeInv, TypeOK
  <2>3. CASE Decide(d)
    BY <2>3, ForgetsOne DEF Decide, Goes, TypeInv, TypeOK
  <2>4. QED
    BY <2>1, <2>2, <2>3 DEF Deciding
<1>2. SUFFICES ASSUME ~raced'
               PROVE  (Unique /\ OneGen /\ Covered /\ Alone /\ Apart /\ Live)'
  BY DEF PropInv
<1>3. ~raced
  BY <1>2 DEF Deciding, FindProposal, ApplyEffect, Decide
<1>4. Unique /\ OneGen /\ Covered /\ Alone /\ Apart /\ Live
  BY <1>3 DEF PropInv
<1>5. OneGen'
  BY <1>1, <1>4 DEF OneGen, Busy
<1>6. CASE FindProposal(d)
  <2>1. PICK i \in Row :
          /\ Open(prop[i]) /\ choice'[d] = i /\ prop' = prop
          /\ \A e \in Decision \ {d} : choice[e] # i
    <3>1. PICK i \in Row :
            /\ Pending(prop[i]) /\ choice' = [choice EXCEPT ![d] = i]
            /\ raced' = (raced \/ \E e \in Decision \ {d} : choice[e] = i)
      BY <1>6 DEF FindProposal
    <3>2. choice'[d] = i /\ \A e \in Decision \ {d} : choice[e] # i
      BY <1>2, <3>1 DEF TypeInv, TypeOK
    <3>3. Open(prop[i]) /\ prop' = prop
      BY <1>6, <3>1 DEF FindProposal, Pending, Open
    <3>4. QED
      BY <3>2, <3>3
  <2>2. Unique' /\ Covered'
    BY <1>1, <1>4, <2>1 DEF Unique, Covered
  <2>3. Alone'
    BY <1>1, <1>4, <2>1 DEF Alone, Unique, Busy
  <2>4. \A e \in Decision \ {d} :
          Busy(e) => prop[i].draft # prop[choice[e]].draft
    BY <1>4, <2>1 DEF Alone
  <2>5. Apart'
    BY <1>1, <1>4, <2>1, <2>4 DEF Apart, Busy
  <2>6. Live'
    BY <1>1, <1>4, <2>1 DEF Live, Busy
  <2>7. QED
    BY <1>5, <2>2, <2>3, <2>5, <2>6
<1>7. CASE ApplyEffect(d)
  <2>1. prop' = prop /\ choice' = choice /\ Busy(d)
    BY <1>7 DEF ApplyEffect, Goes, localVars, Busy
  <2>2. Unique' /\ Covered'
    BY <1>1, <1>4, <2>1 DEF Unique, Covered
  <2>3. \A e \in Decision : Busy(e)' => Busy(e)
    BY <1>1, <2>1 DEF Busy
  <2>4. Alone' /\ Apart'
    BY <1>4, <2>1, <2>3 DEF Alone, Apart
  <2>5. Live'
    BY <1>1, <1>4, <2>1, <2>3 DEF Live, Busy
  <2>6. QED
    BY <1>5, <2>2, <2>4, <2>5
<1>8. CASE Decide(d)
  <2> DEFINE n == choice[d]
  <2>1. Busy(d) /\ pc'[d] = "idle" /\ n \in Row /\ prop[n] \in Proposal
    BY <1>8 DEF Decide, Goes, Busy, TypeInv, TypeOK, Linked
  <2>2. \E x : prop' = [prop EXCEPT ![n].status = x]
    BY <1>8 DEF Decide
  <2>3. /\ \A i \in Row \ {n} : prop'[i] = prop[i]
        /\ prop'[n].draft = prop[n].draft
    BY <2>1, <2>2 DEF TypeInv, TypeOK, Proposal
  <2> HIDE DEF n
  <2>4. \A i \in Row : prop'[i].draft = prop[i].draft
    BY <2>3
  <2>5. \A i \in Row : Open(prop[i]) /\ prop[i].draft = prop[n].draft => i = n
    BY <1>4, <2>1 DEF Alone, n
  <2>6. \A e \in Decision : Busy(e)' =>
          /\ Busy(e) /\ choice'[e] = choice[e] /\ choice[e] \in Row \ {n}
          /\ prop[choice[e]].draft # prop[n].draft
    <3> SUFFICES ASSUME NEW e \in Decision, Busy(e)'
                 PROVE  /\ Busy(e) /\ choice'[e] = choice[e]
                        /\ choice[e] \in Row \ {n}
                        /\ prop[choice[e]].draft # prop[n].draft
      OBVIOUS
    <3>1. e # d /\ Busy(e) /\ choice'[e] = choice[e]
      BY <1>1, <2>1 DEF Busy
    <3>2. prop[choice[e]].draft # prop[n].draft /\ choice[e] # n
      BY <1>4, <2>1, <3>1 DEF Apart, n
    <3>3. choice[e] \in Row
      BY <3>1 DEF Busy, TypeInv, Linked
    <3>4. QED
      BY <3>1, <3>2, <3>3
  <2>7. Unique'
    <3>1. ASSUME NEW i \in Row, NEW j \in Row,
                 Open(prop'[i]), Open(prop'[j]),
                 prop'[i].draft = prop'[j].draft
          PROVE  i = j
      <4>1. prop[i].draft = prop[j].draft
        BY <2>4, <3>1
      <4>2. CASE i = n
        BY <2>3, <2>5, <3>1, <4>1, <4>2
      <4>3. CASE j = n
        BY <2>3, <2>5, <3>1, <4>1, <4>3
      <4>4. CASE i # n /\ j # n
        BY <1>4, <2>3, <3>1, <4>1, <4>4 DEF Unique
      <4>5. QED
        BY <4>2, <4>3, <4>4
    <3>2. QED
      BY <3>1 DEF Unique
  <2>8. Covered'
    <3> SUFFICES ASSUME NEW g \in Generation, NEW i \in Row, pc[g] = "create",
                        Open(prop'[i]), prop'[i].draft \in drafts[g]
                 PROVE  /\ existing[g][i] # None
                        /\ existing[g][i].draft = prop'[i].draft
      BY <1>1 DEF Covered
    <3>1. Open(prop[i])
      BY <1>4, <2>1, <2>3 DEF Live, Busy, n
    <3>2. QED
      BY <1>4, <2>4, <3>1 DEF Covered
  <2>9. Alone'
    <3> SUFFICES ASSUME NEW e \in Decision, NEW i \in Row, Busy(e)',
                        Open(prop'[i]),
                        prop'[i].draft = prop'[choice'[e]].draft
                 PROVE  i = choice'[e]
      BY DEF Alone
    <3>1. Busy(e) /\ prop[i].draft = prop[choice[e]].draft /\ i # n
      BY <2>4, <2>6
    <3>2. QED
      BY <1>4, <2>3, <2>6, <3>1 DEF Alone
  <2>10. Apart'
    BY <1>4, <2>4, <2>6 DEF Apart
  <2>11. Live'
    <3> SUFFICES ASSUME NEW e \in Decision, NEW g \in Generation,
                        Busy(e)', Busy(g)'
                 PROVE  Open(prop'[choice'[e]])
      BY DEF Live
    <3>1. Busy(e) /\ Busy(g)
      BY <1>1, <2>6 DEF Busy
    <3>2. QED
      BY <1>4, <2>3, <2>6, <3>1 DEF Live
  <2>12. QED
    BY <1>5, <2>7, <2>8, <2>9, <2>10, <2>11
<1>9. QED
  BY <1>6, <1>7, <1>8 DEF Deciding

LEMMA PropNext == TypeInv /\ PropInv /\ [Next]_vars => PropInv'
<1> SUFFICES ASSUME TypeInv, PropInv, [Next]_vars PROVE PropInv'
  OBVIOUS
<1> USE DiscoveryAssumption DEF Fiber, Observing
<1>1. ASSUME UNCHANGED <<prop, raced, drafts, existing, choice>>,
             \A f \in Generation \cup Decision : pc'[f] = pc[f]
      PROVE  PropInv'
  <2>1. \A g \in Generation : Steady(g)
    BY <1>1 DEF Steady
  <2>2. \A d \in Decision : Firm(d)
    BY <1>1 DEF Firm, Busy
  <2>3. QED
    BY <1>1, <2>1, <2>2, PropKept
<1>2. ASSUME NEW s \in Scan, Scanning(s) PROVE PropInv'
  <2>1. /\ prop' = prop /\ raced' = raced
        /\ \A f \in Generation \cup Decision : pc'[f] = pc[f]
        /\ \A g \in Generation : /\ drafts'[g] = drafts[g]
                                 /\ existing'[g] = existing[g]
        /\ \A d \in Decision : choice'[d] = choice[d]
    <3>1. CASE MarkStale(s)
      BY <3>1, ForgetsOne DEF MarkStale, Goes, TypeInv, TypeOK
    <3>2. CASE Observe(s)
      BY <3>2 DEF Observe, Begins, TypeInv, TypeOK
    <3>3. CASE UpsertPort(s) \/ FindStale(s)
      BY <3>3 DEF UpsertPort, FindStale, Goes, TypeInv, TypeOK
    <3>4. QED
      BY <1>2, <3>1, <3>2, <3>3 DEF Scanning
  <2>2. \A g \in Generation : Steady(g)
    BY <2>1 DEF Steady
  <2>3. \A d \in Decision : Firm(d)
    BY <2>1 DEF Firm, Busy
  <2>4. QED
    BY <2>1, <2>2, <2>3, PropKept
<1>3. ASSUME NEW f \in Fiber, Fails(f) PROVE PropInv'
  <2>1. /\ prop' = prop /\ raced' = raced /\ pc'[f] = "idle"
        /\ \A g \in Fiber \ {f} : pc'[g] = pc[g]
    BY <1>3 DEF Fails, TypeInv, TypeOK
  <2>2. \A g \in Generation : Steady(g)
    BY <1>3, <2>1, ForgetsOne DEF Fails, Steady, TypeInv
  <2>3. \A d \in Decision : Firm(d)
    <3>1. \A d \in Decision \ {f} : choice'[d] = choice[d]
      BY <1>3, ForgetsOne DEF Fails, TypeInv
    <3> SUFFICES ASSUME NEW d \in Decision, d # f PROVE Firm(d)
      BY <2>1 DEF Firm, Busy
    <3>2. pc'[d] = pc[d] /\ choice'[d] = choice[d]
      BY <2>1, <3>1
    <3>3. QED
      BY <3>2 DEF Firm, Busy
  <2>4. QED
    BY <2>1, <2>2, <2>3, PropKept
<1>4. ASSUME NEW k \in Port, RegisterPort(k) PROVE PropInv'
  BY <1>1, <1>4 DEF RegisterPort, localVars
<1>5. ASSUME NEW k \in Key, HostChanges(k) PROVE PropInv'
  BY <1>1, <1>5 DEF HostChanges, localVars
<1>6. CASE UNCHANGED vars
  BY <1>1, <1>6 DEF vars, localVars
<1>7. QED
  BY <1>2, <1>3, <1>4, <1>5, <1>6, NextCases, GenerationKeepsProp,
     DecisionKeepsProp

\* "no duplicate pending for same thing" (discovery.test.ts), as far as it is
\* true: for any number of keys, rows, generations and decisions that are not
\* raced, a key has no more open proposals than one list has drafts of it.
THEOREM ProposalsAreUnique == Spec => []OpenAsDrafted
<1>1. TypeInv /\ PropInv => OpenAsDrafted
  <2> SUFFICES ASSUME TypeInv, PropInv, ~raced, NEW k \in Key
               PROVE  Cardinality(OpenIn(k)) <= Cardinality(OneList(k))
    BY DEF OpenAsDrafted
  <2>1. IsFiniteSet(OneList(k))
    BY DiscoveryAssumption, FS_Subset DEF OneList
  <2>2. \A i \in OpenIn(k) : prop[i].draft \in OneList(k)
    BY DEF OpenIn, OneList, Open, key, TypeInv, TypeOK, Proposal
  <2>3. \A i, j \in OpenIn(k) : prop[i].draft = prop[j].draft => i = j
    BY DEF OpenIn, PropInv, Unique
  <2>4. [i \in OpenIn(k) |-> prop[i].draft] \in
          Injection(OpenIn(k), OneList(k))
    BY <2>2, <2>3 DEF Injection, IsInjective
  <2>5. QED
    BY <2>1, <2>4, FS_Injection
<1>2. TypeInv /\ [Next]_vars => TypeInv'
  BY NextType
<1>3. QED
  BY <1>1, <1>2, InitType, PropInit, PropNext, PTL DEF Spec
=============================================================================
