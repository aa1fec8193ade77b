----------------------------- MODULE Discovery -----------------------------
(***************************************************************************)
(* What the panel knows of a host: the port registry, kept by scans        *)
(* (src/lib/ports.ts, serverPorts.ts) and manual entries, and the          *)
(* proposals of src/lib/discovery.ts, which an administrator accepts or    *)
(* rejects and which, accepted, write to the registry too.  A scan, a      *)
(* generation and a decision work between the awaits of their code.        *)
(***************************************************************************)
EXTENDS Naturals, FiniteSets

CONSTANTS
  Key,         \* what can be discovered: dedupeKeys, keys of the registry
  Port,        \* those that are ports
  Draft,       \* drafts planProposals makes of them
  KeyOf,       \* [Draft -> Key]: dedupeKey; Docker lists a port published on
               \* 0.0.0.0 and on :: twice, and that makes two drafts of a key
  Scan,        \* calls of reconcile
  Generation,  \* calls of generateProposals
  Decision,    \* calls of the accept and reject routes
  None,
  MaxRows,     \* bound: DiscoveryProposal rows
  MaxCalls,    \* bound: calls
  MaxChanges   \* bound: changes of the host

Row      == 1..MaxRows
Fiber    == Scan \cup Generation \cup Decision
Proposal == [draft : Draft, status : {"pending", "accepted", "rejected",
                                      "superseded"}]

ASSUME DiscoveryAssumption ==
  /\ Port \subseteq Key
  /\ IsFiniteSet(Draft) /\ KeyOf \in [Draft -> Key]
  /\ Scan \cap Generation = {} /\ Decision \cap (Scan \cup Generation) = {}
  /\ None \notin Key \cup Row \cup Proposal \cup Fiber
  /\ {MaxRows, MaxCalls, MaxChanges} \subseteq Nat

VARIABLES
  up,         \* what runs on the host
  alloc,      \* [Port -> status of the PortAllocation row]
  prop,       \* [Row -> DiscoveryProposal, or None]
  applied,    \* proposals whose effect was applied
  pc,         \* [Fiber -> Step]
  seen,       \* [Scan \cup Generation -> what it observed]
  todo,       \* [Scan -> ports it still has to write]
  drafts,     \* [Generation -> drafts it still has to look at]
  stale,      \* [Scan -> rows found active and not seen]
  existing,   \* [Generation -> [Row -> pending and accepted rows it found]]
  choice,     \* [Decision -> the row it decides, or None]
  disturbed,  \* history: scans whose rows somebody else wrote meanwhile
  raced,      \* history: a generation began during another or a decision, or
              \* two decisions of one row overlapped
  calls,
  changes

hostVars  == <<up, changes>>
localVars == <<seen, todo, drafts, stale, existing, choice>>
vars == <<hostVars, alloc, prop, applied, pc, localVars, disturbed, raced,
          calls>>

Observing == Scan \cup Generation
Step      == {"idle", "upsert", "mark", "read", "create",
              "apply", "accept", "reject"}
Open(p)    == p # None /\ p.status \in {"pending", "accepted"}
Pending(p) == p # None /\ p.status = "pending"
key(p)     == KeyOf[p.draft]

TypeOK ==
  /\ up \subseteq Key
  /\ alloc \in [Port -> {"active", "stale", None}]
  /\ prop \in [Row -> Proposal \cup {None}]
  /\ applied \subseteq Row
  /\ pc \in [Fiber -> Step]
  /\ seen \in [Observing -> SUBSET Key]
  /\ todo \in [Scan -> SUBSET Port]
  /\ drafts \in [Generation -> SUBSET Draft]
  /\ stale \in [Scan -> SUBSET Port]
  /\ existing \in [Generation -> [Row -> Proposal \cup {None}]]
  /\ choice \in [Decision -> Row \cup {None}]
  /\ disturbed \subseteq Scan
  /\ raced \in BOOLEAN
  /\ calls \in 0..MaxCalls
  /\ changes \in 0..MaxChanges

Init ==
  /\ up = Key
  /\ alloc = [k \in Port |-> None]
  /\ prop = [i \in Row |-> None]
  /\ applied = {}
  /\ pc = [f \in Fiber |-> "idle"]
  /\ seen = [f \in Observing |-> {}]
  /\ todo = [s \in Scan |-> {}]
  /\ drafts = [g \in Generation |-> {}]
  /\ stale = [s \in Scan |-> {}]
  /\ existing = [g \in Generation |-> prop]
  /\ choice = [d \in Decision |-> None]
  /\ disturbed = {}
  /\ raced = FALSE
  /\ calls = 0
  /\ changes = 0

Begins(f, to) ==
  /\ pc[f] = "idle"
  /\ calls < MaxCalls
  /\ calls' = calls + 1
  /\ pc' = [pc EXCEPT ![f] = to]

Goes(f, from, to) ==
  /\ pc[f] = from
  /\ pc' = [pc EXCEPT ![f] = to]
  /\ UNCHANGED calls

\* What a call held is gone when it ends.
Forgets(f) ==
  /\ seen' = [g \in Observing |-> IF g = f THEN {} ELSE seen[g]]
  /\ todo' = [s \in Scan |-> IF s = f THEN {} ELSE todo[s]]
  /\ drafts' = [g \in Generation |-> IF g = f THEN {} ELSE drafts[g]]
  /\ stale' = [s \in Scan |-> IF s = f THEN {} ELSE stale[s]]
  /\ existing' = [g \in Generation |-> IF g = f THEN [i \in Row |-> None]
                                       ELSE existing[g]]
  /\ choice' = [d \in Decision |-> IF d = f THEN None ELSE choice[d]]

\* f, or nobody in particular, writes the registry.
WritesPorts(f) ==
  disturbed' = disturbed \cup {s \in Scan \ {f} : pc[s] # "idle"}

\* A tool that does not answer is taken for nothing to be seen: a scan asks
\* for the TCP and for the UDP ports, a generation asks Docker.
Listening  == SUBSET (up \cap Port)
Observable == {up, {}}

-----------------------------------------------------------------------------
(* reconcile                                                               *)

Observe(s) ==
  /\ Begins(s, "upsert")
  /\ \E O \in Listening :
       /\ seen' = [seen EXCEPT ![s] = O]
       /\ todo' = [todo EXCEPT ![s] = O]
  /\ disturbed' = disturbed \ {s}
  /\ UNCHANGED <<hostVars, alloc, prop, applied, drafts, stale, existing,
                 choice, raced>>

UpsertPort(s) ==
  /\ Goes(s, "upsert", "upsert")
  /\ \E k \in todo[s] :
       /\ alloc' = [alloc EXCEPT ![k] = "active"]
       /\ todo' = [todo EXCEPT ![s] = @ \ {k}]
  /\ WritesPorts(s)
  /\ UNCHANGED <<hostVars, prop, applied, seen, drafts, stale, existing,
                 choice, raced>>

\* Mutant: rows seen before but not active are looked for, too.
FindAllRows(s) ==
  /\ todo[s] = {}
  /\ Goes(s, "upsert", "mark")
  /\ stale' = [stale EXCEPT ![s] =
                 {k \in Port : alloc[k] = "stale"} \ seen[s]]
  /\ UNCHANGED <<hostVars, alloc, prop, applied, seen, todo, drafts, existing,
                 choice, disturbed, raced>>

FindStale(s) ==
  /\ todo[s] = {}
  /\ Goes(s, "upsert", "mark")
  /\ stale' = [stale EXCEPT ![s] =
                 {k \in Port : alloc[k] = "active"} \ seen[s]]
  /\ UNCHANGED <<hostVars, alloc, prop, applied, seen, todo, drafts, existing,
                 choice, disturbed, raced>>

MarkStale(s) ==
  /\ Goes(s, "mark", "idle")
  /\ alloc' = [k \in Port |-> IF k \in stale[s] THEN "stale" ELSE alloc[k]]
  /\ WritesPorts(s)
  /\ Forgets(s)
  /\ UNCHANGED <<hostVars, prop, applied, raced>>

\* POST /api/ports/manual.
RegisterPort(k) ==
  /\ calls < MaxCalls
  /\ calls' = calls + 1
  /\ alloc' = [alloc EXCEPT ![k] = "active"]
  /\ WritesPorts(None)
  /\ UNCHANGED <<hostVars, prop, applied, pc, localVars, raced>>

-----------------------------------------------------------------------------
(* generateProposals                                                       *)

Plan(g) ==
  /\ Begins(g, "read")
  /\ \E O \in Observable :
       /\ seen' = [seen EXCEPT ![g] = O]
       /\ drafts' = [drafts EXCEPT ![g] = {d \in Draft : KeyOf[d] \in O}]
  /\ raced' = (raced \/ \E f \in (Generation \cup Decision) \ {g} :
                          pc[f] # "idle")
  /\ UNCHANGED <<hostVars, alloc, prop, applied, todo, stale, existing,
                 choice, disturbed>>

\* Mutant: only what nobody has decided yet is looked up.
FindPending(g) ==
  /\ Goes(g, "read", "create")
  /\ existing' = [existing EXCEPT ![g] =
                    [i \in Row |-> IF Pending(prop[i]) THEN prop[i] ELSE None]]
  /\ UNCHANGED <<hostVars, alloc, prop, applied, seen, todo, drafts, stale,
                 choice, disturbed, raced>>

FindExisting(g) ==
  /\ Goes(g, "read", "create")
  /\ existing' = [existing EXCEPT ![g] =
                    [i \in Row |-> IF Open(prop[i]) THEN prop[i] ELSE None]]
  /\ UNCHANGED <<hostVars, alloc, prop, applied, seen, todo, drafts, stale,
                 choice, disturbed, raced>>

\* One draft of the loop: a row, unless it found one with that key before
\* the loop; rows that the loop created are not looked at.
ProposeOne(g) ==
  /\ Goes(g, "create", "create")
  /\ \E d \in drafts[g] :
       /\ drafts' = [drafts EXCEPT ![g] = @ \ {d}]
       /\ IF \E i \in Row : /\ existing[g][i] # None
                             /\ key(existing[g][i]) = KeyOf[d]
          THEN prop' = prop
          ELSE \E i \in Row :
                 /\ prop[i] = None
                 /\ \A j \in Row : prop[j] = None => i <= j
                 /\ prop' = [prop EXCEPT ![i] = [draft |-> d,
                                                 status |-> "pending"]]
  /\ UNCHANGED <<hostVars, alloc, applied, seen, todo, stale, existing,
                 choice, disturbed, raced>>

\* Rows that were pending when it looked, and are no longer proposed.
Outdated(g) ==
  {i \in Row : Pending(existing[g][i]) /\ key(existing[g][i]) \notin seen[g]}

Supersede(g) ==
  /\ drafts[g] = {}
  /\ Goes(g, "create", "idle")
  /\ prop' = [i \in Row |-> IF i \in Outdated(g)
                            THEN [prop[i] EXCEPT !.status = "superseded"]
                            ELSE prop[i]]
  /\ Forgets(g)
  /\ UNCHANGED <<hostVars, alloc, applied, disturbed, raced>>

-----------------------------------------------------------------------------
(* The accept and reject routes                                            *)

\* Answers 409 for a row that is not pending.
FindProposal(d) ==
  \E i \in Row, to \in {"apply", "reject"} :
    /\ Pending(prop[i])
    /\ Begins(d, to)
    /\ choice' = [choice EXCEPT ![d] = i]
    /\ raced' = (raced \/ \E e \in Decision \ {d} : choice[e] = i)
    /\ UNCHANGED <<hostVars, alloc, prop, applied, seen, todo, drafts, stale,
                   existing, disturbed>>

\* applyProposalEffect: the row of a port, or a setting.
ApplyEffect(d) ==
  /\ Goes(d, "apply", "accept")
  /\ LET k == key(prop[choice[d]]) IN
       IF k \in Port
       THEN alloc' = [alloc EXCEPT ![k] = "active"] /\ WritesPorts(d)
       ELSE UNCHANGED <<alloc, disturbed>>
  /\ applied' = applied \cup {choice[d]}
  /\ UNCHANGED <<hostVars, prop, localVars, raced>>

Decide(d) ==
  /\ \/ /\ Goes(d, "accept", "idle")
        /\ prop' = [prop EXCEPT ![choice[d]].status = "accepted"]
     \/ /\ Goes(d, "reject", "idle")
        /\ prop' = [prop EXCEPT ![choice[d]].status = "rejected"]
  /\ Forgets(d)
  /\ UNCHANGED <<hostVars, alloc, applied, disturbed, raced>>

-----------------------------------------------------------------------------
(* Everything else                                                         *)

\* A statement is rejected, or the process dies.
Fails(f) ==
  /\ pc[f] # "idle"
  /\ pc' = [pc EXCEPT ![f] = "idle"]
  /\ Forgets(f)
  /\ UNCHANGED <<hostVars, alloc, prop, applied, disturbed, raced, calls>>

\* Something starts or stops on the host.
HostChanges(k) ==
  /\ changes < MaxChanges
  /\ changes' = changes + 1
  /\ up' = IF k \in up THEN up \ {k} ELSE up \cup {k}
  /\ UNCHANGED <<alloc, prop, applied, pc, localVars, disturbed, raced, calls>>

Scanning(s)   == Observe(s) \/ UpsertPort(s) \/ FindStale(s) \/ MarkStale(s)
Generating(g) == Plan(g) \/ FindExisting(g) \/ ProposeOne(g) \/ Supersede(g)
Deciding(d)   == FindProposal(d) \/ ApplyEffect(d) \/ Decide(d)

Next ==
  \/ \E s \in Scan : Scanning(s)
  \/ \E g \in Generation : Generating(g)
  \/ \E d \in Decision : Deciding(d)
  \/ \E f \in Fiber : Fails(f)
  \/ \E k \in Port : RegisterPort(k)
  \/ \E k \in Key : HostChanges(k)

Spec == Init /\ [][Next]_vars

-----------------------------------------------------------------------------
(* Properties                                                              *)

\* A scan that nobody disturbed leaves active exactly what it saw: "marks
\* unseen stale (not deleted)", in several statements.
ScanIsExact ==
  [][\A s \in Scan \ disturbed :
       pc[s] = "mark" /\ MarkStale(s) =>
         \A k \in Port : alloc'[k] = "active" <=> k \in seen[s]]_vars

\* "re-run generateProposals -> no duplicate pending for same thing": a key
\* never has more proposals that are pending or accepted than planProposals
\* makes drafts of it in one list (for most keys, one), through changes of the
\* host, decisions, failures in the middle of the loop and generations that
\* see nothing, as long as no generation begins during another or during a
\* decision, and no row is accepted and rejected at once.
OpenIn(k) == {i \in Row : Open(prop[i]) /\ key(prop[i]) = k}
OneList(k) == {d \in Draft : KeyOf[d] = k}

OpenAsDrafted ==
  ~raced => \A k \in Key :
              Cardinality(OpenIn(k)) <= Cardinality(OneList(k))

\* The same without the condition: the rows that exist are read before the
\* missing ones are created.
AlwaysAsDrafted ==
  \A k \in Key : Cardinality(OpenIn(k)) <= Cardinality(OneList(k))

\* What "no duplicate" says: one at most.  The loop does not add the rows it
\* creates to those it found, so a list that has a key twice creates it twice.
OneOpenProposal == ~raced => \A k \in Key : Cardinality(OpenIn(k)) <= 1
=============================================================================
