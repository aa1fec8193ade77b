--------------------------- MODULE Access_proofs ---------------------------
(***************************************************************************)
(* What the accounts promise, for any number of users, requests and        *)
(* errors of Redis.                                                        *)
(***************************************************************************)
EXTENDS Access, FiniteSetTheorems, TLAPS

LEMMA NextCases ==
  ASSUME [Next]_vars
  PROVE  \/ \E l \in Login : LoggingIn(l)
         \/ \E a \in Admin : Changing(a)
         \/ \E e \in Enrol : Enrolling(e)
         \/ \E f \in Fiber : Abandoned(f)
         \/ \E u \in User : KeyExpires(u)
         \/ \E s \in Session : EndSession(s)
         \/ UNCHANGED vars
  BY DEF Next

-----------------------------------------------------------------------------
(* Types                                                                   *)

LEMMA InitType == Init => TypeOK
<1> SUFFICES ASSUME Init PROVE TypeOK
  OBVIOUS
<1> USE AccessAssumption DEF Init
<1>1. role \in [User -> Role \cup {None}] /\ deleted \subseteq User
  OBVIOUS
<1>2. session \in [Session -> Token \cup {None}]
  BY DEF Session, Token, Role
<1>3. pc \in [Fiber -> Step] /\ held \in [Login -> Role]
  BY DEF Step, Role
<1>4. job \in [Admin -> Request]
  BY DEF Request, NoJob, Role
<1>5. /\ fails \in [User -> Nat] /\ examined \in [User -> Nat]
      /\ errors \in 0..MaxErrors /\ begun \in 0..MaxRequests
  OBVIOUS
<1>6. enabled \in [User -> BOOLEAN] /\ ttl \in [User -> BOOLEAN]
  OBVIOUS
<1>7. /\ secret \in [User -> Enrol \cup {None}]
      /\ owner \in [Enrol -> User \cup {None}]
      /\ verified \in [User -> SUBSET Enrol]
      /\ crossed \subseteq User /\ raced \in BOOLEAN
  OBVIOUS
<1>8. QED
  BY <1>1, <1>2, <1>3, <1>4, <1>5, <1>6, <1>7 DEF TypeOK

LEMMA ForgetsType ==
  ASSUME TypeOK, NEW f, Forgets(f)
  PROVE  /\ held' \in [Login -> Role]
         /\ job' \in [Admin -> Request]
         /\ owner' \in [Enrol -> User \cup {None}]
<1>1. NoJob \in Request
  BY AccessAssumption DEF NoJob, Request, Role
<1>2. held' \in [Login -> Role]
  BY DEF TypeOK, Forgets, Role
<1>3. job' \in [Admin -> Request]
  BY <1>1 DEF TypeOK, Forgets
<1>4. owner' \in [Enrol -> User \cup {None}]
  BY DEF TypeOK, Forgets
<1>5. QED
  BY <1>2, <1>3, <1>4

LEMMA LoginType ==
  ASSUME TypeOK, NEW l \in Login, LoggingIn(l)
  PROVE  TypeOK'
<1> USE AccessAssumption
    DEF TypeOK, Fiber, Handling, Step, Goes, Begins, RedisError,
        userVars, limitVars, localVars, history
<1>1. CASE CheckLimit(l)
  BY <1>1 DEF CheckLimit
<1>2. CASE Refused(l) \/ NoCode(l)
  BY <1>2 DEF Refused, NoCode
<1>3. CASE Accepted(l)
  BY <1>3 DEF Accepted, Exists
<1>4. CASE Increment(l)
  BY <1>4 DEF Increment
<1>5. CASE SetExpiry(l)
  <2>1. PICK t \in BOOLEAN : ttl' = [ttl EXCEPT ![UserOf[l]] = t] \/ ttl' = ttl
    <3>1. (fails[UserOf[l]] > 0) \in BOOLEAN
      OBVIOUS
    <3>2. CASE ttl' = [ttl EXCEPT ![UserOf[l]] = fails[UserOf[l]] > 0]
      BY <3>1, <3>2, Zenon
    <3>3. CASE ttl' = ttl
      BY <3>3, Zenon
    <3>4. QED
      BY <1>5, <3>2, <3>3, Zenon DEF SetExpiry
  <2>2. ttl' \in [User -> BOOLEAN]
    BY <2>1
  <2>3. pc' \in [Fiber -> Step] /\ errors' \in 0..MaxErrors
    BY <1>5 DEF SetExpiry
  <2>4. QED
    BY <1>5, <2>2, <2>3 DEF SetExpiry
<1>6. CASE ClearFailures(l)
  <2>1. fails' \in [User -> Nat] /\ examined' \in [User -> Nat]
    BY <1>6 DEF ClearFailures
  <2>2. ttl' \in [User -> BOOLEAN]
    BY <1>6 DEF ClearFailures
  <2>3. pc' \in [Fiber -> Step] /\ errors' \in 0..MaxErrors
    BY <1>6 DEF ClearFailures
  <2>4. QED
    BY <1>6, <2>1, <2>2, <2>3 DEF ClearFailures
<1>7. CASE CreateSession(l)
  <2>1. session' \in [Session -> Token \cup {None}]
    BY <1>7 DEF CreateSession, Session, Token
  <2>2. pc' \in [Fiber -> Step]
    BY <1>7 DEF CreateSession
  <2>3. QED
    BY <1>7, <2>1, <2>2, ForgetsType DEF CreateSession
<1>8. QED
  BY <1>1, <1>2, <1>3, <1>4, <1>5, <1>6, <1>7 DEF LoggingIn

LEMMA AdminType ==
  ASSUME TypeOK, NEW a \in Admin, Changing(a)
  PROVE  TypeOK'
<1> USE AccessAssumption
    DEF TypeOK, Fiber, Handling, Step, Goes, Begins,
        userVars, limitVars, localVars, history
<1>1. CASE BeginChange(a)
  BY <1>1 DEF BeginChange
<1>2. CASE ReadBefore(a) \/ FindTarget(a)
  BY <1>2 DEF ReadBefore, FindTarget
<1>3. CASE CountAdmins(a)
  BY <1>3 DEF CountAdmins
<1>4. CASE WriteUser(a)
  <2>1. job[a].target \in User /\ job[a].to \in Role \cup {None}
    BY DEF Request
  <2>2. role' \in [User -> Role \cup {None}] /\ pc' \in [Fiber -> Step]
    BY <1>4, <2>1 DEF WriteUser
  <2>3. CASE job[a].to # None
    BY <1>4, <2>2, <2>3, ForgetsType DEF WriteUser
  <2>4. CASE job[a].to = None
    <3> DEFINE u == job[a].target
    <3>1. /\ deleted' = deleted \cup {u}
          /\ secret' = [secret EXCEPT ![u] = None]
          /\ enabled' = [enabled EXCEPT ![u] = FALSE]
      BY <1>4, <2>4 DEF WriteUser
    <3>2. deleted' \subseteq User /\ secret' \in [User -> Enrol \cup {None}]
      BY <2>1, <3>1
    <3>3. enabled' \in [User -> BOOLEAN]
      BY <2>1, <3>1
    <3>4. session' \in [Session -> Token \cup {None}]
      BY <1>4, <2>4 DEF WriteUser
    <3>5. QED
      BY <1>4, <2>2, <3>2, <3>3, <3>4, ForgetsType DEF WriteUser
  <2>5. QED
    BY <2>3, <2>4
<1>5. CASE BeginCreate(a)
  BY <1>5 DEF BeginCreate
<1>6. CASE CreateUser(a)
  BY <1>6 DEF CreateUser
<1>7. QED
  BY <1>1, <1>2, <1>3, <1>4, <1>5, <1>6 DEF Changing

LEMMA EnrolType ==
  ASSUME TypeOK, NEW e \in Enrol, Enrolling(e)
  PROVE  TypeOK'
<1> USE AccessAssumption
    DEF TypeOK, Fiber, Handling, Step, Goes, Begins,
        userVars, limitVars, localVars, history
<1>1. CASE BeginEnrol(e)
  <2>1. PICK s \in Session, step \in {"renew", "verify", "confirm"} :
          /\ session[s] # None
          /\ Begins(e, step)
          /\ owner' = [owner EXCEPT ![e] = session[s].user]
          /\ crossed' \in {crossed, crossed \cup {session[s].user}}
          /\ UNCHANGED <<userVars, session, limitVars, held, job, verified,
                         raced>>
    BY <1>1 DEF BeginEnrol
  <2>2. session[s].user \in User
    BY <2>1 DEF Token
  <2>3. QED
    BY <2>1, <2>2
<1>2. CASE NewSecret(e)
  BY <1>2, ForgetsType DEF NewSecret
<1>3. CASE VerifyCode(e)
  <2>1. verified' \in [User -> SUBSET Enrol]
    <3>1. CASE owner[e] \in User
      BY <1>3, <3>1 DEF VerifyCode
    <3>2. CASE owner[e] \notin User
      <4>1. \A v \in User : v # owner[e]
        BY <3>2
      <4>2. /\ verified' = [v \in DOMAIN verified |-> IF v = owner[e]
                               THEN verified[v] \cup {secret[v]}
                               ELSE verified[v]]
            /\ DOMAIN verified = User
        BY <1>3 DEF VerifyCode
      <4>3. verified' = verified
        BY <4>1, <4>2
      <4>4. QED
        BY <4>3
    <3>3. QED
      BY <3>1, <3>2
  <2>2. pc' \in [Fiber -> Step]
    BY <1>3 DEF VerifyCode
  <2>3. UNCHANGED <<userVars, session, limitVars, localVars, raced, crossed,
                    begun>>
    BY <1>3 DEF VerifyCode
  <2>4. QED
    BY <2>1, <2>2, <2>3
<1>4. CASE Enable(e)
  <2>1. enabled' \in [User -> BOOLEAN]
    BY <1>4 DEF Enable
  <2>2. QED
    BY <1>4, <2>1, ForgetsType DEF Enable
<1>5. CASE ConfirmCode(e)
  BY <1>5 DEF ConfirmCode
<1>6. CASE Disable(e)
  BY <1>6, ForgetsType DEF Disable
<1>7. QED
  BY <1>1, <1>2, <1>3, <1>4, <1>5, <1>6 DEF Enrolling

LEMMA NextType == TypeOK /\ [Next]_vars => TypeOK'
<1> SUFFICES ASSUME TypeOK, [Next]_vars PROVE TypeOK'
  OBVIOUS
<1>1. ASSUME NEW f \in Fiber, Abandoned(f) PROVE TypeOK'
  BY <1>1, ForgetsType DEF TypeOK, Abandoned, Step, userVars, limitVars,
                           history
<1>2. ASSUME NEW u \in User, KeyExpires(u) PROVE TypeOK'
  BY <1>2 DEF TypeOK, KeyExpires, userVars, localVars, history
<1>3. ASSUME NEW s \in Session, EndSession(s) PROVE TypeOK'
  BY <1>3 DEF TypeOK, EndSession, userVars, limitVars, localVars, history
<1>4. ASSUME UNCHANGED vars PROVE TypeOK'
  BY <1>4 DEF TypeOK, vars, userVars, limitVars, localVars, history
<1>5. QED
  BY <1>1, <1>2, <1>3, <1>4, NextCases, LoginType, AdminType, EnrolType

\* Type invariant of the accounts, their sessions and the limit of failures.
THEOREM TypeCorrect == Spec => []TypeOK
<1>1. QED
  BY InitType, NextType, PTL DEF Spec

-----------------------------------------------------------------------------
(* What a request leaves alone                                             *)

Same(F) == \A g \in F : pc'[g] = pc[g]

LEMMA ForgetsOne ==
  ASSUME TypeOK, NEW f, Forgets(f)
  PROVE  /\ \A a \in Admin \ {f} : job'[a] = job[a]
         /\ \A e \in Enrol \ {f} : owner'[e] = owner[e]
  BY DEF TypeOK, Forgets

LEMMA LoginAlone ==
  ASSUME TypeOK, NEW l \in Login, LoggingIn(l)
  PROVE  /\ Same(Fiber \ {l})
         /\ UNCHANGED <<userVars, history>>
         /\ \A a \in Admin : job'[a] = job[a]
         /\ \A e \in Enrol : owner'[e] = owner[e]
<1> USE AccessAssumption DEF Same, TypeOK, Fiber, Goes, Begins, localVars,
                             userVars, history
<1>1. CASE CreateSession(l)
  BY <1>1, ForgetsOne DEF CreateSession
<1>2. CASE CheckLimit(l) \/ Refused(l) \/ Accepted(l) \/ NoCode(l)
  BY <1>2 DEF CheckLimit, Refused, Accepted, NoCode
<1>3. CASE Increment(l) \/ SetExpiry(l) \/ ClearFailures(l)
  BY <1>3 DEF Increment, SetExpiry, ClearFailures
<1>4. QED
  BY <1>1, <1>2, <1>3 DEF LoggingIn

LEMMA ChangeAlone ==
  ASSUME TypeOK, NEW a \in Admin, Changing(a)
  PROVE  /\ Same(Fiber \ {a})
         /\ UNCHANGED <<limitVars, verified, crossed>>
         /\ \A b \in Admin \ {a} : job'[b] = job[b]
         /\ \A e \in Enrol : owner'[e] = owner[e]
<1> USE AccessAssumption DEF Same, TypeOK, Fiber, Goes, Begins, localVars,
                             limitVars, history
<1>1. CASE WriteUser(a)
  BY <1>1, ForgetsOne DEF WriteUser
<1>2. CASE BeginChange(a)
  BY <1>2 DEF BeginChange
<1>3. CASE ReadBefore(a) \/ FindTarget(a) \/ CountAdmins(a)
  BY <1>3 DEF ReadBefore, FindTarget, CountAdmins
<1>4. CASE BeginCreate(a) \/ CreateUser(a)
  BY <1>4 DEF BeginCreate, CreateUser
<1>5. QED
  BY <1>1, <1>2, <1>3, <1>4 DEF Changing

LEMMA EnrolAlone ==
  ASSUME TypeOK, NEW e \in Enrol, Enrolling(e)
  PROVE  /\ Same(Fiber \ {e})
         /\ UNCHANGED <<role, deleted, limitVars, raced>>
         /\ \A a \in Admin : job'[a] = job[a]
         /\ \A f \in Enrol \ {e} : owner'[f] = owner[f]
<1> USE AccessAssumption DEF Same, TypeOK, Fiber, Goes, Begins, localVars,
                             userVars, limitVars, history
<1>1. CASE BeginEnrol(e)
  BY <1>1 DEF BeginEnrol
<1>2. CASE NewSecret(e) \/ Enable(e) \/ Disable(e)
  BY <1>2, ForgetsOne DEF NewSecret, Enable, Disable
<1>3. CASE VerifyCode(e) \/ ConfirmCode(e)
  BY <1>3 DEF VerifyCode, ConfirmCode
<1>4. QED
  BY <1>1, <1>2, <1>3 DEF Enrolling

LEMMA AbandonedAlone ==
  ASSUME TypeOK, NEW f \in Fiber, Abandoned(f)
  PROVE  /\ Same(Fiber \ {f}) /\ pc'[f] = "idle"
         /\ UNCHANGED <<userVars, limitVars, history>>
         /\ \A a \in Admin \ {f} : job'[a] = job[a]
         /\ \A e \in Enrol \ {f} : owner'[e] = owner[e]
  BY ForgetsOne DEF Same, TypeOK, Abandoned, history

-----------------------------------------------------------------------------
(* The second factor                                                       *)

\* A user who is gone stays so; a request knows its user; two of one user
\* have crossed; and what a request is about to enable is a secret that a
\* code was verified for, unless its user is gone.
Gone     == \A u \in deleted : role[u] = None
Handled  == {e \in Enrol : pc[e] \in Handling}
Owned    == \A e \in Handled : owner[e] \in User
Counted  == \A e, f \in Handled :
              e # f /\ owner[e] = owner[f] => owner[e] \in crossed
Verified == \A e \in Enrol :
              pc[e] = "enable" /\ owner[e] \notin crossed \cup deleted
                => secret[owner[e]] \in verified[owner[e]]
FactorInv == Gone /\ Owned /\ Counted /\ Verified /\ EnabledWasVerified

LEMMA FactorInit == Init => FactorInv
  BY AccessAssumption
     DEF Init, FactorInv, Gone, Handled, Owned, Counted, Verified,
         EnabledWasVerified, Handling, Fiber

\* Requests that have nothing to do with the factor.
LEMMA FactorKept ==
  ASSUME TypeOK, FactorInv,
         \A e \in Enrol : /\ pc'[e] \in {pc[e], "idle"}
                          /\ pc'[e] = pc[e] => owner'[e] = owner[e],
         UNCHANGED <<userVars, verified, crossed>>
  PROVE  FactorInv'
<1> USE DEF FactorInv, userVars
<1>1. Gone'
  BY DEF Gone
<1>2. \A e \in Handled' : e \in Handled /\ owner'[e] = owner[e]
  BY DEF Handled, Handling
<1>3. Owned' /\ Counted'
  BY <1>2 DEF Owned, Counted
<1>4. Verified'
  BY DEF Verified
<1>5. EnabledWasVerified'
  BY DEF EnabledWasVerified
<1>6. QED
  BY <1>1, <1>3, <1>4, <1>5

LEMMA ChangeKeepsFactor ==
  ASSUME TypeOK, FactorInv, NEW a \in Admin, Changing(a)
  PROVE  FactorInv'
<1> USE AccessAssumption DEF FactorInv
<1>1. \A e \in Enrol : pc'[e] = pc[e] /\ owner'[e] = owner[e]
  BY ChangeAlone DEF Same, Fiber
<1>2. UNCHANGED <<verified, crossed>>
  BY ChangeAlone
<1>3. Owned' /\ Counted'
  BY <1>1, <1>2 DEF Handled, Owned, Counted
<1>4. CASE UNCHANGED userVars
  BY <1>1, <1>2, <1>4, FactorKept
<1>5. CASE WriteUser(a)
  <2> DEFINE q == job[a]
  <2>1. /\ q.target \in User /\ Exists(q.target)
        /\ role' = [role EXCEPT ![q.target] = q.to]
    BY <1>5 DEF TypeOK, Request, WriteUser
  <2>2. CASE q.to # None
    <3>1. UNCHANGED <<deleted, secret, enabled>>
      BY <1>5, <2>2 DEF WriteUser
    <3>2. Gone'
      BY <2>1, <3>1 DEF Gone, Exists, TypeOK
    <3>3. Verified' /\ EnabledWasVerified'
      BY <1>1, <1>2, <3>1 DEF Verified, EnabledWasVerified
    <3>4. QED
      BY <1>3, <3>2, <3>3
  <2>3. CASE q.to = None
    <3>1. /\ deleted' = deleted \cup {q.target}
          /\ secret' = [secret EXCEPT ![q.target] = None]
          /\ enabled' = [enabled EXCEPT ![q.target] = FALSE]
      BY <1>5, <2>3 DEF WriteUser
    <3>2. Gone'
      BY <2>1, <2>3, <3>1 DEF Gone, TypeOK
    <3>3. Verified'
      BY <1>1, <1>2, <3>1 DEF Verified, TypeOK
    <3>4. EnabledWasVerified'
      BY <1>2, <3>1 DEF EnabledWasVerified, TypeOK
    <3>5. QED
      BY <1>3, <3>2, <3>3, <3>4
  <2>4. QED
    BY <2>2, <2>3
<1>6. CASE CreateUser(a)
  <2>1. PICK u \in User \ deleted, r \in Role : role' = [role EXCEPT ![u] = r]
    BY <1>6 DEF CreateUser
  <2>2. UNCHANGED <<deleted, secret, enabled>>
    BY <1>6 DEF CreateUser
  <2>3. Gone'
    BY <2>1, <2>2 DEF Gone, TypeOK
  <2>4. Verified' /\ EnabledWasVerified'
    BY <1>1, <1>2, <2>2 DEF Verified, EnabledWasVerified
  <2>5. QED
    BY <1>3, <2>3, <2>4
<1>7. QED
  BY <1>4, <1>5, <1>6
     DEF Changing, BeginChange, ReadBefore, FindTarget, CountAdmins,
         BeginCreate

LEMMA EnrolKeepsFactor ==
  ASSUME TypeOK, FactorInv, NEW e \in Enrol, Enrolling(e)
  PROVE  FactorInv'
<1> USE AccessAssumption DEF FactorInv
<1>1. \A f \in Enrol \ {e} : pc'[f] = pc[f] /\ owner'[f] = owner[f]
  BY EnrolAlone DEF Same, Fiber
<1>2. Gone'
  BY EnrolAlone DEF Gone
<1>3. CASE BeginEnrol(e)
  <2>1. PICK s \in Session, step \in {"renew", "verify", "confirm"} :
          /\ session[s] # None
          /\ Begins(e, step)
          /\ owner' = [owner EXCEPT ![e] = session[s].user]
          /\ crossed' = IF \E f \in Enrol \ {e} :
                             pc[f] \in Handling /\ owner[f] = session[s].user
                        THEN crossed \cup {session[s].user} ELSE crossed
          /\ UNCHANGED <<userVars, verified>>
    BY <1>3 DEF BeginEnrol
  <2>2. /\ session[s].user \in User /\ owner'[e] = session[s].user
        /\ pc'[e] = step
    BY <2>1 DEF TypeOK, Token, Begins, Fiber
  <2>3. Owned'
    BY <1>1, <2>2 DEF Owned, Handled
  <2>4. crossed \subseteq crossed'
    BY <2>1
  <2>5. Counted'
    <3> SUFFICES ASSUME NEW f \in Handled', NEW g \in Handled',
                        f # g, owner'[f] = owner'[g]
                 PROVE  owner'[f] \in crossed'
      BY DEF Counted
    <3>1. CASE f # e /\ g # e
      BY <1>1, <2>4, <3>1 DEF Counted, Handled
    <3>2. CASE f = e \/ g = e
      BY <1>1, <2>1, <2>2, <3>2 DEF Handled
    <3>3. QED
      BY <3>1, <3>2
  <2>6. Verified'
    BY <1>1, <2>1, <2>2, <2>4 DEF Verified, userVars
  <2>7. EnabledWasVerified'
    BY <2>1, <2>4 DEF EnabledWasVerified, userVars
  <2>8. QED
    BY <1>2, <2>3, <2>5, <2>6, <2>7
<1>4. CASE NewSecret(e) \/ Enable(e) \/ Disable(e)
  <2> DEFINE u == owner[e]
  <2>1. /\ e \in Handled /\ e \notin Handled' /\ Exists(u) /\ u \in User
        /\ UNCHANGED <<verified, crossed, deleted>>
    BY <1>4 DEF NewSecret, Enable, Disable, Goes, TypeOK, Fiber, Handled,
                Handling, Owned, history
  <2>2. \A f \in Handled' : f \in Handled /\ f # e /\ owner'[f] = owner[f]
    BY <1>1, <2>1 DEF Handled
  <2>3. Owned' /\ Counted'
    BY <2>1, <2>2 DEF Owned, Counted
  <2>4. \A f \in Handled' : owner[f] = u => u \in crossed
    BY <2>1, <2>2 DEF Counted
  <2>5. \A v \in User \ {u} :
          secret'[v] = secret[v] /\ enabled'[v] = enabled[v]
    BY <1>4 DEF NewSecret, Enable, Disable, TypeOK
  <2>6. Verified'
    <3> SUFFICES ASSUME NEW f \in Enrol, pc'[f] = "enable",
                        owner'[f] \notin crossed' \cup deleted'
                 PROVE  secret'[owner'[f]] \in verified'[owner'[f]]
      BY DEF Verified
    <3>1. f \in Handled'
      BY DEF Handled, Handling
    <3>2. /\ owner[f] \in User \ {u} /\ owner'[f] = owner[f]
          /\ pc[f] = "enable"
      BY <1>1, <2>1, <2>2, <2>4, <3>1 DEF Owned
    <3>3. QED
      BY <2>1, <2>5, <3>2 DEF Verified
  <2>7. u \notin crossed /\ enabled'[u] => secret'[u] \in verified[u]
    <3>1. CASE NewSecret(e) \/ Disable(e)
      BY <2>1, <3>1 DEF NewSecret, Disable, TypeOK
    <3>2. CASE Enable(e)
      BY <2>1, <3>2 DEF Enable, Goes, Verified, Gone, Exists
    <3>3. QED
      BY <1>4, <3>1, <3>2
  <2>8. EnabledWasVerified'
    BY <2>1, <2>5, <2>7 DEF EnabledWasVerified
  <2>9. QED
    BY <1>2, <2>3, <2>6, <2>8
<1>5. CASE VerifyCode(e) \/ ConfirmCode(e)
  <2>1. /\ e \in Handled /\ owner' = owner /\ pc'[e] \in Handling
        /\ UNCHANGED <<userVars, crossed>>
    BY <1>5 DEF VerifyCode, ConfirmCode, Goes, TypeOK, Fiber, Handled,
                Handling, localVars, history
  <2>2. owner[e] \in User /\ \A f \in Handled' : f \in Handled
    BY <1>1, <2>1 DEF Handled, Owned
  <2>3. Owned' /\ Counted'
    BY <2>1, <2>2 DEF Owned, Counted
  <2>4. \A v \in User : verified[v] \subseteq verified'[v]
    BY <1>5, <2>2 DEF VerifyCode, ConfirmCode, TypeOK, history
  <2>5. pc'[e] = "enable" => secret[owner[e]] \in verified'[owner[e]]
    BY <1>5, <2>2 DEF VerifyCode, ConfirmCode, Goes, TypeOK, Fiber
  <2>6. Verified'
    <3> SUFFICES ASSUME NEW f \in Enrol, pc'[f] = "enable",
                        owner[f] \notin crossed \cup deleted
                 PROVE  secret[owner[f]] \in verified'[owner[f]]
      BY <2>1 DEF Verified, userVars
    <3>1. f \in Handled
      BY <2>2 DEF Handled, Handling
    <3>2. CASE f = e
      BY <2>5, <3>2
    <3>3. CASE f # e
      BY <1>1, <2>4, <3>1, <3>3 DEF Verified, Owned
    <3>4. QED
      BY <3>2, <3>3
  <2>7. EnabledWasVerified'
    BY <2>1, <2>4 DEF EnabledWasVerified, userVars
  <2>8. QED
    BY <1>2, <2>3, <2>6, <2>7
<1>6. QED
  BY <1>3, <1>4, <1>5 DEF Enrolling

LEMMA FactorNext == TypeOK /\ FactorInv /\ [Next]_vars => FactorInv'
<1> SUFFICES ASSUME TypeOK, FactorInv, [Next]_vars PROVE FactorInv'
  OBVIOUS
<1> USE AccessAssumption DEF Fiber
<1>1. ASSUME NEW l \in Login, LoggingIn(l) PROVE FactorInv'
  BY <1>1, LoginAlone, FactorKept DEF Same, history
<1>2. ASSUME NEW f \in Fiber, Abandoned(f) PROVE FactorInv'
  <2>1. pc[f] # "idle"
    BY <1>2 DEF Abandoned, Handling
  <2>2. QED
    BY <1>2, <2>1, AbandonedAlone, FactorKept DEF Same, history
<1>3. ASSUME NEW u \in User, KeyExpires(u) PROVE FactorInv'
  BY <1>3, FactorKept DEF KeyExpires, localVars, history
<1>4. ASSUME NEW s \in Session, EndSession(s) PROVE FactorInv'
  BY <1>4, FactorKept DEF EndSession, localVars, history
<1>5. CASE UNCHANGED vars
  BY <1>5, FactorKept DEF vars, localVars, history
<1>6. QED
  BY <1>1, <1>2, <1>3, <1>4, <1>5, NextCases, ChangeKeepsFactor,
     EnrolKeepsFactor

\* "NOT yet enabled (enabled on verify)" (totp/route.ts), for any number of
\* users and requests: an enabled factor has a secret a code was verified for,
\* unless requests of its user overlapped.
THEOREM FactorWasVerified == Spec => []EnabledWasVerified
<1>1. FactorInv => EnabledWasVerified
  BY DEF FactorInv
<1>2. QED
  BY <1>1, FactorInit, FactorNext, TypeCorrect, PTL DEF Spec

-----------------------------------------------------------------------------
(* The last administrator                                                  *)

\* A request that may take a role away; as long as no two of them overlap,
\* one that is about to write has another administrator to leave.
Removing(a)  == pc[a] \in Handling \ {"add"} /\ Removes(job[a])
OneRemoves   == \A a, b \in Admin : Removing(a) /\ Removing(b) => a = b
OtherRemains == \A a \in Admin :
                  Removing(a) /\ pc[a] = "write" =>
                    \E v \in Admins : v # job[a].target
AdminInv == ~raced => OneRemoves /\ OtherRemains /\ Admins # {}

LEMMA AdminInit == Init => AdminInv
  BY AccessAssumption
     DEF Init, AdminInv, OneRemoves, OtherRemains, Removing, Handling, Admins,
         Fiber

LEMMA MoreThanOne ==
  ASSUME role \in [User -> Role \cup {None}], EnoughAdmins, NEW u
  PROVE  \E v \in Admins : v # u
<1> SUFFICES ASSUME \A v \in Admins : v = u PROVE FALSE
  OBVIOUS
<1>1. Admins \subseteq {u}
  OBVIOUS
<1>2. IsFiniteSet({u}) /\ Cardinality({u}) = 1
  BY FS_Singleton
<1>3. IsFiniteSet(Admins) /\ Cardinality(Admins) <= 1
  BY <1>1, <1>2, FS_Subset
<1>4. Cardinality(Admins) \in Nat
  BY <1>3, FS_CardinalityType
<1>5. QED
  BY <1>3, <1>4 DEF EnoughAdmins

\* Steps after which there are as many administrators, and no more removals.
LEMMA AdminKept ==
  ASSUME AdminInv, raced' = raced,
         \A u \in User : role[u] = "ADMIN" => role'[u] = "ADMIN",
         \A a \in Admin : \/ pc'[a] = pc[a] /\ job'[a] = job[a]
                          \/ pc'[a] \in {"idle", "add"}
  PROVE  AdminInv'
<1>1. Admins \subseteq Admins'
  BY DEF Admins
<1>2. \A a \in Admin : Removing(a)' =>
        Removing(a) /\ pc'[a] = pc[a] /\ job'[a] = job[a]
  BY DEF Removing, Handling
<1>3. QED
  BY <1>1, <1>2 DEF AdminInv, OneRemoves, OtherRemains

LEMMA ChangeKeepsAdmin ==
  ASSUME TypeOK, AdminInv, NEW a \in Admin, Changing(a)
  PROVE  AdminInv'
<1> USE AccessAssumption
<1>1. \A b \in Admin \ {a} : pc'[b] = pc[b] /\ job'[b] = job[b]
  BY ChangeAlone DEF Same, Fiber
<1>2. \A b \in Admin \ {a} : Removing(b)' <=> Removing(b)
  BY <1>1 DEF Removing, Removes
<1>3. CASE BeginCreate(a) \/ CreateUser(a)
  <2>1. pc'[a] \in {"idle", "add"} /\ raced' = raced
    BY <1>3 DEF BeginCreate, CreateUser, Begins, Goes, TypeOK, Fiber, history
  <2>2. \A u \in User : role[u] = "ADMIN" => role'[u] = "ADMIN"
    <3>1. CASE BeginCreate(a)
      BY <3>1 DEF BeginCreate, userVars
    <3>2. CASE CreateUser(a)
      BY <3>2 DEF CreateUser, TypeOK, Exists, Role
    <3>3. QED
      BY <1>3, <3>1, <3>2
  <2>3. QED
    BY <1>1, <2>1, <2>2, AdminKept
<1>4. CASE BeginChange(a)
  <2>1. PICK q \in Request :
          /\ Begins(a, IF q.to = None THEN "find" ELSE "before")
          /\ job' = [job EXCEPT ![a] = q]
          /\ raced' = (raced \/ /\ Removes(q)
                                /\ \E b \in Admin \ {a} : Removing(b))
    BY <1>4 DEF BeginChange, Removing
  <2>2. pc'[a] \in {"find", "before"} /\ job'[a] = q /\ role' = role
    BY <1>4, <2>1 DEF BeginChange, Begins, TypeOK, Fiber, userVars
  <2>3. SUFFICES ASSUME ~raced'
                 PROVE  OneRemoves' /\ OtherRemains' /\ Admins' # {}
    BY DEF AdminInv
  <2>4. ~raced /\ (Removes(q) => \A b \in Admin \ {a} : ~Removing(b))
    BY <2>1, <2>3
  <2>5. Removing(a)' => \A b \in Admin \ {a} : ~Removing(b)
    BY <2>2, <2>4 DEF Removing, Removes
  <2>6. OneRemoves'
    BY <1>2, <2>4, <2>5 DEF OneRemoves, AdminInv
  <2>7. OtherRemains'
    BY <1>1, <1>2, <2>2, <2>4 DEF OtherRemains, AdminInv, Admins
  <2>8. QED
    BY <2>2, <2>4, <2>6, <2>7 DEF AdminInv, Admins
<1>5. CASE ReadBefore(a) \/ FindTarget(a) \/ CountAdmins(a)
  <2>1. /\ pc[a] \in Handling \ {"add"} /\ job'[a] = job[a]
        /\ role' = role /\ raced' = raced
    BY <1>5 DEF ReadBefore, FindTarget, CountAdmins, Goes, Handling, userVars,
                localVars, history
  <2>2. SUFFICES ASSUME ~raced
                 PROVE  OneRemoves' /\ OtherRemains' /\ Admins' # {}
    BY <2>1 DEF AdminInv
  <2>3. Removing(a)' => Removing(a)
    BY <2>1 DEF Removing
  <2>4. OneRemoves'
    BY <1>2, <2>2, <2>3 DEF OneRemoves, AdminInv
  <2>5. Admins' = Admins /\ Admins # {}
    BY <2>1, <2>2 DEF Admins, AdminInv
  <2>6. pc'[a] = "write" /\ Removes(job[a]) =>
          \E v \in Admins : v # job[a].target
    <3>1. CASE CountAdmins(a)
      <4>1. EnoughAdmins /\ role \in [User -> Role \cup {None}]
        BY <3>1 DEF CountAdmins, TypeOK
      <4>2. QED
        BY <4>1, MoreThanOne
    <3>2. CASE ReadBefore(a)
      BY <2>5, <3>2 DEF ReadBefore, Goes, TypeOK, Fiber, Removes, Admins
    <3>3. CASE FindTarget(a)
      BY <2>5, <3>3 DEF FindTarget, Goes, TypeOK, Fiber, Admins
    <3>4. QED
      BY <1>5, <3>1, <3>2, <3>3
  <2>7. OtherRemains'
    <3> SUFFICES ASSUME NEW b \in Admin, Removing(b)', pc'[b] = "write"
                 PROVE  \E v \in Admins' : v # job'[b].target
      BY DEF OtherRemains
    <3>1. CASE b = a
      BY <2>1, <2>5, <2>6, <3>1 DEF Removing
    <3>2. CASE b # a
      BY <1>1, <1>2, <2>2, <2>5, <3>2 DEF OtherRemains, AdminInv
    <3>3. QED
      BY <3>1, <3>2
  <2>8. QED
    BY <2>4, <2>5, <2>7
<1>6. CASE WriteUser(a)
  <2> DEFINE q == job[a]
  <2>1. /\ pc[a] = "write" /\ pc'[a] = "idle" /\ raced' = raced
        /\ role' = [role EXCEPT ![q.target] = q.to]
    BY <1>6 DEF WriteUser, Goes, TypeOK, Fiber, history
  <2>2. CASE ~Removes(q)
    <3>1. \A u \in User : role[u] = "ADMIN" => role'[u] = "ADMIN"
      BY <2>1, <2>2 DEF Removes, TypeOK
    <3>2. QED
      BY <1>1, <2>1, <3>1, AdminKept
  <2>3. CASE Removes(q)
    <3>1. SUFFICES ASSUME ~raced
                   PROVE OneRemoves' /\ OtherRemains' /\ Admins' # {}
      BY <2>1 DEF AdminInv
    <3>2. Removing(a)
      BY <2>1, <2>3 DEF Removing, Handling
    <3>3. \A b \in Admin : ~Removing(b)'
      BY <1>2, <2>1, <3>1, <3>2 DEF Removing, Handling, OneRemoves, AdminInv
    <3>4. PICK v \in Admins : v # q.target
      BY <2>1, <3>1, <3>2 DEF OtherRemains, AdminInv
    <3>5. v \in Admins'
      BY <2>1, <3>4 DEF Admins, TypeOK
    <3>6. QED
      BY <3>3, <3>5 DEF OneRemoves, OtherRemains
  <2>4. QED
    BY <2>2, <2>3
<1>7. QED
  BY <1>3, <1>4, <1>5, <1>6 DEF Changing

LEMMA AdminNext == TypeOK /\ AdminInv /\ [Next]_vars => AdminInv'
<1> SUFFICES ASSUME TypeOK, AdminInv, [Next]_vars PROVE AdminInv'
  OBVIOUS
<1> USE AccessAssumption DEF Fiber
<1>1. ASSUME NEW l \in Login, LoggingIn(l) PROVE AdminInv'
  BY <1>1, LoginAlone, AdminKept DEF Same, history, userVars
<1>2. ASSUME NEW f \in Fiber, Abandoned(f) PROVE AdminInv'
  BY <1>2, AbandonedAlone, AdminKept DEF Same, history, userVars
<1>3. ASSUME NEW e \in Enrol, Enrolling(e) PROVE AdminInv'
  BY <1>3, EnrolAlone, AdminKept DEF Same
<1>4. ASSUME NEW u \in User, KeyExpires(u) PROVE AdminInv'
  BY <1>4, AdminKept DEF KeyExpires, localVars, history, userVars
<1>5. ASSUME NEW s \in Session, EndSession(s) PROVE AdminInv'
  BY <1>5, AdminKept DEF EndSession, localVars, history, userVars
<1>6. CASE UNCHANGED vars
  BY <1>6, AdminKept DEF vars, localVars, history, userVars
<1>7. QED
  BY <1>1, <1>2, <1>3, <1>4, <1>5, <1>6, NextCases, ChangeKeepsAdmin

\* "refuse to delete a user when doing so would remove the last remaining
\* ADMIN" (access.ts), for any number of users and requests: it is refused as
\* long as requests that take a role away do not overlap.
THEOREM LastAdminRemains == Spec => []AdminRemains
<1>1. AdminInv => AdminRemains
  BY DEF AdminInv, AdminRemains
<1>2. QED
  BY <1>1, AdminInit, AdminNext, TypeCorrect, PTL DEF Spec

-----------------------------------------------------------------------------
(* The limit of failed logins                                              *)

\* Callers that were let in and whose failure is not yet counted, and those
\* that counted one and have not yet set the time to live.
InFlight(u) == {l \in Callers(u) : pc[l] \in {"checked", "wrong"}}
Expiring(u) == {l \in Callers(u) : pc[l] = "expire"}

LimitInv ==
  \A u \in User :
    /\ examined[u] <= fails[u] + errors
    /\ examined[u] + Cardinality(InFlight(u)) + 1
         <= MaxFailures + Cardinality(Callers(u)) + errors
LockInv ==
  \A u \in User : ~ttl[u] => fails[u] <= errors + Cardinality(Expiring(u))

LEMMA CallersFinite ==
  ASSUME NEW u, NEW S \in SUBSET Callers(u)
  PROVE  /\ IsFiniteSet(S) /\ Cardinality(S) \in Nat
         /\ Cardinality(S) <= Cardinality(Callers(u))
         /\ Cardinality(Callers(u)) \in Nat
<1>1. IsFiniteSet(Callers(u))
  BY AccessAssumption, FS_Subset DEF Callers
<1>2. QED
  BY <1>1, FS_Subset, FS_CardinalityType

LEMMA LimitInit == Init => LimitInv
<1> SUFFICES ASSUME Init, NEW u \in User
             PROVE  /\ examined[u] <= fails[u] + errors
                    /\ examined[u] + Cardinality(InFlight(u)) + 1
                         <= MaxFailures + Cardinality(Callers(u)) + errors
  BY DEF LimitInv
<1>1. InFlight(u) = {} /\ examined[u] = 0 /\ fails[u] = 0 /\ errors = 0
  BY DEF Init, InFlight, Callers, Fiber
<1>2. Cardinality(InFlight(u)) = 0
  BY <1>1, FS_EmptySet
<1>3. Cardinality(Callers(u)) \in Nat /\ MaxFailures \in Nat \ {0}
  BY CallersFinite, AccessAssumption
<1>4. QED
  BY <1>1, <1>2, <1>3

LEMMA LockInit == Init => LockInv
<1> SUFFICES ASSUME Init, NEW u \in User
             PROVE  fails[u] <= errors + Cardinality(Expiring(u))
  BY DEF LockInv
<1>1. Cardinality(Expiring(u)) \in Nat
  BY CallersFinite DEF Expiring
<1>2. QED
  BY <1>1 DEF Init

\* How a step may change the counters of one user.
LEMMA LimitStep ==
  ASSUME TypeOK, TypeOK', NEW u \in User, LimitInv,
         \/ /\ InFlight(u)' \subseteq InFlight(u) /\ errors' >= errors
            /\ examined'[u] = examined[u] /\ fails'[u] = fails[u]
         \/ examined'[u] = 0
         \/ /\ fails[u] < MaxFailures /\ errors' = errors
            /\ examined'[u] = examined[u] /\ fails'[u] = fails[u]
         \/ /\ errors' = errors + 1
            /\ \E l : InFlight(u)' \subseteq InFlight(u) \cup {l}
            /\ examined'[u] = examined[u] /\ fails'[u] = fails[u]
         \/ /\ \E l \in InFlight(u) : InFlight(u)' = InFlight(u) \ {l}
            /\ examined'[u] = examined[u] + 1
            /\ \/ fails'[u] = fails[u] + 1 /\ errors' = errors
               \/ fails'[u] = fails[u] /\ errors' = errors + 1
  PROVE  /\ examined'[u] <= fails'[u] + errors'
         /\ examined'[u] + Cardinality(InFlight(u)') + 1
              <= MaxFailures + Cardinality(Callers(u)) + errors'
<1> DEFINE before == Cardinality(InFlight(u))
           after  == Cardinality(InFlight(u)')
           all    == Cardinality(Callers(u))
<1>1. /\ InFlight(u) \in SUBSET Callers(u)
      /\ InFlight(u)' \in SUBSET Callers(u)
  BY DEF InFlight, Callers
<1>2. /\ {before, after, all} \subseteq Nat
      /\ after <= all /\ IsFiniteSet(InFlight(u))
  BY <1>1, CallersFinite
<1>3. /\ {examined[u], fails[u], errors, examined'[u], fails'[u], errors'}
           \subseteq Nat
      /\ MaxFailures \in Nat \ {0}
  BY AccessAssumption DEF TypeOK
<1>4. /\ examined[u] <= fails[u] + errors
      /\ examined[u] + before + 1 <= MaxFailures + all + errors
  BY DEF LimitInv
<1>5. InFlight(u)' \subseteq InFlight(u) => after <= before
  BY <1>2, FS_Subset
<1>6. (\E l : InFlight(u)' \subseteq InFlight(u) \cup {l})
        => after <= before + 1
  <2> SUFFICES ASSUME NEW l, InFlight(u)' \subseteq InFlight(u) \cup {l}
               PROVE  after <= before + 1
    OBVIOUS
  <2> DEFINE more == Cardinality(InFlight(u) \cup {l})
  <2>1. IsFiniteSet(InFlight(u) \cup {l}) /\ more \in {before, before + 1}
    BY <1>2, FS_AddElement
  <2>2. after <= more
    BY <2>1, FS_Subset
  <2>3. QED
    BY <1>2, <2>1, <2>2
<1>7. (\E l \in InFlight(u) : InFlight(u)' = InFlight(u) \ {l})
        => after = before - 1
  BY <1>2, FS_RemoveElement
<1> HIDE DEF before, after, all
<1>8. QED
  BY <1>2, <1>3, <1>4, <1>5, <1>6, <1>7 DEF before, after, all

LEMMA LockStep ==
  ASSUME TypeOK, TypeOK', NEW u \in User, LockInv,
         \/ /\ Expiring(u)' = Expiring(u) /\ errors' >= errors
            /\ fails'[u] = fails[u] /\ ttl'[u] = ttl[u]
         \/ fails'[u] = 0 \/ ttl'[u]
         \/ /\ \E l \in Expiring(u) : Expiring(u)' = Expiring(u) \ {l}
            /\ errors' = errors + 1
            /\ fails'[u] = fails[u] /\ ttl'[u] = ttl[u]
         \/ /\ \E l : /\ l \notin Expiring(u)
                     /\ Expiring(u)' = Expiring(u) \cup {l}
            /\ errors' = errors
            /\ fails'[u] = fails[u] + 1 /\ ttl'[u] = ttl[u]
  PROVE  ~ttl'[u] => fails'[u] <= errors' + Cardinality(Expiring(u)')
<1> DEFINE before == Cardinality(Expiring(u))
           after  == Cardinality(Expiring(u)')
<1>1. /\ Expiring(u) \in SUBSET Callers(u)
      /\ Expiring(u)' \in SUBSET Callers(u)
  BY DEF Expiring, Callers
<1>2. {before, after} \subseteq Nat /\ IsFiniteSet(Expiring(u))
  BY <1>1, CallersFinite
<1>3. {fails[u], errors, fails'[u], errors'} \subseteq Nat
  BY AccessAssumption DEF TypeOK
<1>4. ~ttl[u] => fails[u] <= errors + before
  BY DEF LockInv
<1>5. Expiring(u)' = Expiring(u) => after = before
  OBVIOUS
<1>6. (\E l \in Expiring(u) : Expiring(u)' = Expiring(u) \ {l})
        => after = before - 1
  BY <1>2, FS_RemoveElement
<1>7. (\E l : l \notin Expiring(u) /\ Expiring(u)' = Expiring(u) \cup {l})
        => after = before + 1
  BY <1>2, FS_AddElement
<1> HIDE DEF before, after
<1>8. QED
  BY <1>2, <1>3, <1>4, <1>5, <1>6, <1>7 DEF before, after

\* Who is no caller of u changes nothing in these sets.
LEMMA OthersCallers ==
  ASSUME NEW u, NEW f, Same(Fiber \ {f}), f \notin Callers(u)
  PROVE  InFlight(u)' = InFlight(u) /\ Expiring(u)' = Expiring(u)
  BY AccessAssumption DEF Same, InFlight, Expiring, Callers, Fiber

\* Where a caller goes decides what becomes of them.
LEMMA CallerGoes ==
  ASSUME NEW l \in Login, Same(Fiber \ {l})
  PROVE  LET u == UserOf[l] IN
         /\ pc'[l] \notin {"checked", "wrong"} =>
              InFlight(u)' = InFlight(u) \ {l}
         /\ pc[l] \in {"checked", "wrong"} =>
              l \in InFlight(u) /\ InFlight(u)' \subseteq InFlight(u)
         /\ InFlight(u)' \subseteq InFlight(u) \cup {l}
         /\ pc[l] = "expire" => l \in Expiring(u)
         /\ pc'[l] # "expire" => Expiring(u)' = Expiring(u) \ {l}
         /\ pc[l] # "expire" => l \notin Expiring(u)
         /\ pc[l] # "expire" /\ pc'[l] # "expire" =>
              Expiring(u)' = Expiring(u)
         /\ pc'[l] = "expire" => Expiring(u)' = Expiring(u) \cup {l}
  BY AccessAssumption DEF Same, InFlight, Expiring, Callers, Fiber

LEMMA LoginKeepsLimit ==
  ASSUME TypeOK, TypeOK', LimitInv, NEW l \in Login, LoggingIn(l)
  PROVE  LimitInv'
<1> USE AccessAssumption
<1>1. SUFFICES ASSUME NEW u \in User
               PROVE  /\ examined'[u] <= fails'[u] + errors'
                      /\ examined'[u] + Cardinality(InFlight(u)') + 1
                           <= MaxFailures + Cardinality(Callers(u)) + errors'
  BY DEF LimitInv, Callers
<1>2. Same(Fiber \ {l}) /\ l \in Fiber
  BY LoginAlone DEF Fiber
<1>3. pc \in [Fiber -> Step] /\ errors \in Nat /\ errors' \in Nat
  BY DEF TypeOK
<1>4. CASE UserOf[l] # u
  <2>1. InFlight(u)' = InFlight(u)
    BY <1>2, <1>4, OthersCallers DEF Callers
  <2>2. /\ examined'[u] = examined[u] /\ fails'[u] = fails[u]
        /\ errors' >= errors
    BY <1>3, <1>4 DEF LoggingIn, CheckLimit, Refused, Accepted, NoCode,
                      Increment, SetExpiry, ClearFailures, CreateSession,
                      RedisError, limitVars, TypeOK
  <2>3. QED
    BY <2>1, <2>2, LimitStep
<1>5. CASE UserOf[l] = u
  <2>1. CASE CheckLimit(l)
    <3>1. InFlight(u)' \subseteq InFlight(u) \cup {l}
      BY <1>2, <1>5, CallerGoes
    <3>2. /\ examined' = examined /\ fails' = fails
          /\ \/ fails[u] < MaxFailures /\ errors' = errors
             \/ errors' = errors + 1
      BY <1>5, <2>1 DEF CheckLimit, RedisError
    <3>3. QED
      BY <3>1, <3>2, LimitStep
  <2>2. CASE \/ Refused(l) \/ Accepted(l) \/ NoCode(l) \/ SetExpiry(l)
             \/ CreateSession(l)
    <3>1. /\ examined' = examined /\ fails' = fails /\ errors' >= errors
          /\ \/ pc[l] = "checked"
             \/ pc'[l] \notin {"checked", "wrong"}
      BY <1>2, <1>3, <2>2 DEF Refused, Accepted, NoCode, SetExpiry,
           CreateSession, RedisError, limitVars, Goes
    <3>2. InFlight(u)' \subseteq InFlight(u)
      BY <1>2, <1>5, <3>1, CallerGoes
    <3>3. QED
      BY <3>1, <3>2, LimitStep
  <2>3. CASE Increment(l)
    <3>1. pc[l] = "wrong" /\ pc'[l] \in {"expire", "idle"}
      BY <1>2, <1>3, <2>3 DEF Increment, Goes
    <3>2. l \in InFlight(u) /\ InFlight(u)' = InFlight(u) \ {l}
      BY <1>2, <1>5, <3>1, CallerGoes
    <3>3. /\ examined'[u] = examined[u] + 1
          /\ \/ fails'[u] = fails[u] + 1 /\ errors' = errors
             \/ fails'[u] = fails[u] /\ errors' = errors + 1
      BY <1>5, <2>3 DEF Increment, RedisError, TypeOK
    <3>4. QED
      BY <3>2, <3>3, LimitStep
  <2>4. CASE ClearFailures(l)
    <3>1. pc'[l] = "create"
      BY <1>2, <1>3, <2>4 DEF ClearFailures, Goes
    <3>2. InFlight(u)' \subseteq InFlight(u)
      BY <1>2, <1>5, <3>1, CallerGoes
    <3>3. \/ examined'[u] = 0
          \/ examined' = examined /\ fails' = fails /\ errors' >= errors
      BY <1>3, <1>5, <2>4 DEF ClearFailures, RedisError, TypeOK
    <3>4. QED
      BY <3>2, <3>3, LimitStep
  <2>5. QED
    BY <2>1, <2>2, <2>3, <2>4 DEF LoggingIn
<1>6. QED
  BY <1>4, <1>5

LEMMA LimitNext == TypeOK /\ TypeOK' /\ LimitInv /\ [Next]_vars => LimitInv'
<1> SUFFICES ASSUME TypeOK, TypeOK', LimitInv, [Next]_vars PROVE LimitInv'
  OBVIOUS
<1> USE AccessAssumption
\* Steps of those that are no callers, and those of a caller that ends.
<1>1. ASSUME UNCHANGED limitVars,
             \A u \in User : InFlight(u)' \subseteq InFlight(u)
      PROVE  LimitInv'
  <2>1. /\ examined' = examined /\ fails' = fails /\ errors' = errors
        /\ errors \in Nat
    BY <1>1 DEF limitVars, TypeOK
  <2> SUFFICES ASSUME NEW u \in User
               PROVE  /\ examined'[u] <= fails'[u] + errors'
                      /\ examined'[u] + Cardinality(InFlight(u)') + 1
                           <= MaxFailures + Cardinality(Callers(u)) + errors'
    BY DEF LimitInv, Callers
  <2>2. QED
    BY <1>1, <2>1, LimitStep
<1>2. ASSUME NEW f \in Fiber \ Login, Same(Fiber \ {f}), UNCHANGED limitVars
      PROVE  LimitInv'
  BY <1>1, <1>2, OthersCallers DEF Callers
<1>3. ASSUME NEW a \in Admin, Changing(a) PROVE LimitInv'
  BY <1>2, <1>3, ChangeAlone DEF Fiber
<1>4. ASSUME NEW e \in Enrol, Enrolling(e) PROVE LimitInv'
  BY <1>2, <1>4, EnrolAlone DEF Fiber
<1>5. ASSUME NEW f \in Fiber, Abandoned(f) PROVE LimitInv'
  <2>1. Same(Fiber \ {f}) /\ pc'[f] = "idle" /\ UNCHANGED limitVars
    BY <1>5, AbandonedAlone
  <2>2. \A u \in User : InFlight(u)' \subseteq InFlight(u)
    BY <2>1 DEF InFlight, Callers, Same, Fiber
  <2>3. QED
    BY <1>1, <2>1, <2>2
<1>6. ASSUME NEW u \in User, KeyExpires(u) PROVE LimitInv'
  <2> SUFFICES ASSUME NEW v \in User
               PROVE  /\ examined'[v] <= fails'[v] + errors'
                      /\ examined'[v] + Cardinality(InFlight(v)') + 1
                           <= MaxFailures + Cardinality(Callers(v)) + errors'
    BY DEF LimitInv, Callers
  <2>1. InFlight(v)' = InFlight(v)
    BY <1>6 DEF KeyExpires, InFlight, Callers
  <2>2. \/ examined'[v] = 0
        \/ /\ examined'[v] = examined[v] /\ fails'[v] = fails[v]
           /\ errors' >= errors
    BY <1>6 DEF KeyExpires, TypeOK
  <2>3. QED
    BY <2>1, <2>2, LimitStep
<1>7. ASSUME NEW s \in Session, EndSession(s) PROVE LimitInv'
  BY <1>1, <1>7 DEF EndSession, InFlight, Callers
<1>8. CASE UNCHANGED vars
  BY <1>1, <1>8 DEF vars, InFlight, Callers
<1>9. QED
  BY <1>3, <1>4, <1>5, <1>6, <1>7, <1>8, NextCases, LoginKeepsLimit

\* MAX_FAILURES (ratelimit.ts), for any limit and any number of callers:
\* what is answered beyond it is bounded by the callers let in together and
\* by the answers of Redis that were lost.
THEOREM FailuresStayBounded == Spec => []FailuresBounded
<1>1. TypeOK /\ LimitInv => FailuresBounded
  <2> SUFFICES ASSUME TypeOK, LimitInv, NEW u \in User
               PROVE  examined[u] + 1
                        <= MaxFailures + Cardinality(Callers(u)) + errors
    BY DEF FailuresBounded
  <2>1. Cardinality(InFlight(u)) \in Nat /\ Cardinality(Callers(u)) \in Nat
    BY CallersFinite DEF InFlight
  <2>2. examined[u] \in Nat /\ errors \in Nat /\ MaxFailures \in Nat
    BY AccessAssumption DEF TypeOK
  <2>3. QED
    BY <2>1, <2>2 DEF LimitInv
<1>2. QED
  BY <1>1, LimitInit, LimitNext, TypeCorrect, PTL DEF Spec

LEMMA LoginKeepsLock ==
  ASSUME TypeOK, TypeOK', LockInv, NEW l \in Login, LoggingIn(l)
  PROVE  LockInv'
<1> USE AccessAssumption
<1>1. SUFFICES ASSUME NEW u \in User
               PROVE  ~ttl'[u] =>
                        fails'[u] <= errors' + Cardinality(Expiring(u)')
  BY DEF LockInv
<1>2. Same(Fiber \ {l}) /\ l \in Fiber
  BY LoginAlone DEF Fiber
<1>3. pc \in [Fiber -> Step] /\ errors \in Nat /\ errors' \in Nat
  BY DEF TypeOK
<1>4. CASE UserOf[l] # u
  <2>1. Expiring(u)' = Expiring(u)
    BY <1>2, <1>4, OthersCallers DEF Callers
  <2>2. fails'[u] = fails[u] /\ ttl'[u] = ttl[u] /\ errors' >= errors
    BY <1>3, <1>4 DEF LoggingIn, CheckLimit, Refused, Accepted, NoCode,
                      Increment, SetExpiry, ClearFailures, CreateSession,
                      RedisError, limitVars, TypeOK
  <2>3. QED
    BY <2>1, <2>2, LockStep
<1>5. CASE UserOf[l] = u
  <2>1. CASE \/ CheckLimit(l) \/ Refused(l) \/ Accepted(l) \/ NoCode(l)
             \/ CreateSession(l) \/ ClearFailures(l)
    <3>1. pc[l] # "expire" /\ pc'[l] # "expire"
      BY <1>2, <1>3, <2>1 DEF CheckLimit, Refused, Accepted, NoCode,
           CreateSession, ClearFailures, Goes, Begins
    <3>2. Expiring(u)' = Expiring(u)
      BY <1>2, <1>5, <3>1, CallerGoes
    <3>3. \/ fails'[u] = 0
          \/ fails' = fails /\ ttl' = ttl /\ errors' >= errors
      BY <1>3, <1>5, <2>1 DEF CheckLimit, Refused, Accepted, NoCode,
           CreateSession, ClearFailures, RedisError, limitVars, TypeOK
    <3>4. QED
      BY <3>2, <3>3, LockStep
  <2>2. CASE Increment(l)
    <3>1. pc[l] = "wrong" /\ ttl' = ttl
      BY <2>2 DEF Increment, Goes, history, localVars
    <3>2. CASE /\ pc'[l] = "expire" /\ fails'[u] = fails[u] + 1
               /\ errors' = errors
      <4>1. l \notin Expiring(u) /\ Expiring(u)' = Expiring(u) \cup {l}
        BY <1>2, <1>5, <3>1, <3>2, CallerGoes
      <4>2. QED
        BY <3>1, <3>2, <4>1, LockStep
    <3>3. CASE pc'[l] = "idle" /\ fails' = fails /\ errors' = errors + 1
      <4>1. Expiring(u)' = Expiring(u)
        BY <1>2, <1>5, <3>1, <3>3, CallerGoes
      <4>2. QED
        BY <1>3, <3>1, <3>3, <4>1, LockStep
    <3>4. QED
      BY <1>2, <1>3, <1>5, <2>2, <3>2, <3>3
         DEF Increment, Goes, RedisError, TypeOK
  <2>3. CASE SetExpiry(l)
    <3>1. pc[l] = "expire" /\ pc'[l] = "idle" /\ fails' = fails
      BY <1>2, <1>3, <2>3 DEF SetExpiry, Goes
    <3>2. l \in Expiring(u) /\ Expiring(u)' = Expiring(u) \ {l}
      BY <1>2, <1>5, <3>1, CallerGoes
    <3>3. \/ ttl'[u] \/ fails'[u] = 0
          \/ errors' = errors + 1 /\ ttl' = ttl
      BY <1>5, <2>3, <3>1 DEF SetExpiry, RedisError, TypeOK
    <3>4. QED
      BY <3>1, <3>2, <3>3, LockStep
  <2>4. QED
    BY <2>1, <2>2, <2>3 DEF LoggingIn
<1>6. QED
  BY <1>4, <1>5

LEMMA LockNext == TypeOK /\ TypeOK' /\ LockInv /\ [Next]_vars => LockInv'
<1> SUFFICES ASSUME TypeOK, TypeOK', LockInv, [Next]_vars PROVE LockInv'
  OBVIOUS
<1> USE AccessAssumption
<1>1. ASSUME UNCHANGED limitVars, \A u \in User : Expiring(u)' = Expiring(u)
      PROVE  LockInv'
  BY <1>1 DEF LockInv, limitVars
<1>2. ASSUME NEW a \in Admin, Changing(a) PROVE LockInv'
  <2>1. a \notin Login /\ Same(Fiber \ {a}) /\ UNCHANGED limitVars
    BY <1>2, ChangeAlone
  <2>2. \A u \in User : Expiring(u)' = Expiring(u)
    BY <2>1, OthersCallers DEF Callers
  <2>3. QED
    BY <1>1, <2>1, <2>2
<1>3. ASSUME NEW e \in Enrol, Enrolling(e) PROVE LockInv'
  <2>1. e \notin Login /\ Same(Fiber \ {e}) /\ UNCHANGED limitVars
    BY <1>3, EnrolAlone
  <2>2. \A u \in User : Expiring(u)' = Expiring(u)
    BY <2>1, OthersCallers DEF Callers
  <2>3. QED
    BY <1>1, <2>1, <2>2
<1>4. ASSUME NEW f \in Fiber, Abandoned(f) PROVE LockInv'
  <2>1. /\ Same(Fiber \ {f}) /\ UNCHANGED limitVars
        /\ pc[f] # "expire" /\ pc'[f] # "expire"
    BY <1>4, AbandonedAlone DEF Abandoned, Handling
  <2>2. \A u \in User : Expiring(u)' = Expiring(u)
    BY <2>1 DEF Expiring, Callers, Same, Fiber
  <2>3. QED
    BY <1>1, <2>1, <2>2
<1>5. ASSUME NEW u \in User, KeyExpires(u) PROVE LockInv'
  <2> SUFFICES ASSUME NEW v \in User
               PROVE  ~ttl'[v] =>
                        fails'[v] <= errors' + Cardinality(Expiring(v)')
    BY DEF LockInv
  <2>1. Expiring(v)' = Expiring(v) /\ errors' = errors /\ errors \in Nat
    BY <1>5 DEF KeyExpires, Expiring, Callers, TypeOK
  <2>2. CASE v = u
    <3>1. fails'[v] = 0
      BY <1>5, <2>2 DEF KeyExpires, TypeOK
    <3>2. QED
      BY <3>1, LockStep
  <2>3. CASE v # u
    <3>1. fails'[v] = fails[v] /\ ttl'[v] = ttl[v]
      BY <1>5, <2>3 DEF KeyExpires, TypeOK
    <3>2. QED
      BY <2>1, <3>1, LockStep
  <2>4. QED
    BY <2>2, <2>3
<1>6. ASSUME NEW s \in Session, EndSession(s) PROVE LockInv'
  BY <1>1, <1>6 DEF EndSession, Expiring, Callers
<1>7. CASE UNCHANGED vars
  BY <1>1, <1>7 DEF vars, Expiring, Callers
<1>8. QED
  BY <1>2, <1>3, <1>4, <1>5, <1>6, <1>7, NextCases, LoginKeepsLock

\* "EXPIRE ... NX" (ratelimit.ts), for any number of callers: no user is
\* locked out for good while fewer answers of Redis are lost than the limit.
THEOREM LocksDoExpire == Spec => []LocksExpire
<1>1. TypeOK /\ LockInv => LocksExpire
  <2> SUFFICES ASSUME TypeOK, LockInv, MaxErrors < MaxFailures,
                      NEW u \in User, fails[u] >= MaxFailures,
                      \A l \in Callers(u) : pc[l] # "expire"
               PROVE  ttl[u]
    BY DEF LocksExpire
  <2>1. Expiring(u) = {}
    BY DEF Expiring
  <2>2. Cardinality(Expiring(u)) = 0
    BY <2>1, FS_EmptySet
  <2>3. /\ fails[u] \in Nat /\ errors \in Nat /\ errors <= MaxErrors
        /\ MaxFailures \in Nat /\ MaxErrors \in Nat
    BY AccessAssumption DEF TypeOK
  <2>4. QED
    BY <2>2, <2>3 DEF LockInv
<1>2. QED
  BY <1>1, LockInit, LockNext, TypeCorrect, PTL DEF Spec
=============================================================================
