------------------------------- MODULE Access -------------------------------
(***************************************************************************)
(* Users, their sessions, the second factor and the limit of failed        *)
(* logins: src/lib/access.ts, auth.ts, ratelimit.ts and the routes under   *)
(* api/auth and api/access that change their state.  A request works       *)
(* between the awaits of its handler.  A role is what the guards tell      *)
(* apart; a session that is revoked, expired or deleted is None.           *)
(***************************************************************************)
EXTENDS Naturals, FiniteSets

CONSTANTS
  User,         \* rows of the table, those to come included
  FirstRole,    \* [User -> Role \cup {None}]: the rows at the start
  LoggedIn,     \* those with a session at the start
  Login,        \* callers of POST /api/auth/login
  UserOf,       \* [Login -> User]: the e-mail they give
  Admin,        \* requests to /api/access/users
  Enrol,        \* requests to /api/access/totp, and the secrets they make
  None,
  MaxFailures,  \* MAX_FAILURES of ratelimit.ts
  MaxErrors,    \* bound: commands Redis does not answer
  MaxRequests   \* bound: requests

Role    == {"ADMIN", "READONLY"}
Fiber   == Login \cup Admin \cup Enrol
Session == User \cup Login

ASSUME AccessAssumption ==
  /\ None \notin User \cup Role \cup Enrol
  /\ FirstRole \in [User -> Role \cup {None}]
  /\ \E u \in User : FirstRole[u] = "ADMIN"
  /\ LoggedIn \subseteq {u \in User : FirstRole[u] # None}
  /\ UserOf \in [Login -> User]
  /\ Login \cap (Admin \cup Enrol) = {} /\ Admin \cap Enrol = {}
  /\ Login \cap User = {}
  /\ IsFiniteSet(User) /\ IsFiniteSet(Login)
  /\ MaxFailures \in Nat \ {0} /\ {MaxErrors, MaxRequests} \subseteq Nat

VARIABLES
  role,      \* [User -> role of the row, None if there is none]
  deleted,   \* users whose row is gone
  secret,    \* [User -> totpSecret]
  enabled,   \* [User -> totpEnabled]
  session,   \* [Session -> the user and role of a valid token, or None]
  fails,     \* [User -> the counter of the user's key]
  ttl,       \* [User -> whether the key expires]
  pc,        \* [Fiber -> Step]
  held,      \* [Login -> role read with the password]
  job,       \* [Admin -> the request]
  owner,     \* [Enrol -> user of the request's session]
  examined,  \* history: [User -> failures answered since the key was made]
  verified,  \* history: [User -> secrets a code was verified for]
  raced,     \* history: two requests that may remove an ADMIN overlapped
  crossed,   \* history: users with overlapping enrolment requests
  errors,
  begun      \* requests so far

userVars  == <<role, deleted, secret, enabled>>
limitVars == <<fails, ttl, examined, errors>>
localVars == <<held, job, owner>>
history   == <<verified, raced, crossed>>
vars == <<userVars, session, limitVars, pc, localVars, history, begun>>

Exists(u) == role[u] # None
Admins    == {u \in User : role[u] = "ADMIN"}

\* A role to write, or None to delete the row.
Request  == [target : User, to : Role \cup {None}]
NoJob    == [target |-> CHOOSE u \in User : TRUE, to |-> "ADMIN"]
Token    == [user : User, role : Role]
Handling == {"checked", "wrong", "expire", "right", "create",
             "before", "find", "count", "write", "add",
             "renew", "verify", "enable", "confirm", "disable"}
Step     == Handling \cup {"idle", "done"}

TypeOK ==
  /\ role \in [User -> Role \cup {None}]
  /\ deleted \subseteq User
  /\ secret \in [User -> Enrol \cup {None}]
  /\ enabled \in [User -> BOOLEAN]
  /\ session \in [Session -> Token \cup {None}]
  /\ fails \in [User -> Nat]
  /\ ttl \in [User -> BOOLEAN]
  /\ pc \in [Fiber -> Step]
  /\ held \in [Login -> Role]
  /\ job \in [Admin -> Request]
  /\ owner \in [Enrol -> User \cup {None}]
  /\ examined \in [User -> Nat]
  /\ verified \in [User -> SUBSET Enrol]
  /\ raced \in BOOLEAN
  /\ crossed \subseteq User
  /\ errors \in 0..MaxErrors
  /\ begun \in 0..MaxRequests

Init ==
  /\ role = FirstRole
  /\ deleted = {}
  /\ secret = [u \in User |-> None]
  /\ enabled = [u \in User |-> FALSE]
  /\ session = [s \in Session |->
                  IF s \in LoggedIn
                  THEN [user |-> s, role |-> FirstRole[s]] ELSE None]
  /\ fails = [u \in User |-> 0]
  /\ ttl = [u \in User |-> FALSE]
  /\ pc = [f \in Fiber |-> "idle"]
  /\ held = [l \in Login |-> "READONLY"]
  /\ job = [a \in Admin |-> NoJob]
  /\ owner = [e \in Enrol |-> None]
  /\ examined = [u \in User |-> 0]
  /\ verified = [u \in User |-> {}]
  /\ raced = FALSE
  /\ crossed = {}
  /\ errors = 0
  /\ begun = 0

\* A request comes in, is handled, and is answered.
Begins(f, to) ==
  /\ pc[f] = "idle"
  /\ begun < MaxRequests
  /\ begun' = begun + 1
  /\ pc' = [pc EXCEPT ![f] = to]

Goes(f, from, to) ==
  /\ pc[f] = from
  /\ pc' = [pc EXCEPT ![f] = to]
  /\ UNCHANGED begun

\* What a handler held is gone when it ends.
Forgets(f) ==
  /\ held' = [l \in Login |-> IF l = f THEN "READONLY" ELSE held[l]]
  /\ job' = [a \in Admin |-> IF a = f THEN NoJob ELSE job[a]]
  /\ owner' = [e \in Enrol |-> IF e = f THEN None ELSE owner[e]]

\* An answer of Redis is lost; ratelimit.ts goes on as if nothing had been.
RedisError ==
  /\ errors < MaxErrors
  /\ errors' = errors + 1

-----------------------------------------------------------------------------
(* POST /api/auth/login                                                    *)

\* Mutant: the limit counts the failures beyond it.
CheckLimitLate(l) ==
  /\ Begins(l, "checked")
  /\ \/ fails[UserOf[l]] <= MaxFailures /\ errors' = errors
     \/ RedisError
  /\ UNCHANGED <<userVars, session, fails, ttl, examined, localVars, history>>

\* checkLoginRateLimit; a limited request is answered 429 and changes nothing.
CheckLimit(l) ==
  /\ Begins(l, "checked")
  /\ \/ fails[UserOf[l]] < MaxFailures /\ errors' = errors
     \/ RedisError
  /\ UNCHANGED <<userVars, session, fails, ttl, examined, localVars, history>>

\* No such user, a wrong password, or a code that is not of the secret.
Refused(l) ==
  /\ Goes(l, "checked", "wrong")
  /\ UNCHANGED <<userVars, session, limitVars, localVars, history>>

\* The password is right, and the code too where a second factor is enabled.
Accepted(l) ==
  /\ Exists(UserOf[l])
  /\ enabled[UserOf[l]] => secret[UserOf[l]] # None
  /\ Goes(l, "checked", "right")
  /\ held' = [held EXCEPT ![l] = role[UserOf[l]]]
  /\ UNCHANGED <<userVars, session, limitVars, job, owner, history>>

\* The code is still to be asked for, or the secret cannot be decrypted.
NoCode(l) ==
  /\ enabled[UserOf[l]]
  /\ Goes(l, "checked", "idle")
  /\ UNCHANGED <<userVars, session, limitVars, localVars, history>>

\* recordLoginFailure: a pipeline of two commands.
Increment(l) ==
  LET u == UserOf[l] IN
  /\ examined' = [examined EXCEPT ![u] = @ + 1]
  /\ \/ /\ Goes(l, "wrong", "expire")
        /\ fails' = [fails EXCEPT ![u] = @ + 1]
        /\ errors' = errors
     \/ /\ Goes(l, "wrong", "idle")
        /\ RedisError
        /\ fails' = fails
  /\ UNCHANGED <<userVars, session, ttl, localVars, history>>

\* Mutant: only the first failure sets the time to live.
SetExpiryOnce(l) ==
  LET u == UserOf[l] IN
  /\ Goes(l, "expire", "idle")
  /\ \/ ttl' = [ttl EXCEPT ![u] = @ \/ fails[u] = 1] /\ errors' = errors
     \/ RedisError /\ ttl' = ttl
  /\ UNCHANGED <<userVars, session, fails, examined, localVars, history>>

\* Sets the time to live only of a key without one (NX).
SetExpiry(l) ==
  LET u == UserOf[l] IN
  /\ Goes(l, "expire", "idle")
  /\ \/ ttl' = [ttl EXCEPT ![u] = fails[u] > 0] /\ errors' = errors
     \/ RedisError /\ ttl' = ttl
  /\ UNCHANGED <<userVars, session, fails, examined, localVars, history>>

\* clearLoginFailures.
ClearFailures(l) ==
  LET u == UserOf[l] IN
  /\ Goes(l, "right", "create")
  /\ \/ /\ fails' = [fails EXCEPT ![u] = 0]
        /\ ttl' = [ttl EXCEPT ![u] = FALSE]
        /\ examined' = [examined EXCEPT ![u] = 0]
        /\ errors' = errors
     \/ RedisError /\ UNCHANGED <<fails, ttl, examined>>
  /\ UNCHANGED <<userVars, session, localVars, history>>

\* lastLoginAt and the session: both statements fail for a row that is gone.
CreateSession(l) ==
  /\ Exists(UserOf[l])
  /\ Goes(l, "create", "done")
  /\ session' = [session EXCEPT ![l] = [user |-> UserOf[l], role |-> held[l]]]
  /\ Forgets(l)
  /\ UNCHANGED <<userVars, limitVars, history>>

KeyExpires(u) ==
  /\ ttl[u]
  /\ fails' = [fails EXCEPT ![u] = 0]
  /\ ttl' = [ttl EXCEPT ![u] = FALSE]
  /\ examined' = [examined EXCEPT ![u] = 0]
  /\ UNCHANGED <<userVars, session, errors, pc, localVars, history, begun>>

-----------------------------------------------------------------------------
(* Sessions                                                                *)

\* It expires, its user logs out, or somebody revokes it.
EndSession(s) ==
  /\ session[s] # None
  /\ session' = [session EXCEPT ![s] = None]
  /\ UNCHANGED <<userVars, limitVars, pc, localVars, history, begun>>

-----------------------------------------------------------------------------
(* PATCH and DELETE /api/access/users/[id], POST /api/access/users         *)

Removes(q) == q.to # "ADMIN"

\* requireRole trusts the role in the token.
Authorized(s) == session[s] # None /\ session[s].role = "ADMIN"

BeginChange(a) ==
  /\ \E s \in Session : Authorized(s)
  /\ \E q \in Request :
       /\ Begins(a, IF q.to = None THEN "find" ELSE "before")
       /\ job' = [job EXCEPT ![a] = q]
       /\ raced' = (raced \/ /\ Removes(q)
                              /\ \E b \in Admin \ {a} :
                                   /\ pc[b] \in Handling \ {"add"}
                                   /\ Removes(job[b]))
  /\ UNCHANGED <<userVars, session, limitVars, held, owner, verified, crossed>>

\* The guard is asked only for a role other than the one the row had.
ReadBefore(a) ==
  LET q == job[a] IN
  /\ Exists(q.target)
  /\ Goes(a, "before", IF role[q.target] = q.to THEN "write" ELSE "find")
  /\ UNCHANGED <<userVars, session, limitVars, localVars, history>>

\* canDeleteUser and canDemoteUser read the row ...
FindTarget(a) ==
  LET q == job[a] IN
  /\ Exists(q.target)
  /\ Goes(a, "find", IF role[q.target] = "ADMIN" /\ Removes(q)
                     THEN "count" ELSE "write")
  /\ UNCHANGED <<userVars, session, limitVars, localVars, history>>

\* Mutant: the comparison is off by one.
SomeAdmins == Cardinality(Admins) > 0

\* ... and count the administrators.
EnoughAdmins == Cardinality(Admins) > 1

CountAdmins(a) ==
  /\ EnoughAdmins
  /\ Goes(a, "count", "write")
  /\ UNCHANGED <<userVars, session, limitVars, localVars, history>>

\* user.update, or user.delete with the cascade to the sessions.
WriteUser(a) ==
  LET q == job[a] IN
  /\ Exists(q.target)
  /\ Goes(a, "write", "idle")
  /\ role' = [role EXCEPT ![q.target] = q.to]
  /\ IF q.to # None
     THEN UNCHANGED <<deleted, secret, enabled, session>>
     ELSE /\ deleted' = deleted \cup {q.target}
          /\ secret' = [secret EXCEPT ![q.target] = None]
          /\ enabled' = [enabled EXCEPT ![q.target] = FALSE]
          /\ session' = [s \in Session |->
                           IF session[s] # None /\ session[s].user = q.target
                           THEN None ELSE session[s]]
  /\ Forgets(a)
  /\ UNCHANGED <<limitVars, history>>

BeginCreate(a) ==
  /\ \E s \in Session : Authorized(s)
  /\ Begins(a, "add")
  /\ UNCHANGED <<userVars, session, limitVars, localVars, history>>

CreateUser(a) ==
  /\ Goes(a, "add", "idle")
  /\ \E u \in User \ deleted, r \in Role :
       /\ ~Exists(u)
       /\ role' = [role EXCEPT ![u] = r]
  /\ UNCHANGED <<deleted, secret, enabled, session, limitVars, localVars,
                 history>>

-----------------------------------------------------------------------------
(* /api/access/totp                                                        *)

BeginEnrol(e) ==
  \E s \in Session, step \in {"renew", "verify", "confirm"} :
    /\ session[s] # None
    /\ Begins(e, step)
    /\ owner' = [owner EXCEPT ![e] = session[s].user]
    /\ crossed' = IF \E f \in Enrol \ {e} : /\ pc[f] \in Handling
                                            /\ owner[f] = session[s].user
                  THEN crossed \cup {session[s].user} ELSE crossed
    /\ UNCHANGED <<userVars, session, limitVars, held, job, verified, raced>>

\* Mutant: a factor that was enabled stays so with the new secret.
NewSecretKeeps(e) ==
  LET u == owner[e] IN
  /\ Goes(e, "renew", "done")
  /\ Exists(u)
  /\ secret' = [secret EXCEPT ![u] = e]
  /\ Forgets(e)
  /\ UNCHANGED <<role, deleted, enabled, session, limitVars, history>>

\* GET stores a new secret, not enabled.
NewSecret(e) ==
  LET u == owner[e] IN
  /\ Goes(e, "renew", "done")
  /\ Exists(u)
  /\ secret' = [secret EXCEPT ![u] = e]
  /\ enabled' = [enabled EXCEPT ![u] = FALSE]
  /\ Forgets(e)
  /\ UNCHANGED <<role, deleted, session, limitVars, history>>

\* POST: the code is of the pending secret ...
VerifyCode(e) ==
  LET u == owner[e] IN
  /\ Goes(e, "verify", "enable")
  /\ secret[u] # None /\ ~enabled[u]
  /\ verified' = [verified EXCEPT ![u] = @ \cup {secret[u]}]
  /\ UNCHANGED <<userVars, session, limitVars, localVars, raced, crossed>>

\* ... and whatever is there by now is enabled.
Enable(e) ==
  LET u == owner[e] IN
  /\ Goes(e, "enable", "idle")
  /\ Exists(u)
  /\ enabled' = [enabled EXCEPT ![u] = TRUE]
  /\ Forgets(e)
  /\ UNCHANGED <<role, deleted, secret, session, limitVars, history>>

\* DELETE: the code is of the enabled secret ...
ConfirmCode(e) ==
  LET u == owner[e] IN
  /\ Goes(e, "confirm", "disable")
  /\ secret[u] # None /\ enabled[u]
  /\ UNCHANGED <<userVars, session, limitVars, localVars, history>>

\* ... and the factor is removed.
Disable(e) ==
  LET u == owner[e] IN
  /\ Goes(e, "disable", "idle")
  /\ Exists(u)
  /\ enabled' = [enabled EXCEPT ![u] = FALSE]
  /\ secret' = [secret EXCEPT ![u] = None]
  /\ Forgets(e)
  /\ UNCHANGED <<role, deleted, session, limitVars, history>>

-----------------------------------------------------------------------------
(* Every request                                                           *)

\* It is refused (404, 409, 401), a statement of it fails, or the process
\* dies: nothing more is written.
Abandoned(f) ==
  /\ pc[f] \in Handling \ {"wrong", "expire"}
  /\ pc' = [pc EXCEPT ![f] = "idle"]
  /\ Forgets(f)
  /\ UNCHANGED <<userVars, session, limitVars, history, begun>>

LoggingIn(l) ==
  \/ CheckLimit(l) \/ Refused(l) \/ Accepted(l) \/ NoCode(l)
  \/ Increment(l) \/ SetExpiry(l) \/ ClearFailures(l) \/ CreateSession(l)

Changing(a) ==
  \/ BeginChange(a) \/ ReadBefore(a) \/ FindTarget(a) \/ CountAdmins(a)
  \/ WriteUser(a) \/ BeginCreate(a) \/ CreateUser(a)

Enrolling(e) ==
  \/ BeginEnrol(e) \/ NewSecret(e) \/ VerifyCode(e) \/ Enable(e)
  \/ ConfirmCode(e) \/ Disable(e)

Next ==
  \/ \E l \in Login : LoggingIn(l)
  \/ \E a \in Admin : Changing(a)
  \/ \E e \in Enrol : Enrolling(e)
  \/ \E f \in Fiber : Abandoned(f)
  \/ \E u \in User : KeyExpires(u)
  \/ \E s \in Session : EndSession(s)

Spec == Init /\ [][Next]_vars

-----------------------------------------------------------------------------
(* Properties                                                              *)

\* "Real guard: refuse to delete a user when doing so would remove the last
\* remaining ADMIN": whatever else goes on, as long as one request that takes
\* a role away is handled at a time.
AdminRemains == ~raced => Admins # {}

\* The same without that condition: the count is read before the row is
\* written, and two requests may each leave the other's target as the last.
AdminAlwaysRemains == Admins # {}

\* Between the first failure of a key and its end, no more failures are
\* answered than the limit, the callers that were let in before it was
\* reached, and the errors of Redis.
Callers(u) == {l \in Login : UserOf[l] = u}

FailuresBounded ==
  \A u \in User :
    examined[u] + 1 <= MaxFailures + Cardinality(Callers(u)) + errors

\* A key that locks its user out expires, even if some commands were lost:
\* every failure sets the time to live that is missing.
LocksExpire ==
  MaxErrors < MaxFailures =>
    \A u \in User :
      fails[u] >= MaxFailures /\ (\A l \in Callers(u) : pc[l] # "expire")
        => ttl[u]

\* "NOT yet enabled (enabled on verify)": a factor that is enabled has a
\* secret that a code was verified for, unless requests of its user overlap.
EnabledWasVerified ==
  \A u \in User \ crossed : enabled[u] => secret[u] \in verified[u]

\* The same for all users: a verification enables whatever secret is there
\* when it writes, which may be a newer one, or none.
EnabledIsVerified ==
  \A u \in User : enabled[u] => secret[u] \in verified[u]
=============================================================================
