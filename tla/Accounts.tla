------------------------------ MODULE Accounts ------------------------------
(***************************************************************************)
(* Accounts, their sessions and the password-reset desk as concurrent      *)
(* PostgreSQL transactions:                                                *)
(*                                                                         *)
(*   accounts/services.py                 create, bootstrap, set password,  *)
(*                                        activate, deactivate, change role *)
(*   accounts/password_reset_services.py  request, resolve, reject          *)
(*   accounts/views.py, session_policy.py login, logout, page               *)
(*                                                                         *)
(* A worker runs one browser request (or one bootstrap command) at a time. *)
(* A transaction takes its locks in the code's order and writes everything *)
(* at commit.  A login is not a transaction: its statements commit one by  *)
(* one.  Support assignments, which can make an identity operation refuse, *)
(* are the subject of SupportDesk; here a refusal is a failure.            *)
(***************************************************************************)
EXTENDS PortalTypes, Naturals, FiniteSets

CONSTANTS
  None,             \* null
  Users,            \* the accounts that exist or may be created, by login
  Requests,         \* bound: the rows of password_reset_requests
  Keys,             \* bound: the session keys that are issued
  Workers,          \* bound: the requests in progress at a time
  InitialRole,      \* the accounts that exist at the start, and their role
  MaxVersion,       \* bound: the password changes of an account
  Operations,       \* bound: the operations a run exercises
  Targets,          \* bound: the accounts that resets and identity operations are about
  NewRoles          \* bound: the roles that are given

CreateOps == {"create", "bootstrap"}
RevokingOps == {"setPassword", "resolve", "deactivate", "changeRole"}
IdentityOps == {"activate", "setPassword", "deactivate", "changeRole"}
DecideOps == {"resolve", "reject"}
SessionOps == {"page", "logout"}
AllOps == CreateOps \cup IdentityOps \cup DecideOps \cup SessionOps \cup {"forgot", "login"}

ResetStates == {"OPEN", "RESOLVED", "REJECTED"}
Versions == 0 .. MaxVersion

\* What a session row says: whose it is, and the hash of the password it was
\* opened with.  A password is a version: each change salts a new hash.
Sessions == [user: Users, hash: Versions]

\* A request: an operation by an actor on an account, a reset request or a
\* session; role is the new role, or the one a login has read.
Jobs == [op: AllOps, actor: Users \cup {None}, target: Users \cup {None},
         request: Requests \cup {None}, key: Keys \cup {None},
         role: Roles \cup {None}]

ASSUME AccountsAssumption ==
  /\ None \notin Users \cup Requests \cup Keys \cup Workers \cup Roles
  /\ None \notin ResetStates \cup Sessions \cup Jobs
  /\ InitialRole \in [Users -> Roles \cup {None}]
  /\ MaxVersion \in Nat
  /\ Operations \subseteq AllOps
  /\ Targets \subseteq Users
  /\ NewRoles \subseteq Roles

VARIABLES
  role, active, password, staff,  \* users; role[u] = None: no such row
  reset, requester, resolver,     \* password_reset_requests; None: no such row
  session, issued,                \* django_session, and the keys handed out
  userLock, requestLock,          \* rows held FOR UPDATE
  identityLock,                   \* pg_advisory_xact_lock(_IDENTITY_LOCK_KEY)
  pc, job,                        \* the request of each worker
  loaded,                         \* the session or credentials it has read
  doomed                          \* the sessions its transaction deletes

userVars == <<role, active, password, staff>>
resetVars == <<reset, requester, resolver>>
sessionVars == <<session, issued>>
rowVars == <<userVars, resetVars, sessionVars>>
lockVars == <<userLock, requestLock, identityLock>>
workVars == <<pc, job, loaded, doomed>>
vars == <<rowVars, lockVars, workVars>>

Stages == {"idle", "lockUser", "lookup", "lockRequest", "identityLock",
           "lockTarget", "commit", "stamp", "open", "verify", "serve"}

Init ==
  /\ role = InitialRole
  /\ active = [u \in Users |-> InitialRole[u] # None]
  /\ password = [u \in Users |-> 0]
  /\ staff = [u \in Users |-> InitialRole[u] = "ADMIN"]
  /\ reset = [r \in Requests |-> None]
  /\ requester = [r \in Requests |-> None]
  /\ resolver = [r \in Requests |-> None]
  /\ session = [k \in Keys |-> None]
  /\ issued = {}
  /\ userLock = [u \in Users |-> None]
  /\ requestLock = [r \in Requests |-> None]
  /\ identityLock = None
  /\ pc = [w \in Workers |-> "idle"]
  /\ job = [w \in Workers |-> None]
  /\ loaded = [w \in Workers |-> None]
  /\ doomed = [w \in Workers |-> {}]

-----------------------------------------------------------------------------
(* Reads and checks.                                                       *)

HasRole(u, r) == active[u] /\ role[u] = r

Admins == {u \in Users : role[u] = "ADMIN"}

OpenRequests(u) == {r \in Requests : reset[r] = "OPEN" /\ requester[r] = u}

SessionsOf(u) == {k \in Keys : session[k] # None /\ session[k].user = u}

\* _protect_last_admin refuses to remove the only active ADMIN.
IsLastAdmin(u) ==
  /\ HasRole(u, "ADMIN")
  /\ Cardinality({a \in Users : HasRole(a, "ADMIN")}) <= 1

\* What the account services check once they hold the target's row.  MaxVersion
\* stands for the password validators, which may refuse a new password.
AdmitsIdentity(j) ==
  \/ j.op \in {"setPassword", "resolve"} /\ password[j.target] < MaxVersion
  \/ j.op = "activate" /\ ~active[j.target]
  \/ j.op = "deactivate" /\ active[j.target] /\ ~IsLastAdmin(j.target)
  \/ /\ j.op = "changeRole"
     /\ role[j.target] # j.role
     /\ ~(j.role # "ADMIN" /\ IsLastAdmin(j.target))

-----------------------------------------------------------------------------
(* Locks and the end of a request.                                         *)

Free(holder, w) == holder \in {None, w}

\* resolver is a foreign key to the acting administrator: the deferred check
\* at commit waits for a transaction that holds that row FOR UPDATE.
ReadyToCommit(w) ==
  job[w].op \in DecideOps => Free(userLock[job[w].actor], w)

Released(lock, w) == [x \in DOMAIN lock |-> IF lock[x] = w THEN None ELSE lock[x]]

Goto(w, stage) == pc' = [pc EXCEPT ![w] = stage]

\* The request ends; its transaction, if it has one, commits or rolls back.
EndRequest(w) ==
  /\ pc' = [pc EXCEPT ![w] = "idle"]
  /\ job' = [job EXCEPT ![w] = None]
  /\ loaded' = [loaded EXCEPT ![w] = None]
  /\ doomed' = [doomed EXCEPT ![w] = {}]
  /\ userLock' = Released(userLock, w)
  /\ requestLock' = Released(requestLock, w)
  /\ identityLock' = IF identityLock = w THEN None ELSE identityLock

NewJob(op, actor, target, request, key, newRole) ==
  [op |-> op, actor |-> actor, target |-> target, request |-> request,
   key |-> key, role |-> newRole]

-----------------------------------------------------------------------------
(* The requests begin.                                                     *)

Begin(w, j, stage) ==
  /\ pc[w] = "idle"
  /\ j.op \in Operations
  /\ job' = [job EXCEPT ![w] = j]
  /\ Goto(w, stage)
  /\ UNCHANGED <<rowVars, lockVars, doomed>>

\* An identifier nobody has: a new UUID, a new random session key.
NewRequest(r) ==
  /\ reset[r] = None
  /\ \A v \in Workers : pc[v] # "idle" => job[v].request # r

NewKey(k) ==
  /\ k \notin issued
  /\ \A v \in Workers : pc[v] # "idle" => job[v].key # k

\* The public form "forgot my password", for any account name.
StartForgot(w, u, r) ==
  /\ NewRequest(r)
  /\ Begin(w, NewJob("forgot", None, u, r, None, None), "lockUser")
  /\ UNCHANGED loaded

\* An administrator decides a request of the queue (_current_admin, unlocked).
StartDecide(w, op, u, r) ==
  /\ op \in DecideOps
  /\ HasRole(u, "ADMIN")
  /\ reset[r] # None
  /\ Begin(w, NewJob(op, u, requester[r], r, None, None), "lockRequest")
  /\ UNCHANGED loaded

StartIdentity(w, op, u, t, newRole) ==
  /\ op \in IdentityOps
  /\ HasRole(u, "ADMIN")
  /\ role[t] # None
  /\ newRole = None <=> op # "changeRole"
  /\ Begin(w, NewJob(op, u, t, None, None, newRole), "identityLock")
  /\ UNCHANGED loaded

StartCreate(w, u, t, newRole) ==
  /\ HasRole(u, "ADMIN")
  /\ Begin(w, NewJob("create", u, t, None, None, newRole), "identityLock")
  /\ UNCHANGED loaded

\* The management command bootstrap_admin, which anybody at the host may run.
StartBootstrap(w, t) ==
  /\ Begin(w, NewJob("bootstrap", None, t, None, None, "ADMIN"), "identityLock")
  /\ UNCHANGED loaded

\* authenticate: the row of an active account is read and its password accepted.
StartLogin(w, u, k) ==
  /\ active[u]
  /\ NewKey(k)
  /\ Begin(w, NewJob("login", u, u, None, k, role[u]), "stamp")
  /\ loaded' = [loaded EXCEPT ![w] = [user |-> u, hash |-> password[u]]]

\* A request that carries a session cookie: the middleware loads the session.
StartVisit(w, op, k) ==
  /\ op \in SessionOps
  /\ session[k] # None
  /\ Begin(w, NewJob(op, None, None, None, k, None), "verify")
  /\ loaded' = [loaded EXCEPT ![w] = session[k]]

-----------------------------------------------------------------------------
(* The password-reset desk.                                                *)

\* Mutated form: the requester is read without select_for_update.
ReadRequester(w) ==
  /\ pc[w] = "lockUser"
  /\ \/ /\ active[job[w].target]
        /\ Goto(w, "lookup")
        /\ UNCHANGED <<lockVars, job, loaded, doomed>>
     \/ /\ ~active[job[w].target]
        /\ EndRequest(w)
  /\ UNCHANGED rowVars

\* The requester's row is locked; an unknown or inactive account is IGNORED.
LockRequester(w) ==
  LET u == job[w].target IN
  /\ pc[w] = "lockUser"
  /\ Free(userLock[u], w)
  /\ \/ /\ active[u]
        /\ userLock' = [userLock EXCEPT ![u] = w]
        /\ Goto(w, "lookup")
        /\ UNCHANGED <<requestLock, identityLock, job, loaded, doomed>>
     \/ /\ ~active[u]
        /\ EndRequest(w)
  /\ UNCHANGED rowVars

\* Mutated form: the OPEN row is looked up with select_for_update.
LockOpenRequest(w) ==
  /\ pc[w] = "lookup"
  /\ \/ \E r \in OpenRequests(job[w].target) :
          /\ job' = [job EXCEPT ![w].request = r]
          /\ Goto(w, "lockRequest")
          /\ UNCHANGED <<lockVars, loaded, doomed>>
     \/ /\ OpenRequests(job[w].target) = {}
        /\ Goto(w, "commit")
        /\ UNCHANGED <<lockVars, job, loaded, doomed>>
  /\ UNCHANGED rowVars

\* An OPEN request of the account is REUSED; the lookup locks nothing.
LookUpOpenRequest(w) ==
  /\ pc[w] = "lookup"
  /\ \/ /\ OpenRequests(job[w].target) # {}
        /\ EndRequest(w)
     \/ /\ OpenRequests(job[w].target) = {}
        /\ Goto(w, "commit")
        /\ UNCHANGED <<lockVars, job, loaded, doomed>>
  /\ UNCHANGED rowVars

AfterLockRequest(op) == IF op = "resolve" THEN "identityLock" ELSE "commit"

\* Mutated form: the work item is read without select_for_update.
ReadRequest(w) ==
  LET r == job[w].request IN
  /\ pc[w] = "lockRequest"
  /\ \/ /\ reset[r] = "OPEN"
        /\ Goto(w, AfterLockRequest(job[w].op))
        /\ UNCHANGED <<lockVars, job, loaded, doomed>>
     \/ /\ reset[r] # "OPEN"
        /\ EndRequest(w)
  /\ UNCHANGED rowVars

\* _locked_request, and the conflict when the item is no longer OPEN.
LockRequest(w) ==
  LET r == job[w].request IN
  /\ pc[w] = "lockRequest"
  /\ Free(requestLock[r], w)
  /\ \/ /\ reset[r] = "OPEN"
        /\ requestLock' = [requestLock EXCEPT ![r] = w]
        /\ Goto(w, AfterLockRequest(job[w].op))
        /\ UNCHANGED <<userLock, identityLock, job, loaded, doomed>>
     \/ /\ reset[r] # "OPEN"
        /\ EndRequest(w)
  /\ UNCHANGED rowVars

-----------------------------------------------------------------------------
(* The account services.                                                   *)

\* What is read under the advisory lock: the actor again, or for a bootstrap
\* that no ADMIN exists; a login that is taken makes the insertion fail.
Entitled(j) ==
  /\ IF j.op = "bootstrap" THEN Admins = {} ELSE HasRole(j.actor, "ADMIN")
  /\ j.op \in CreateOps => role[j.target] = None

AfterIdentityLock(op) == IF op \in CreateOps THEN "commit" ELSE "lockTarget"

\* Mutated form: identity changes are not serialised.
EnterUnserialised(w) ==
  /\ pc[w] = "identityLock"
  /\ \/ /\ Entitled(job[w])
        /\ Goto(w, AfterIdentityLock(job[w].op))
        /\ UNCHANGED <<lockVars, job, loaded, doomed>>
     \/ /\ ~Entitled(job[w])
        /\ EndRequest(w)
  /\ UNCHANGED rowVars

TakeIdentityLock(w) ==
  /\ pc[w] = "identityLock"
  /\ Free(identityLock, w)
  /\ \/ /\ Entitled(job[w])
        /\ identityLock' = w
        /\ Goto(w, AfterIdentityLock(job[w].op))
        /\ UNCHANGED <<userLock, requestLock, job, loaded, doomed>>
     \/ /\ ~Entitled(job[w])
        /\ EndRequest(w)
  /\ UNCHANGED rowVars

\* _load_target and the checks that follow it; invalidate_user_sessions then
\* collects the keys of the sessions it finds committed.
LockTarget(w) ==
  LET j == job[w] IN
  /\ pc[w] = "lockTarget"
  /\ Free(userLock[j.target], w)
  /\ \/ /\ AdmitsIdentity(j)
        /\ userLock' = [userLock EXCEPT ![j.target] = w]
        /\ doomed' = [doomed EXCEPT ![w] =
                        IF j.op \in RevokingOps THEN SessionsOf(j.target) ELSE {}]
        /\ Goto(w, "commit")
        /\ UNCHANGED <<requestLock, identityLock, job, loaded>>
     \/ /\ ~AdmitsIdentity(j)
        /\ EndRequest(w)
  /\ UNCHANGED rowVars

-----------------------------------------------------------------------------
(* The commits.                                                            *)

Committing(w, op) ==
  /\ pc[w] = "commit"
  /\ job[w].op = op
  /\ ReadyToCommit(w)
  /\ EndRequest(w)

\* User.save: the framework flags are written again with every save.
SaveRole(u, r) ==
  /\ role' = [role EXCEPT ![u] = r]
  /\ staff' = [staff EXCEPT ![u] = r = "ADMIN"]

\* set_password, and the save of the row.
SavePassword(u) ==
  /\ password' = [password EXCEPT ![u] = @ + 1]
  /\ SaveRole(u, role[u])
  /\ UNCHANGED active

DeleteDoomed(w) ==
  /\ session' = [k \in Keys |-> IF k \in doomed[w] THEN None ELSE session[k]]
  /\ UNCHANGED issued

CommitForgot(w) ==
  /\ Committing(w, "forgot")
  /\ reset' = [reset EXCEPT ![job[w].request] = "OPEN"]
  /\ requester' = [requester EXCEPT ![job[w].request] = job[w].target]
  /\ UNCHANGED <<userVars, resolver, sessionVars>>

CommitResolve(w) ==
  /\ Committing(w, "resolve")
  /\ SavePassword(job[w].target)
  /\ DeleteDoomed(w)
  /\ reset' = [reset EXCEPT ![job[w].request] = "RESOLVED"]
  /\ resolver' = [resolver EXCEPT ![job[w].request] = job[w].actor]
  /\ UNCHANGED requester

\* Mutated form: who rejected the request is not recorded.
CommitAnonymousReject(w) ==
  /\ Committing(w, "reject")
  /\ reset' = [reset EXCEPT ![job[w].request] = "REJECTED"]
  /\ UNCHANGED <<userVars, requester, resolver, sessionVars>>

CommitReject(w) ==
  /\ Committing(w, "reject")
  /\ reset' = [reset EXCEPT ![job[w].request] = "REJECTED"]
  /\ resolver' = [resolver EXCEPT ![job[w].request] = job[w].actor]
  /\ UNCHANGED <<userVars, requester, sessionVars>>

\* The administrator says whether the new account is active.
CommitCreate(w) ==
  /\ Committing(w, "create")
  /\ SaveRole(job[w].target, job[w].role)
  /\ \E isActive \in BOOLEAN : active' = [active EXCEPT ![job[w].target] = isActive]
  /\ UNCHANGED <<password, resetVars, sessionVars>>

CommitBootstrap(w) ==
  /\ Committing(w, "bootstrap")
  /\ SaveRole(job[w].target, job[w].role)
  /\ active' = [active EXCEPT ![job[w].target] = TRUE]
  /\ UNCHANGED <<password, resetVars, sessionVars>>

CommitSetPassword(w) ==
  /\ Committing(w, "setPassword")
  /\ SavePassword(job[w].target)
  /\ DeleteDoomed(w)
  /\ UNCHANGED resetVars

CommitActivate(w) ==
  /\ Committing(w, "activate")
  /\ active' = [active EXCEPT ![job[w].target] = TRUE]
  /\ SaveRole(job[w].target, role[job[w].target])
  /\ UNCHANGED <<password, resetVars, sessionVars>>

CommitDeactivate(w) ==
  /\ Committing(w, "deactivate")
  /\ active' = [active EXCEPT ![job[w].target] = FALSE]
  /\ SaveRole(job[w].target, role[job[w].target])
  /\ DeleteDoomed(w)
  /\ UNCHANGED <<password, resetVars>>

CommitChangeRole(w) ==
  /\ Committing(w, "changeRole")
  /\ SaveRole(job[w].target, job[w].role)
  /\ DeleteDoomed(w)
  /\ UNCHANGED <<active, password, resetVars>>

Commit(w) ==
  \/ CommitForgot(w) \/ CommitResolve(w) \/ CommitReject(w)
  \/ CommitCreate(w) \/ CommitBootstrap(w) \/ CommitSetPassword(w)
  \/ CommitActivate(w) \/ CommitDeactivate(w) \/ CommitChangeRole(w)

-----------------------------------------------------------------------------
(* Sessions.                                                               *)

\* user_logged_in updates last_login with User.save on the object authenticate
\* loaded, which writes the framework flags of the role it had then.
Stamp(w) ==
  LET u == job[w].target IN
  /\ pc[w] = "stamp"
  /\ Free(userLock[u], w)
  /\ staff' = [staff EXCEPT ![u] = job[w].role = "ADMIN"]
  /\ Goto(w, "open")
  /\ UNCHANGED <<role, active, password, resetVars, sessionVars, lockVars,
                 job, loaded, doomed>>

\* The response of the login saves the session under its new key.
OpenSession(w) ==
  /\ pc[w] = "open"
  /\ session' = [session EXCEPT ![job[w].key] = loaded[w]]
  /\ issued' = issued \cup {job[w].key}
  /\ EndRequest(w)
  /\ UNCHANGED <<userVars, resetVars>>

\* get_user and PortalSessionPolicyMiddleware: the account must be active and
\* its password unchanged, otherwise the session is flushed.
Verify(w) ==
  LET s == loaded[w] IN
  /\ pc[w] = "verify"
  /\ \/ /\ active[s.user]
        /\ password[s.user] = s.hash
        /\ Goto(w, "serve")
        /\ UNCHANGED <<session, lockVars, job, loaded, doomed>>
     \/ /\ active[s.user] => password[s.user] # s.hash
        /\ session' = [session EXCEPT ![job[w].key] = None]
        /\ EndRequest(w)
  /\ UNCHANGED <<userVars, resetVars, issued>>

\* Mutated form: the session store inserts the row when it is missing.
SaveByUpsert(w) ==
  /\ pc[w] = "serve"
  /\ job[w].op = "page"
  /\ session' = [session EXCEPT ![job[w].key] = loaded[w]]
  /\ EndRequest(w)
  /\ UNCHANGED <<userVars, resetVars, issued>>

\* The activity clock makes every page write its session back; the row must
\* still be there (force_update), or the response is an error.
SavePage(w) ==
  LET k == job[w].key IN
  /\ pc[w] = "serve"
  /\ job[w].op = "page"
  /\ session' = [session EXCEPT ![k] = IF @ = None THEN None ELSE loaded[w]]
  /\ EndRequest(w)
  /\ UNCHANGED <<userVars, resetVars, issued>>

Logout(w) ==
  /\ pc[w] = "serve"
  /\ job[w].op = "logout"
  /\ session' = [session EXCEPT ![job[w].key] = None]
  /\ EndRequest(w)
  /\ UNCHANGED <<userVars, resetVars, issued>>

\* A DatabaseError, a refusal for an open assignment or a weak password, a lost
\* connection or the end of the process, anywhere.
Fail(w) ==
  /\ pc[w] # "idle"
  /\ EndRequest(w)
  /\ UNCHANGED rowVars

-----------------------------------------------------------------------------
Start(w) ==
  \/ \E u \in Targets, r \in Requests : StartForgot(w, u, r)
  \/ \E op \in DecideOps, u \in Users, r \in Requests : StartDecide(w, op, u, r)
  \/ \E op \in IdentityOps, u \in Users, t \in Targets, newRole \in NewRoles \cup {None} :
       StartIdentity(w, op, u, t, newRole)
  \/ \E u, t \in Users, newRole \in NewRoles : StartCreate(w, u, t, newRole)
  \/ \E t \in Users : StartBootstrap(w, t)
  \/ \E u \in Users, k \in Keys : StartLogin(w, u, k)
  \/ \E op \in SessionOps, k \in Keys : StartVisit(w, op, k)

Work(w) ==
  \/ LockRequester(w) \/ LookUpOpenRequest(w) \/ LockRequest(w)
  \/ TakeIdentityLock(w) \/ LockTarget(w) \/ Commit(w)
  \/ Stamp(w) \/ OpenSession(w) \/ Verify(w) \/ SavePage(w) \/ Logout(w)

Next == \E w \in Workers : Start(w) \/ Work(w) \/ Fail(w)

Spec == Init /\ [][Next]_vars

-----------------------------------------------------------------------------
(* Properties.                                                             *)

\* INVARIANT: the columns hold only values of their type and satisfy the check
\* constraint of password_reset_requests (a decided row, and no other, names who
\* decided it); a worker is idle exactly when it has no request.
TypeOK ==
  /\ role \in [Users -> Roles \cup {None}]
  /\ active \in [Users -> BOOLEAN]
  /\ password \in [Users -> Versions]
  /\ staff \in [Users -> BOOLEAN]
  /\ reset \in [Requests -> ResetStates \cup {None}]
  /\ requester \in [Requests -> Users \cup {None}]
  /\ resolver \in [Requests -> Users \cup {None}]
  /\ session \in [Keys -> Sessions \cup {None}]
  /\ issued \subseteq Keys
  /\ userLock \in [Users -> Workers \cup {None}]
  /\ requestLock \in [Requests -> Workers \cup {None}]
  /\ identityLock \in Workers \cup {None}
  /\ pc \in [Workers -> Stages]
  /\ job \in [Workers -> Jobs \cup {None}]
  /\ loaded \in [Workers -> Sessions \cup {None}]
  /\ doomed \in [Workers -> SUBSET Keys]
  /\ \A w \in Workers : pc[w] = "idle" <=> job[w] = None
  /\ \A r \in Requests :
       /\ reset[r] \in {"RESOLVED", "REJECTED"} <=> resolver[r] # None
       /\ reset[r] # None <=> requester[r] # None

\* INVARIANT: however many submissions run at once, an account has at most one
\* OPEN reset request, although no unique index says so and the lookup locks
\* nothing (request_password_reset serialises on the requester's row).
OneOpenPerAccount ==
  \A u \in Users : Cardinality(OpenRequests(u)) <= 1

\* How a password changes: an administrator sets it, or a request of that
\* account leaves OPEN in the same step.
SetOrResolved(u) ==
  \/ \E w \in Workers : /\ pc[w] = "commit" /\ pc'[w] = "idle"
                        /\ job[w].op = "setPassword" /\ job[w].target = u
  \/ \E r \in OpenRequests(u) : reset'[r] = "RESOLVED"

DecisionStands(r) ==
  reset[r] \in {"RESOLVED", "REJECTED"} => reset'[r] = reset[r] /\ resolver'[r] = resolver[r]

\* ACTION PROPERTY: competing decisions on a reset request have one outcome: no
\* password changes by a request that was decided before, and a decided row
\* never changes.
ResolvedOnce ==
  [][/\ \A u \in Users : password'[u] # password[u] => SetOrResolved(u)
     /\ \A r \in Requests : DecisionStands(r)]_vars

\* ACTION PROPERTY: a request is recorded for an account that is active in that
\* very state, whatever a deactivation does meanwhile.
CreatedForActive ==
  [][\A r \in Requests :
       reset[r] = None /\ reset'[r] # None => active[requester'[r]]]_vars

\* ACTION PROPERTY: who resolves a request is still an active ADMIN when the
\* resolution commits, although the actor was first read without a lock
\* (set_user_password reads it again under the advisory lock).
ResolverIsAdmin ==
  [][\A r \in Requests :
       reset[r] = "OPEN" /\ reset'[r] = "RESOLVED" => HasRole(resolver'[r], "ADMIN")]_vars

\* The transaction w is waiting for, if any.
Holder(w) ==
  LET wanted ==
        IF pc[w] \in {"lockUser", "lockTarget", "stamp"} THEN userLock[job[w].target]
        ELSE IF pc[w] = "lockRequest" THEN requestLock[job[w].request]
        ELSE IF pc[w] = "identityLock" THEN identityLock
        ELSE IF pc[w] = "commit" /\ ~ReadyToCommit(w) THEN userLock[job[w].actor]
        ELSE None
  IN IF wanted = w THEN None ELSE wanted

\* INVARIANT: these transactions never wait for each other in a cycle: reset
\* request before advisory lock before user row, and the lookup of an OPEN
\* request, made with the user row held, waits for nobody
\* (password_reset_services.py:72-75).
NoWaitCycle ==
  \A S \in SUBSET Workers : S # {} => {Holder(w) : w \in S} # S

\* ACTION PROPERTY: once there is an ADMIN, a further one is made only by
\* somebody who is an active ADMIN in that very state: two bootstraps make one
\* account, and a demoted administrator makes none.
AdminsMakeAdmins ==
  [][\A u \in Users :
       Admins # {} /\ u \in Admins' \ Admins =>
         \E w \in Workers :
           /\ pc[w] = "commit" /\ pc'[w] = "idle"
           /\ job[w].target = u
           /\ job[w].actor # None /\ HasRole(job[w].actor, "ADMIN")]_vars

\* ACTION PROPERTY: a session that was logged out, expired or revoked is never
\* in the store again, although pages that had loaded it are still running and
\* write it back whole.
RevokedStaysRevoked ==
  [][\A k \in issued : session[k] = None => session'[k] = None]_vars

\* What User.save says of the framework flags (accounts/models.py:89) and a
\* login that loaded the account before a role change does not keep.
FlagsFollowRole ==
  \A u \in Users : role[u] # None => (staff[u] <=> role[u] = "ADMIN")

=============================================================================
