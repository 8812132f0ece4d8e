--------------------------- MODULE Accounts_proofs --------------------------
(***************************************************************************)
(* Accounts and the reset desk for any number of users, requests, sessions *)
(* and workers.                                                            *)
(*                                                                         *)
(* The argument: what a transaction checks it checks under a lock it keeps *)
(* until it commits.  A submission holds its requester's row, a decision   *)
(* the row of its request, and every change of a role, an activation or a  *)
(* password the advisory lock; so nobody else can undo a check (Secured).  *)
(* An identifier that is new stays new until its worker inserts it (Known, *)
(* Distinct).  A worker waits only for workers further in the lock order,  *)
(* since a lock is held only at later stages (Owns).                       *)
(***************************************************************************)
EXTENDS Accounts, FiniteSetTheorems, TLAPS

Step(w) == Start(w) \/ Work(w) \/ Fail(w)

\* The operations that take the advisory lock, and those that lock a target.
SerialOps == CreateOps \cup IdentityOps \cup {"resolve"}
TargetOps == IdentityOps \cup {"resolve"}

\* A request names what its operation works on.
WellFormed(j) ==
  /\ j.op \in SerialOps \cup DecideOps \cup {"forgot", "login"} => j.target \in Users
  /\ j.op \in DecideOps \cup {"forgot"} => j.request \in Requests
  /\ j.op \in DecideOps \cup IdentityOps \cup {"create"} => j.actor \in Users
  /\ j.op \in CreateOps \cup {"changeRole"} => j.role \in Roles
  /\ j.op \in SessionOps \cup {"login"} => j.key \in Keys

\* The stages of an operation.
Fits(op, stage) ==
  \/ op = "forgot" /\ stage \in {"lockUser", "lookup", "commit"}
  \/ op \in DecideOps /\ stage \in {"lockRequest", "commit"}
  \/ op \in SerialOps /\ stage \in {"identityLock", "commit"}
  \/ op \in TargetOps /\ stage = "lockTarget"
  \/ op = "login" /\ stage \in {"stamp", "open"}
  \/ op \in SessionOps /\ stage \in {"verify", "serve"}

Shaped(w) ==
  pc[w] # "idle" =>
    /\ WellFormed(job[w])
    /\ Fits(job[w].op, pc[w])
    /\ job[w].op \in SessionOps \cup {"login"} => loaded[w] \in Sessions

\* What is known of the rows a request names from its start on: an account and
\* a reset request stay there, a new identifier stays new.
Known(w) ==
  pc[w] # "idle" =>
    /\ job[w].op \in IdentityOps => role[job[w].target] # None
    /\ job[w].op \in DecideOps => /\ reset[job[w].request] # None
                                  /\ requester[job[w].request] = job[w].target
    /\ job[w].op = "forgot" => reset[job[w].request] = None
    /\ job[w].op = "login" => job[w].key \notin issued

\* A submission that has locked its requester; one that found no OPEN request.
Submitting(w) == pc[w] = "lookup" \/ (pc[w] = "commit" /\ job[w].op = "forgot")
Recording(w) == pc[w] = "commit" /\ job[w].op = "forgot"

\* A decision that has locked its request.
Deciding(w) ==
  pc[w] \in {"identityLock", "lockTarget", "commit"} /\ job[w].op \in DecideOps

\* A request that holds the advisory lock, and one that also holds its target.
Serial(w) == pc[w] = "lockTarget" \/ (pc[w] = "commit" /\ job[w].op \in SerialOps)
Changing(w) == pc[w] = "commit" /\ job[w].op \in TargetOps

\* The checks of a transaction hold, and so do its locks.
Secured(w) ==
  /\ Submitting(w) => userLock[job[w].target] = w /\ active[job[w].target]
  /\ Recording(w) => OpenRequests(job[w].target) = {}
  /\ Deciding(w) => requestLock[job[w].request] = w /\ reset[job[w].request] = "OPEN"
  /\ Serial(w) => identityLock = w /\ Entitled(job[w])
  /\ Changing(w) => userLock[job[w].target] = w /\ AdmitsIdentity(job[w])

\* The stages at which a lock may be held.
Owns(w) ==
  /\ \A r \in Requests : requestLock[r] = w =>
       pc[w] \in {"identityLock", "lockTarget", "commit"}
  /\ identityLock = w => pc[w] \in {"lockTarget", "commit"}
  /\ \A u \in Users : userLock[u] = w =>
       pc[w] \in {"lookup", "commit"} /\ job[w].op # "reject"

\* Two requests never insert the same row.
Apart(w, v) ==
  pc[w] # "idle" /\ pc[v] # "idle" /\ job[w].op = job[v].op =>
    /\ job[w].op = "forgot" => job[w].request # job[v].request
    /\ job[w].op = "login" => job[w].key # job[v].key

Settled(w) == Shaped(w) /\ Known(w) /\ Secured(w) /\ Owns(w)

Distinct == \A w \in Workers : \A v \in Workers \ {w} : Apart(w, v)

ActiveExists == \A u \in Users : active[u] => role[u] # None

SameOpen == \A u \in Users : \A r, q \in OpenRequests(u) : r = q

IInv ==
  /\ TypeOK
  /\ \A w \in Workers : Settled(w)
  /\ Distinct
  /\ ActiveExists
  /\ SameOpen

-----------------------------------------------------------------------------
(* What a step of one worker can touch.                                    *)

\* Locks only change hands between the worker that steps and nobody.
Hands(lock, v) ==
  \A x \in DOMAIN lock : lock'[x] = lock[x] \/ {lock[x], lock'[x]} \subseteq {v, None}

WorkTypeOK ==
  /\ userLock \in [Users -> Workers \cup {None}]
  /\ requestLock \in [Requests -> Workers \cup {None}]
  /\ identityLock \in Workers \cup {None}
  /\ pc \in [Workers -> Stages]
  /\ job \in [Workers -> Jobs \cup {None}]
  /\ loaded \in [Workers -> Sessions \cup {None}]
  /\ doomed \in [Workers -> SUBSET Keys]
  /\ \A w \in Workers : pc[w] = "idle" <=> job[w] = None

OwnStep(v) ==
  /\ WorkTypeOK'
  /\ \A w \in Workers \ {v} :
       /\ pc'[w] = pc[w]
       /\ job'[w] = job[w]
       /\ loaded'[w] = loaded[w]
  /\ Hands(userLock, v)
  /\ Hands(requestLock, v)
  /\ identityLock' = identityLock \/ {identityLock, identityLock'} \subseteq {v, None}

\* The end of a request frees exactly the locks of its worker.
LEMMA EndIsOwn ==
  ASSUME TypeOK, NEW v \in Workers, EndRequest(v)
  PROVE  OwnStep(v) /\ pc'[v] = "idle" /\ Settled(v)'
<1>1. None \notin Workers
  BY AccountsAssumption
<1>2. WorkTypeOK'
  BY <1>1 DEF EndRequest, Released, WorkTypeOK, TypeOK, Stages
<1>3. OwnStep(v)
  BY <1>1, <1>2 DEF EndRequest, Released, OwnStep, Hands, TypeOK
<1>4. pc'[v] = "idle"
  BY DEF EndRequest, TypeOK
<1>5. /\ \A r \in Requests : requestLock'[r] # v
      /\ \A u \in Users : userLock'[u] # v
      /\ identityLock' # v
  BY <1>1 DEF EndRequest, Released, TypeOK
<1>6. QED
  BY <1>3, <1>4, <1>5 DEF Settled, Shaped, Known, Secured, Owns, Submitting, Recording,
     Deciding, Serial, Changing

\* A request starts with no lock, and names rows that are there or new.
LEMMA BeginIsOwn ==
  ASSUME TypeOK, NEW v \in Workers, Owns(v), NEW j \in Jobs,
         NEW stage \in {"lockUser", "lockRequest", "identityLock", "stamp", "verify"},
         Begin(v, j, stage), loaded' \in [Workers -> Sessions \cup {None}],
         \A w \in Workers \ {v} : loaded'[w] = loaded[w]
  PROVE  /\ OwnStep(v)
         /\ pc'[v] = stage /\ job'[v] = j
         /\ Owns(v)'
<1>1. None \notin Workers /\ j # None
  BY AccountsAssumption
<1>2. pc'[v] = stage /\ job'[v] = j
  BY DEF Begin, Goto, TypeOK
<1>3. \A w \in Workers \ {v} : pc'[w] = pc[w] /\ job'[w] = job[w]
  BY DEF Begin, Goto, TypeOK
<1>4. WorkTypeOK'
  BY <1>1, <1>2, <1>3 DEF Begin, Goto, TypeOK, WorkTypeOK, lockVars, Stages
<1>5. OwnStep(v)
  BY <1>1, <1>3, <1>4 DEF Begin, OwnStep, Hands, lockVars
<1>6. Owns(v)'
  BY DEF Begin, Owns, lockVars
<1>7. QED
  BY <1>2, <1>5, <1>6

\* Every kind of request.
LEMMA StartIsOwn ==
  ASSUME IInv, NEW v \in Workers, Start(v)
  PROVE  /\ OwnStep(v)
         /\ UNCHANGED <<rowVars, lockVars>>
         /\ Settled(v)'
         /\ \A w \in Workers \ {v} : Apart(v, w)' /\ Apart(w, v)'
<1> DEFINE Goal ==
         /\ OwnStep(v)
         /\ UNCHANGED <<rowVars, lockVars>>
         /\ Settled(v)'
         /\ \A w \in Workers \ {v} : Apart(v, w)' /\ Apart(w, v)'
<1>1. TypeOK /\ Owns(v)
  BY DEF IInv, Settled
<1>2. ASSUME NEW j \in Jobs,
             NEW stage \in {"lockUser", "lockRequest", "identityLock", "stamp", "verify"},
             Begin(v, j, stage), loaded' \in [Workers -> Sessions \cup {None}],
             \A w \in Workers \ {v} : loaded'[w] = loaded[w],
             WellFormed(j), Fits(j.op, stage),
             stage = "identityLock" => j.op \notin DecideOps,
             j.op \in SessionOps \cup {"login"} => loaded'[v] \in Sessions,
             j.op \in IdentityOps => role[j.target] # None,
             j.op \in DecideOps => reset[j.request] # None /\ requester[j.request] = j.target,
             j.op = "forgot" => NewRequest(j.request),
             j.op = "login" => NewKey(j.key)
      PROVE  Goal
  <2>1. OwnStep(v) /\ pc'[v] = stage /\ job'[v] = j /\ Owns(v)'
    BY <1>1, <1>2, BeginIsOwn
  <2>2. UNCHANGED <<rowVars, lockVars>>
    BY <1>2 DEF Begin
  <2>3. Shaped(v)'
    BY <1>2, <2>1 DEF Shaped
  <2>4. Known(v)'
    BY <1>2, <2>1, <2>2
    DEF Known, rowVars, userVars, resetVars, sessionVars, NewRequest, NewKey
  <2>5. Secured(v)'
    BY <1>2, <2>1
    DEF Secured, Submitting, Recording, Deciding, Serial, Changing, Fits, DecideOps,
        SerialOps, CreateOps, IdentityOps, TargetOps, SessionOps
  <2>6. ASSUME NEW w \in Workers \ {v}
        PROVE  Apart(v, w)' /\ Apart(w, v)'
    <3>1. pc'[w] = pc[w] /\ job'[w] = job[w]
      BY <2>1 DEF OwnStep
    <3>2. QED
      BY <1>2, <2>1, <3>1 DEF Apart, NewRequest, NewKey
  <2>7. QED
    BY <2>1, <2>2, <2>3, <2>4, <2>5, <2>6 DEF Settled
<1> USE DEF NewJob, WellFormed, Fits, SerialOps, DecideOps, CreateOps, IdentityOps, SessionOps,
        TargetOps
<1>3. UNCHANGED loaded => /\ loaded' \in [Workers -> Sessions \cup {None}]
                          /\ \A w \in Workers \ {v} : loaded'[w] = loaded[w]
  BY <1>1 DEF TypeOK
<1>4. ASSUME NEW u \in Targets, NEW r \in Requests, StartForgot(v, u, r)
      PROVE  Goal
  <2>1. NewJob("forgot", None, u, r, None, None) \in Jobs
    BY AccountsAssumption DEF Jobs, AllOps
  <2>2. QED
    BY <1>2, <1>3, <1>4, <2>1, AccountsAssumption DEF StartForgot
<1>5. ASSUME NEW op \in DecideOps, NEW u \in Users, NEW r \in Requests, StartDecide(v, op, u, r)
      PROVE  Goal
  <2>1. reset[r] # None /\ requester[r] \in Users
    BY <1>1, <1>5 DEF StartDecide, TypeOK
  <2>2. NewJob(op, u, requester[r], r, None, None) \in Jobs
    BY <2>1 DEF Jobs, AllOps
  <2>3. QED
    BY <1>2, <1>3, <1>5, <2>1, <2>2 DEF StartDecide
<1>6. ASSUME NEW op \in IdentityOps, NEW u \in Users, NEW t \in Targets,
             NEW newRole \in NewRoles \cup {None}, StartIdentity(v, op, u, t, newRole)
      PROVE  Goal
  <2>1. NewJob(op, u, t, None, None, newRole) \in Jobs
    BY AccountsAssumption DEF Jobs, AllOps
  <2>2. op = "changeRole" => newRole \in Roles
    BY <1>6, AccountsAssumption DEF StartIdentity
  <2>3. QED
    BY <1>2, <1>3, <1>6, <2>1, <2>2, AccountsAssumption DEF StartIdentity
<1>7. ASSUME NEW u \in Users, NEW t \in Users, NEW newRole \in NewRoles,
             StartCreate(v, u, t, newRole)
      PROVE  Goal
  <2>1. NewJob("create", u, t, None, None, newRole) \in Jobs
    BY AccountsAssumption DEF Jobs, AllOps
  <2>2. QED
    BY <1>2, <1>3, <1>7, <2>1, AccountsAssumption DEF StartCreate
<1>8. ASSUME NEW t \in Users, StartBootstrap(v, t)
      PROVE  Goal
  <2>1. NewJob("bootstrap", None, t, None, None, "ADMIN") \in Jobs
    BY DEF Jobs, AllOps, Roles
  <2>2. QED
    BY <1>2, <1>3, <1>8, <2>1 DEF StartBootstrap, Roles
<1>9. ASSUME NEW u \in Users, NEW k \in Keys, StartLogin(v, u, k)
      PROVE  Goal
  <2>1. NewJob("login", u, u, None, k, role[u]) \in Jobs
    BY <1>1 DEF Jobs, AllOps, TypeOK
  <2>2. [user |-> u, hash |-> password[u]] \in Sessions
    BY <1>1 DEF Sessions, TypeOK
  <2>3. /\ loaded' \in [Workers -> Sessions \cup {None}]
        /\ loaded'[v] \in Sessions
        /\ \A w \in Workers \ {v} : loaded'[w] = loaded[w]
    BY <1>1, <1>9, <2>2 DEF StartLogin, TypeOK
  <2>4. QED
    BY <1>2, <1>9, <2>1, <2>3 DEF StartLogin
<1>10. ASSUME NEW op \in SessionOps, NEW k \in Keys, StartVisit(v, op, k)
      PROVE  Goal
  <2>1. NewJob(op, None, None, None, k, None) \in Jobs
    BY DEF Jobs, AllOps
  <2>2. session[k] \in Sessions
    BY <1>1, <1>10 DEF StartVisit, TypeOK
  <2>3. /\ loaded' \in [Workers -> Sessions \cup {None}]
        /\ loaded'[v] \in Sessions
        /\ \A w \in Workers \ {v} : loaded'[w] = loaded[w]
    BY <1>1, <1>10, <2>2 DEF StartVisit, TypeOK
  <2>4. QED
    BY <1>2, <1>10, <2>1, <2>3 DEF StartVisit
<1>11. QED
  BY <1>4, <1>5, <1>6, <1>7, <1>8, <1>9, <1>10 DEF Start

\* The stages between the start and the commit, and the abandoned requests.
Between(w) ==
  \/ LockRequester(w) \/ LookUpOpenRequest(w) \/ LockRequest(w)
  \/ TakeIdentityLock(w) \/ LockTarget(w) \/ Fail(w)

\* A step that only moves its worker on, perhaps with one lock more.
LEMMA MoveIsOwn ==
  ASSUME TypeOK, NEW v \in Workers, pc[v] # "idle", NEW stage \in Stages \ {"idle"},
         Goto(v, stage), UNCHANGED <<job, loaded>>,
         doomed' \in [Workers -> SUBSET Keys],
         userLock' \in [Users -> Workers \cup {None}], Hands(userLock, v),
         requestLock' \in [Requests -> Workers \cup {None}], Hands(requestLock, v),
         identityLock' \in Workers \cup {None},
         identityLock' = identityLock \/ {identityLock, identityLock'} \subseteq {v, None}
  PROVE  OwnStep(v) /\ pc'[v] = stage /\ job'[v] = job[v] /\ loaded'[v] = loaded[v]
<1>1. WorkTypeOK'
  BY DEF Goto, WorkTypeOK, TypeOK
<1>2. QED
  BY <1>1 DEF Goto, OwnStep, TypeOK

\* They write no row, and what they check they keep a lock for.
LEMMA BetweenIsOwn ==
  ASSUME IInv, NEW v \in Workers, Between(v)
  PROVE  /\ OwnStep(v)
         /\ UNCHANGED rowVars
         /\ pc'[v] # "idle" => pc[v] # "idle" /\ job'[v] = job[v]
         /\ Settled(v)'
<1> DEFINE Goal ==
         /\ OwnStep(v)
         /\ UNCHANGED rowVars
         /\ pc'[v] # "idle" => pc[v] # "idle" /\ job'[v] = job[v]
         /\ Settled(v)'
<1>1. TypeOK /\ Settled(v)
  BY DEF IInv
<1>2. ASSUME EndRequest(v), UNCHANGED rowVars
      PROVE  Goal
  BY <1>1, <1>2, EndIsOwn
<1> USE DEF Settled, Shaped, Known, Secured, Owns, Submitting, Recording, Deciding, Serial,
        Changing, Fits, SerialOps, TargetOps, DecideOps, CreateOps, IdentityOps, SessionOps
<1>3. None \notin Workers
  BY AccountsAssumption
<1>4. CASE LockRequester(v)
  <2> DEFINE u == job[v].target
  <2>1. CASE active[u] /\ userLock' = [userLock EXCEPT ![u] = v] /\ Goto(v, "lookup")
             /\ UNCHANGED <<requestLock, identityLock, job, loaded, doomed>>
    <3>1. pc[v] = "lockUser" /\ Free(userLock[u], v) /\ u \in Users /\ UNCHANGED rowVars
      BY <1>1, <1>4 DEF LockRequester, WellFormed
    <3>2. OwnStep(v) /\ pc'[v] = "lookup" /\ job'[v] = job[v] /\ loaded'[v] = loaded[v]
      BY <1>1, <2>1, <3>1, MoveIsOwn DEF Hands, Free, TypeOK, Stages
    <3>3. userLock'[u] = v
      BY <1>1, <2>1, <3>1 DEF TypeOK
    <3>4. Settled(v)'
      BY <1>1, <1>3, <2>1, <3>1, <3>2, <3>3
      DEF rowVars, userVars, resetVars, sessionVars, TypeOK
    <3>5. QED
      BY <3>1, <3>2, <3>4
  <2>2. QED
    BY <1>2, <1>4, <2>1 DEF LockRequester
<1>5. CASE LookUpOpenRequest(v)
  <2>1. CASE OpenRequests(job[v].target) = {} /\ Goto(v, "commit")
             /\ UNCHANGED <<lockVars, job, loaded, doomed>>
    <3>1. pc[v] = "lookup" /\ UNCHANGED <<userLock, requestLock, identityLock>>
          /\ UNCHANGED rowVars
      BY <1>5, <2>1 DEF LookUpOpenRequest, lockVars
    <3>2. OwnStep(v) /\ pc'[v] = "commit" /\ job'[v] = job[v] /\ loaded'[v] = loaded[v]
      BY <1>1, <2>1, <3>1, MoveIsOwn DEF Hands, TypeOK, Stages
    <3>3. Settled(v)'
      BY <1>1, <1>3, <2>1, <3>1, <3>2
      DEF rowVars, userVars, resetVars, sessionVars, OpenRequests
    <3>4. QED
      BY <3>1, <3>2, <3>3
  <2>2. QED
    BY <1>2, <1>5, <2>1 DEF LookUpOpenRequest
<1>6. CASE LockRequest(v)
  <2> DEFINE r == job[v].request
  <2>1. CASE reset[r] = "OPEN" /\ requestLock' = [requestLock EXCEPT ![r] = v]
             /\ Goto(v, AfterLockRequest(job[v].op))
             /\ UNCHANGED <<userLock, identityLock, job, loaded, doomed>>
    <3>1. pc[v] = "lockRequest" /\ Free(requestLock[r], v) /\ r \in Requests /\ UNCHANGED rowVars
          /\ job[v].op \in DecideOps
      BY <1>1, <1>6 DEF LockRequest, WellFormed
    <3>2. AfterLockRequest(job[v].op) \in Stages \ {"idle"}
      BY DEF AfterLockRequest, Stages
    <3>3. OwnStep(v) /\ pc'[v] = AfterLockRequest(job[v].op) /\ job'[v] = job[v]
          /\ loaded'[v] = loaded[v]
      BY <1>1, <2>1, <3>1, <3>2, MoveIsOwn DEF Hands, Free, TypeOK
    <3>4. requestLock'[r] = v
      BY <1>1, <2>1, <3>1 DEF TypeOK
    <3>5. Settled(v)'
      BY <1>1, <1>3, <2>1, <3>1, <3>3, <3>4
      DEF rowVars, userVars, resetVars, sessionVars, TypeOK, AfterLockRequest
    <3>6. QED
      BY <3>1, <3>3, <3>5
  <2>2. QED
    BY <1>2, <1>6, <2>1 DEF LockRequest
<1>7. CASE TakeIdentityLock(v)
  <2>1. CASE Entitled(job[v]) /\ identityLock' = v
             /\ Goto(v, AfterIdentityLock(job[v].op))
             /\ UNCHANGED <<userLock, requestLock, job, loaded, doomed>>
    <3>1. pc[v] = "identityLock" /\ Free(identityLock, v) /\ UNCHANGED rowVars
          /\ job[v].op \in SerialOps
      BY <1>1, <1>7 DEF TakeIdentityLock
    <3>2. AfterIdentityLock(job[v].op) \in Stages \ {"idle"}
      BY DEF AfterIdentityLock, Stages
    <3>3. OwnStep(v) /\ pc'[v] = AfterIdentityLock(job[v].op) /\ job'[v] = job[v]
          /\ loaded'[v] = loaded[v]
      BY <1>1, <2>1, <3>1, <3>2, MoveIsOwn DEF Hands, Free, TypeOK
    <3>4. Entitled(job[v])'
      BY <2>1, <3>1, <3>3 DEF Entitled, HasRole, Admins, rowVars, userVars
    <3>5. Settled(v)'
      BY <1>1, <1>3, <2>1, <3>1, <3>3, <3>4
      DEF rowVars, userVars, resetVars, sessionVars, TypeOK, AfterIdentityLock
    <3>6. QED
      BY <3>1, <3>3, <3>5
  <2>2. QED
    BY <1>2, <1>7, <2>1 DEF TakeIdentityLock
<1>8. CASE LockTarget(v)
  <2> DEFINE t == job[v].target
  <2>1. CASE AdmitsIdentity(job[v]) /\ userLock' = [userLock EXCEPT ![t] = v]
             /\ Goto(v, "commit") /\ ~EndRequest(v)
    <3>1. pc[v] = "lockTarget" /\ Free(userLock[t], v) /\ t \in Users /\ UNCHANGED rowVars
          /\ UNCHANGED <<requestLock, identityLock, job, loaded>>
      BY <1>1, <1>8, <2>1 DEF LockTarget, WellFormed
    <3>2. doomed' \in [Workers -> SUBSET Keys]
      BY <1>1, <1>8, <2>1 DEF LockTarget, SessionsOf, TypeOK
    <3>3. OwnStep(v) /\ pc'[v] = "commit" /\ job'[v] = job[v] /\ loaded'[v] = loaded[v]
      BY <1>1, <2>1, <3>1, <3>2, MoveIsOwn DEF Hands, Free, TypeOK, Stages
    <3>4. userLock'[t] = v
      BY <1>1, <2>1, <3>1 DEF TypeOK
    <3>5. AdmitsIdentity(job[v])' /\ (Entitled(job[v]) => Entitled(job[v])')
      BY <2>1, <3>1 DEF AdmitsIdentity, IsLastAdmin, Entitled, HasRole, Admins, rowVars, userVars
    <3>6. Settled(v)'
      BY <1>1, <1>3, <2>1, <3>1, <3>3, <3>4, <3>5
      DEF rowVars, userVars, resetVars, sessionVars, TypeOK
    <3>7. QED
      BY <3>1, <3>3, <3>6
  <2>2. QED
    BY <1>2, <1>8, <2>1 DEF LockTarget
<1>9. CASE Fail(v)
  BY <1>2, <1>9 DEF Fail
<1>10. QED
  BY <1>4, <1>5, <1>6, <1>7, <1>8, <1>9 DEF Between

-----------------------------------------------------------------------------
(* What a step of one worker can write.                                    *)

RowTypeOK ==
  /\ role \in [Users -> Roles \cup {None}]
  /\ active \in [Users -> BOOLEAN]
  /\ password \in [Users -> Versions]
  /\ staff \in [Users -> BOOLEAN]
  /\ reset \in [Requests -> ResetStates \cup {None}]
  /\ requester \in [Requests -> Users \cup {None}]
  /\ resolver \in [Requests -> Users \cup {None}]
  /\ session \in [Keys -> Sessions \cup {None}]
  /\ issued \subseteq Keys
  /\ \A r \in Requests :
       /\ reset[r] \in {"RESOLVED", "REJECTED"} <=> resolver[r] # None
       /\ reset[r] # None <=> requester[r] # None

LEMMA TypeOKIsBoth == TypeOK <=> RowTypeOK /\ WorkTypeOK
  BY DEF TypeOK, RowTypeOK, WorkTypeOK

SameUser(u) == role'[u] = role[u] /\ active'[u] = active[u] /\ password'[u] = password[u]

SameReset(r) ==
  reset'[r] = reset[r] /\ requester'[r] = requester[r] /\ resolver'[r] = resolver[r]

Registering(v) == pc[v] = "commit" /\ job[v].op \in SerialOps

\* An account changes under the advisory lock and never disappears; a reset
\* request is recorded by a submission and changed by a decision; a session key
\* is issued by a login.
Effects(v) ==
  /\ \A u \in Users : SameUser(u) \/ (Registering(v) /\ job[v].target = u)
  /\ \A u \in Users : /\ role[u] # None => role'[u] # None
                      /\ active'[u] => role'[u] # None
  /\ \A r \in Requests :
       \/ SameReset(r)
       \/ /\ pc[v] = "commit" /\ Deciding(v) /\ job[v].request = r
          /\ requester'[r] = requester[r] /\ reset'[r] \in {"RESOLVED", "REJECTED"}
       \/ /\ Recording(v) /\ job[v].request = r
          /\ requester'[r] = job[v].target /\ reset'[r] = "OPEN"
  /\ \A k \in issued' : k \in issued \/ (pc[v] = "open" /\ job[v].op = "login" /\ job[v].key = k)

LEMMA NoEffect ==
  ASSUME IInv, NEW v \in Workers, UNCHANGED rowVars
  PROVE  RowTypeOK' /\ Effects(v)
<1>1. RowTypeOK /\ ActiveExists
  BY TypeOKIsBoth DEF IInv
<1>2. QED
  BY <1>1 DEF RowTypeOK, Effects, SameUser, SameReset, ActiveExists,
     rowVars, userVars, resetVars, sessionVars

\* Saving one account under the advisory lock.
LEMMA AccountEffect ==
  ASSUME IInv, NEW v \in Workers, NEW t \in Users, Registering(v), job[v].target = t,
         role' \in [Users -> Roles \cup {None}], active' \in [Users -> BOOLEAN],
         \A u \in Users \ {t} : SameUser(u),
         role'[t] # None, issued' = issued,
         \A r \in Requests :
           \/ SameReset(r)
           \/ /\ Deciding(v) /\ job[v].request = r
              /\ requester'[r] = requester[r] /\ reset'[r] \in {"RESOLVED", "REJECTED"}
  PROVE  Effects(v)
  BY DEF Effects, SameUser, Registering, IInv, ActiveExists

LEMMA CommitEffect ==
  ASSUME IInv, NEW v \in Workers, Commit(v)
  PROVE  RowTypeOK' /\ Effects(v)
<1> DEFINE j == job[v]
           t == j.target
           r == j.request
<1>1. /\ RowTypeOK /\ WellFormed(j) /\ Known(v) /\ Secured(v) /\ pc[v] = "commit"
      /\ Fits(j.op, "commit")
  BY TypeOKIsBoth DEF IInv, Settled, Shaped, Commit, Committing, CommitForgot, CommitResolve,
     CommitReject, CommitCreate, CommitBootstrap, CommitSetPassword, CommitActivate,
     CommitDeactivate, CommitChangeRole
<1>2. None \notin Users /\ None \notin Roles /\ None \notin ResetStates
  BY AccountsAssumption
<1>3. /\ "OPEN" # None /\ "RESOLVED" # None /\ "REJECTED" # None
      /\ "CLIENT" # None
  BY <1>2 DEF ResetStates, Roles
<1>4. session \in [Keys -> Sessions \cup {None}] /\ DeleteDoomed(v)
        => session' \in [Keys -> Sessions \cup {None}] /\ issued' = issued
  BY DEF DeleteDoomed
<1>5. password[t] < MaxVersion /\ t \in Users => password[t] + 1 \in Versions
  BY <1>1, AccountsAssumption DEF RowTypeOK, Versions
<1> USE DEF SerialOps, TargetOps, DecideOps, CreateOps, IdentityOps, WellFormed, SameUser,
        SameReset, Committing, SaveRole, RowTypeOK
<1>6. CASE CommitForgot(v)
  <2>1. j.op = "forgot" /\ t \in Users /\ r \in Requests /\ reset[r] = None /\ active[t]
    BY <1>1, <1>6 DEF CommitForgot, Known, Secured, Submitting
  <2>2. RowTypeOK'
    BY <1>1, <1>2, <1>3, <1>6, <2>1 DEF CommitForgot, userVars, sessionVars, ResetStates
  <2>3. Effects(v)
    BY <1>1, <1>6, <2>1
    DEF CommitForgot, Effects, Recording, userVars, sessionVars, IInv, ActiveExists
  <2>4. QED
    BY <2>2, <2>3
<1>7. CASE CommitReject(v)
  <2>1. j.op = "reject" /\ r \in Requests /\ j.actor \in Users /\ reset[r] = "OPEN"
        /\ Deciding(v)
    BY <1>1, <1>7 DEF CommitReject, Secured, Deciding
  <2>2. RowTypeOK'
    BY <1>1, <1>2, <1>3, <1>7, <2>1 DEF CommitReject, userVars, sessionVars, ResetStates
  <2>3. Effects(v)
    BY <1>1, <1>7, <2>1
    DEF CommitReject, Effects, userVars, sessionVars, IInv, ActiveExists
  <2>4. QED
    BY <2>2, <2>3
<1>8. CASE CommitResolve(v)
  <2>1. j.op = "resolve" /\ r \in Requests /\ j.actor \in Users /\ t \in Users
        /\ reset[r] = "OPEN" /\ Deciding(v) /\ Entitled(j) /\ AdmitsIdentity(j)
        /\ requester[r] = t
    BY <1>1, <1>8 DEF CommitResolve, Secured, Deciding, Changing, Serial, Known
  <2>2. password[t] < MaxVersion
    BY <2>1 DEF AdmitsIdentity
  <2>3. RowTypeOK'
    BY <1>1, <1>2, <1>3, <1>4, <1>5, <1>8, <2>1, <2>2
    DEF CommitResolve, SavePassword, ResetStates
  <2>4. QED
    BY <1>1, <1>4, <1>8, <2>1, <2>3
    DEF CommitResolve, SavePassword, Effects, Registering, IInv, ActiveExists
<1>9. CASE CommitSetPassword(v)
  <2>1. j.op = "setPassword" /\ t \in Users /\ AdmitsIdentity(j)
    BY <1>1, <1>9 DEF CommitSetPassword, Secured, Changing
  <2>2. password[t] < MaxVersion
    BY <2>1 DEF AdmitsIdentity
  <2>3. RowTypeOK'
    BY <1>1, <1>2, <1>4, <1>5, <1>9, <2>1, <2>2
    DEF CommitSetPassword, SavePassword, resetVars
  <2>4. QED
    BY <1>1, <1>4, <1>9, <2>1, <2>3
    DEF CommitSetPassword, SavePassword, resetVars, Effects, Registering, IInv, ActiveExists
<1>10. CASE CommitCreate(v) \/ CommitBootstrap(v)
  <2>1. j.op \in CreateOps /\ t \in Users /\ j.role \in Roles /\ Registering(v)
    BY <1>1, <1>10 DEF CommitCreate, CommitBootstrap, Registering
  <2>2. RowTypeOK'
    <3>1. UNCHANGED <<password, resetVars, sessionVars>>
      BY <1>10 DEF CommitCreate, CommitBootstrap
    <3>2. role' \in [Users -> Roles \cup {None}]
      BY <1>1, <1>10, <2>1 DEF CommitCreate, CommitBootstrap
    <3>3. active' \in [Users -> BOOLEAN] /\ staff' \in [Users -> BOOLEAN]
      BY <1>1, <1>10, <2>1 DEF CommitCreate, CommitBootstrap
    <3>4. QED
      BY <1>1, <3>1, <3>2, <3>3 DEF resetVars, sessionVars
  <2>3. /\ role'[t] # None /\ issued' = issued
        /\ \A u \in Users \ {t} : SameUser(u)
        /\ \A q \in Requests : SameReset(q)
    BY <1>1, <1>2, <1>10, <2>1
    DEF CommitCreate, CommitBootstrap, resetVars, sessionVars
  <2>4. Effects(v)
    BY <2>1, <2>2, <2>3, AccountEffect
  <2>5. QED
    BY <2>2, <2>4
<1>11. CASE CommitActivate(v) \/ CommitDeactivate(v) \/ CommitChangeRole(v)
  <2>1. j.op \in IdentityOps /\ t \in Users /\ Registering(v) /\ role[t] # None
        /\ (CommitChangeRole(v) => j.role \in Roles)
    BY <1>1, <1>11
    DEF CommitActivate, CommitDeactivate, CommitChangeRole, Registering, Known
  <2>2. RowTypeOK'
    BY <1>1, <1>2, <1>4, <1>11, <2>1
    DEF CommitActivate, CommitDeactivate, CommitChangeRole, resetVars, sessionVars
  <2>3. Effects(v)
    BY <1>1, <1>2, <1>4, <1>11, <2>1, <2>2, AccountEffect
    DEF CommitActivate, CommitDeactivate, CommitChangeRole, resetVars, sessionVars
  <2>4. QED
    BY <2>2, <2>3
<1>12. QED
  BY <1>6, <1>7, <1>8, <1>9, <1>10, <1>11 DEF Commit

\* The statements of a login and the requests with a session.
Session(w) == Stamp(w) \/ OpenSession(w) \/ Verify(w) \/ SavePage(w) \/ Logout(w)

LEMMA SessionEffect ==
  ASSUME IInv, NEW v \in Workers, Session(v)
  PROVE  /\ OwnStep(v)
         /\ pc'[v] # "idle" => pc[v] # "idle" /\ job'[v] = job[v]
         /\ Settled(v)'
         /\ RowTypeOK'
         /\ Effects(v)
<1> DEFINE j == job[v]
<1>1. TypeOK /\ RowTypeOK /\ Settled(v) /\ ActiveExists
  BY TypeOKIsBoth DEF IInv
<1>2. EndRequest(v) => /\ OwnStep(v)
                       /\ pc'[v] # "idle" => pc[v] # "idle" /\ job'[v] = job[v]
                       /\ Settled(v)'
  BY <1>1, EndIsOwn
<1>3. ASSUME UNCHANGED <<role, active, password, resetVars, issued>>
      PROVE  Effects(v)
  BY <1>1, <1>3 DEF Effects, SameUser, SameReset, resetVars, ActiveExists
<1>4. CASE Stamp(v)
  <2>1. OwnStep(v) /\ pc'[v] = "open" /\ job'[v] = j /\ loaded'[v] = loaded[v]
    BY <1>1, <1>4, MoveIsOwn DEF Stamp, Hands, TypeOK, Stages, lockVars
  <2>2. RowTypeOK'
    <3>1. UNCHANGED <<role, active, password, resetVars, sessionVars>>
          /\ staff' \in [Users -> BOOLEAN]
      BY <1>1, <1>4 DEF Stamp, RowTypeOK
    <3>2. QED
      BY <1>1, <3>1 DEF RowTypeOK, resetVars, sessionVars
  <2>3. Effects(v)
    BY <1>3, <1>4 DEF Stamp, sessionVars
  <2>4. Shaped(v)' /\ Known(v)'
    BY <1>1, <1>4, <2>1
    DEF Stamp, Settled, Shaped, Known, Fits, resetVars, sessionVars, SessionOps, SerialOps,
        TargetOps, DecideOps, CreateOps, IdentityOps
  <2>5. Secured(v)'
    BY <2>1 DEF Secured, Submitting, Recording, Deciding, Serial, Changing
  <2>6. Owns(v)'
    BY <1>1, <1>4, <2>1 DEF Stamp, Settled, Owns, lockVars
  <2>7. QED
    BY <1>1, <1>4, <2>1, <2>2, <2>3, <2>4, <2>5, <2>6 DEF Settled, Stamp
<1>5. CASE OpenSession(v)
  <2>1. j.op = "login" /\ j.key \in Keys /\ loaded[v] \in Sessions
    BY <1>1, <1>5
    DEF OpenSession, Settled, Shaped, Fits, WellFormed, SerialOps, TargetOps, DecideOps,
        CreateOps, IdentityOps, SessionOps
  <2>2. RowTypeOK'
    BY <1>1, <1>5, <2>1 DEF OpenSession, RowTypeOK, userVars, resetVars
  <2>3. Effects(v)
    BY <1>1, <1>5, <2>1
    DEF OpenSession, Effects, SameUser, SameReset, userVars, resetVars, ActiveExists
  <2>4. QED
    BY <1>2, <1>5, <2>2, <2>3 DEF OpenSession
<1>6. CASE Verify(v)
  <2>1. RowTypeOK'
    BY <1>1, <1>6 DEF Verify, RowTypeOK, userVars, resetVars
  <2>2. Effects(v)
    BY <1>3, <1>6 DEF Verify, userVars
  <2>3. CASE EndRequest(v)
    BY <1>2, <2>1, <2>2, <2>3
  <2>4. CASE ~EndRequest(v)
    <3>1. pc[v] = "verify" /\ Goto(v, "serve")
          /\ UNCHANGED <<userLock, requestLock, identityLock, job, loaded, doomed>>
          /\ UNCHANGED <<userVars, resetVars, issued>>
      BY <1>6, <2>4 DEF Verify, lockVars
    <3>2. OwnStep(v) /\ pc'[v] = "serve" /\ job'[v] = j /\ loaded'[v] = loaded[v]
      BY <1>1, <3>1, MoveIsOwn DEF Hands, TypeOK, Stages
    <3>3. Shaped(v)' /\ Known(v)'
      BY <1>1, <3>1, <3>2
      DEF Settled, Shaped, Known, Fits, userVars, resetVars, SessionOps, SerialOps,
          TargetOps, DecideOps, CreateOps, IdentityOps
    <3>4. Secured(v)'
      BY <3>2 DEF Secured, Submitting, Recording, Deciding, Serial, Changing
    <3>5. Owns(v)'
      BY <1>1, <3>1, <3>2 DEF Settled, Owns
    <3>6. QED
      BY <2>1, <2>2, <3>1, <3>2, <3>3, <3>4, <3>5 DEF Settled
  <2>5. QED
    BY <2>3, <2>4
<1>7. CASE SavePage(v) \/ Logout(v)
  <2>1. loaded[v] \in Sessions
    BY <1>1, <1>7
    DEF SavePage, Logout, Settled, Shaped, SessionOps
  <2>2. RowTypeOK'
    BY <1>1, <1>7, <2>1 DEF SavePage, Logout, RowTypeOK, userVars, resetVars
  <2>3. Effects(v)
    BY <1>3, <1>7 DEF SavePage, Logout, userVars
  <2>4. QED
    BY <1>2, <1>7, <2>2, <2>3 DEF SavePage, Logout
<1>8. QED
  BY <1>4, <1>5, <1>6, <1>7 DEF Session

\* Every step.
LEMMA StepIsOwn ==
  ASSUME IInv, NEW v \in Workers, Step(v)
  PROVE  /\ OwnStep(v)
         /\ Settled(v)'
         /\ \A w \in Workers \ {v} : Apart(v, w)' /\ Apart(w, v)'
         /\ RowTypeOK'
         /\ Effects(v)
<1>1. ASSUME OwnStep(v), pc'[v] # "idle" => pc[v] # "idle" /\ job'[v] = job[v]
      PROVE  \A w \in Workers \ {v} : Apart(v, w)' /\ Apart(w, v)'
  BY <1>1 DEF IInv, Distinct, Apart, OwnStep
<1>2. CASE Start(v)
  BY <1>2, StartIsOwn, NoEffect
<1>3. CASE Between(v)
  BY <1>1, <1>3, BetweenIsOwn, NoEffect
<1>4. CASE Commit(v)
  <2>1. EndRequest(v)
    BY <1>4
    DEF Commit, Committing, CommitForgot, CommitResolve, CommitReject, CommitCreate,
        CommitBootstrap, CommitSetPassword, CommitActivate, CommitDeactivate, CommitChangeRole
  <2>2. OwnStep(v) /\ pc'[v] = "idle" /\ Settled(v)'
    BY <2>1, EndIsOwn DEF IInv
  <2>3. QED
    BY <1>1, <1>4, <2>2, CommitEffect
<1>5. CASE Session(v)
  BY <1>1, <1>5, SessionEffect
<1>6. QED
  BY <1>2, <1>3, <1>4, <1>5 DEF Step, Work, Between, Session

-----------------------------------------------------------------------------
(* The invariant.                                                          *)

\* The other workers: the locks they hold keep what they found true.
LEMMA OtherStepSettled ==
  ASSUME IInv, NEW v \in Workers, NEW w \in Workers \ {v}, Step(v)
  PROVE  Settled(w)'
<1> DEFINE j == job[w]
           t == j.target
           r == j.request
<1>1. TypeOK /\ Settled(w) /\ Settled(v) /\ Apart(w, v) /\ None \notin Workers
  BY AccountsAssumption DEF IInv, Distinct
<1>2. OwnStep(v) /\ Effects(v)
  BY StepIsOwn
<1>3. /\ pc'[w] = pc[w] /\ job'[w] = j /\ loaded'[w] = loaded[w]
      /\ identityLock' = w <=> identityLock = w
      /\ \A u \in Users : userLock'[u] = w <=> userLock[u] = w
      /\ \A q \in Requests : requestLock'[q] = w <=> requestLock[q] = w
  BY <1>1, <1>2 DEF OwnStep, Hands, TypeOK
<1>4. Shaped(w)'
  BY <1>1, <1>3 DEF Settled, Shaped
<1>5. Owns(w)'
  BY <1>1, <1>3 DEF Settled, Owns
<1>6. pc[w] # "idle" => WellFormed(j) /\ Fits(j.op, pc[w])
  BY <1>1 DEF Settled, Shaped
<1> USE DEF SerialOps, TargetOps, DecideOps, CreateOps, IdentityOps
<1>7. Known(w)'
  <2>1. ASSUME pc[w] # "idle", j.op \in IdentityOps
        PROVE  role'[t] # None
    BY <1>1, <1>2, <1>6, <2>1 DEF Settled, Known, Effects, WellFormed
  <2>2. ASSUME pc[w] # "idle", j.op \in DecideOps
        PROVE  reset'[r] # None /\ requester'[r] = t
    <3>1. r \in Requests /\ reset[r] # None /\ requester[r] = t
      BY <1>1, <1>6, <2>2 DEF Settled, Known, WellFormed
    <3>2. ~(Recording(v) /\ job[v].request = r)
      BY <1>1, <3>1 DEF Settled, Known, Recording
    <3>3. QED
      BY <1>2, <3>1, <3>2, AccountsAssumption DEF Effects, SameReset, ResetStates
  <2>3. ASSUME pc[w] # "idle", j.op = "forgot"
        PROVE  reset'[r] = None
    <3>1. r \in Requests /\ reset[r] = None
      BY <1>1, <1>6, <2>3 DEF Settled, Known, WellFormed
    <3>2. ~(Recording(v) /\ job[v].request = r)
      BY <1>1, <2>3 DEF Recording, Apart
    <3>3. ~(Deciding(v) /\ job[v].request = r)
      BY <1>1, <3>1 DEF Settled, Known, Deciding
    <3>4. QED
      BY <1>2, <3>1, <3>2, <3>3 DEF Effects, SameReset
  <2>4. ASSUME pc[w] # "idle", j.op = "login", j.key \in issued'
        PROVE  FALSE
    <3>1. j.key \notin issued
      BY <1>1, <2>4 DEF Settled, Known
    <3>2. job[v].op = "login" /\ job[v].key = j.key
      BY <1>2, <2>4, <3>1 DEF Effects
    <3>3. pc[v] # "idle"
      BY <1>1, <1>2, <2>4, <3>1 DEF Effects
    <3>4. QED
      BY <1>1, <2>4, <3>2, <3>3 DEF Apart
  <2>5. QED
    BY <1>3, <2>1, <2>2, <2>3, <2>4 DEF Known
<1>8. Secured(w)'
  <2>1. ASSUME Submitting(w)
        PROVE  userLock'[t] = w /\ active'[t]
    <3>1. t \in Users /\ userLock[t] = w /\ active[t]
      BY <1>1, <1>6, <2>1 DEF Settled, Secured, WellFormed, Submitting, Fits, SessionOps
    <3>2. ~(Registering(v) /\ job[v].target = t)
      <4>1. ASSUME Registering(v), job[v].target = t
            PROVE  FALSE
        <5>1. userLock[t] # v
          BY <1>1, <3>1
        <5>2. job[v].op \in CreateOps
          BY <1>1, <4>1, <5>1 DEF Settled, Secured, Changing, Registering
        <5>3. role[t] = None
          BY <1>1, <4>1, <5>2 DEF Settled, Secured, Serial, Registering, Entitled
        <5>4. QED
          BY <3>1, <5>3 DEF IInv, ActiveExists
      <4>2. QED
        BY <4>1
    <3>3. QED
      BY <1>2, <1>3, <3>1, <3>2 DEF Effects, SameUser
  <2>2. ASSUME Recording(w)
        PROVE  OpenRequests(t)' = {}
    <3>1. t \in Users /\ userLock[t] = w /\ OpenRequests(t) = {}
      BY <1>1, <1>6, <2>2 DEF Settled, Secured, WellFormed, Recording, Submitting
    <3>2. Recording(v) => userLock[job[v].target] = v
      BY <1>1 DEF Settled, Secured, Recording, Submitting
    <3>3. ASSUME NEW q \in Requests, reset'[q] = "OPEN", requester'[q] = t
          PROVE  FALSE
      <4>1. SameReset(q)
        BY <1>1, <1>2, <3>1, <3>2, <3>3 DEF Effects
      <4>2. QED
        BY <3>1, <3>3, <4>1 DEF SameReset, OpenRequests
    <3>4. QED
      BY <1>3, <3>3 DEF OpenRequests
  <2>3. ASSUME Deciding(w)
        PROVE  requestLock'[r] = w /\ reset'[r] = "OPEN"
    <3>1. r \in Requests /\ requestLock[r] = w /\ reset[r] = "OPEN"
      BY <1>1, <1>6, <2>3 DEF Settled, Secured, WellFormed, Deciding
    <3>2. ~(Deciding(v) /\ job[v].request = r)
      BY <1>1, <3>1 DEF Settled, Secured
    <3>3. QED
      BY <1>2, <1>3, <3>1, <3>2 DEF Effects, SameReset
  <2>4. ASSUME Serial(w)
        PROVE  /\ identityLock' = w
               /\ \A u \in Users : SameUser(u)
               /\ Entitled(j)'
    <3>1. identityLock = w /\ Entitled(j)
      BY <1>1, <2>4 DEF Settled, Secured
    <3>2. ~Registering(v)
      BY <1>1, <3>1 DEF Settled, Secured, Serial, Registering
    <3>3. \A u \in Users : SameUser(u)
      BY <1>2, <3>2 DEF Effects
    <3>4. j.op # "bootstrap" => j.actor \in Users
      BY <1>6, <2>4 DEF Serial, WellFormed, Fits, SessionOps
    <3>5. j.target \in Users
      BY <1>6, <2>4 DEF Serial, WellFormed, Fits, SessionOps
    <3>6. Admins' = Admins
      BY <3>3 DEF Admins, SameUser
    <3>7. Entitled(j)'
      BY <1>3, <3>1, <3>3, <3>4, <3>5, <3>6 DEF Entitled, HasRole, SameUser
    <3>8. QED
      BY <1>3, <3>1, <3>3, <3>7
  <2>5. ASSUME Changing(w)
        PROVE  userLock'[t] = w /\ AdmitsIdentity(j)'
    <3>1. t \in Users /\ userLock[t] = w /\ AdmitsIdentity(j)
      BY <1>1, <1>6, <2>5 DEF Settled, Secured, WellFormed, Changing
    <3>2. \A u \in Users : SameUser(u)
      BY <2>4, <2>5 DEF Serial, Changing
    <3>3. {a \in Users : HasRole(a, "ADMIN")}' = {a \in Users : HasRole(a, "ADMIN")}
      BY <3>2 DEF SameUser, HasRole
    <3>4. QED
      BY <1>3, <3>1, <3>2, <3>3 DEF AdmitsIdentity, IsLastAdmin, HasRole, SameUser
  <2>6. QED
    BY <1>3, <2>1, <2>2, <2>3, <2>4, <2>5
    DEF Secured, Submitting, Recording, Deciding, Serial, Changing
<1>9. QED
  BY <1>4, <1>5, <1>7, <1>8 DEF Settled

LEMMA InitIInv == Init => IInv
<1> SUFFICES ASSUME Init
             PROVE  IInv
  OBVIOUS
<1>1. TypeOK
  BY AccountsAssumption DEF Init, TypeOK, Versions, Stages, ResetStates
<1>2. \A w \in Workers : Settled(w)
  BY AccountsAssumption
  DEF Init, Settled, Shaped, Known, Secured, Owns, Submitting, Recording, Deciding,
      Serial, Changing
<1>3. Distinct
  BY DEF Init, Distinct, Apart
<1>4. ActiveExists
  BY DEF Init, ActiveExists
<1>5. SameOpen
  BY AccountsAssumption DEF Init, SameOpen, OpenRequests, ResetStates
<1>6. QED
  BY <1>1, <1>2, <1>3, <1>4, <1>5 DEF IInv

LEMMA NextKeepsIInv == IInv /\ [Next]_vars => IInv'
<1>1. ASSUME IInv, NEW v \in Workers, Step(v)
      PROVE  IInv'
  <2>1. OwnStep(v) /\ RowTypeOK' /\ Effects(v)
    BY <1>1, StepIsOwn
  <2>2. TypeOK'
    BY <2>1 DEF OwnStep, TypeOK, RowTypeOK, WorkTypeOK
  <2>3. \A w \in Workers : Settled(w)'
    BY <1>1, StepIsOwn, OtherStepSettled
  <2>4. Distinct'
    <3>1. ASSUME NEW w \in Workers, NEW u \in Workers \ {w}
          PROVE  Apart(w, u)'
      <4>1. CASE v \in {w, u}
        BY <1>1, <4>1, StepIsOwn
      <4>2. CASE v \notin {w, u}
        BY <1>1, <2>1, <4>2 DEF OwnStep, Apart, IInv, Distinct
      <4>3. QED
        BY <4>1, <4>2
    <3>2. QED
      BY <3>1 DEF Distinct
  <2>5. ActiveExists'
    BY <2>1 DEF Effects, ActiveExists
  <2>6. SameOpen'
    <3>1. ASSUME NEW u \in Users, NEW r \in OpenRequests(u)', NEW q \in OpenRequests(u)'
          PROVE  r = q
      <4>1. /\ r \in Requests /\ reset'[r] = "OPEN" /\ requester'[r] = u
            /\ q \in Requests /\ reset'[q] = "OPEN" /\ requester'[q] = u
        BY <3>1 DEF OpenRequests
      <4>2. ASSUME NEW x \in Requests, reset'[x] = "OPEN"
            PROVE  SameReset(x) \/ (Recording(v) /\ job[v].request = x
                                      /\ requester'[x] = job[v].target)
        BY <2>1, <4>2 DEF Effects
      <4>3. ASSUME NEW x \in Requests, SameReset(x), reset'[x] = "OPEN", requester'[x] = u
            PROVE  x \in OpenRequests(u)
        BY <4>3 DEF SameReset, OpenRequests
      <4>4. Recording(v) => OpenRequests(job[v].target) = {}
        BY <1>1 DEF IInv, Settled, Secured
      <4>5. r \in OpenRequests(u) /\ q \in OpenRequests(u) => r = q
        BY <1>1 DEF IInv, SameOpen
      <4>6. QED
        BY <4>1, <4>2, <4>3, <4>4, <4>5
    <3>2. QED
      BY <3>1 DEF SameOpen
  <2>7. QED
    BY <2>2, <2>3, <2>4, <2>5, <2>6 DEF IInv
<1>2. ASSUME IInv, UNCHANGED vars
      PROVE  IInv'
  <2> USE <1>2 DEF vars, rowVars, userVars, resetVars, sessionVars, lockVars, workVars, IInv
  <2>1. TypeOK'
    BY DEF TypeOK
  <2>2. ASSUME NEW w \in Workers
        PROVE  Settled(w)'
    <3>1. /\ Shaped(w)' <=> Shaped(w)
          /\ Known(w)' <=> Known(w)
          /\ Owns(w)' <=> Owns(w)
      BY DEF Shaped, Known, Owns
    <3>2. /\ OpenRequests(job[w].target)' = OpenRequests(job[w].target)
          /\ Entitled(job[w])' <=> Entitled(job[w])
          /\ AdmitsIdentity(job[w])' <=> AdmitsIdentity(job[w])
      BY DEF OpenRequests, Entitled, Admins, HasRole, AdmitsIdentity, IsLastAdmin
    <3>3. Secured(w)' <=> Secured(w)
      BY <3>2 DEF Secured, Submitting, Recording, Deciding, Serial, Changing
    <3>4. QED
      BY <3>1, <3>3 DEF Settled
  <2>3. Distinct' /\ ActiveExists' /\ SameOpen'
    BY DEF Distinct, Apart, ActiveExists, SameOpen, OpenRequests
  <2>4. QED
    BY <2>1, <2>2, <2>3
<1>3. QED
  BY <1>1, <1>2 DEF Next, Step

\* THEOREM: the types, what every request knows, checked and locked, and the
\* freshness of what it will insert are invariant.
THEOREM AccountsInvariant == Spec => []IInv
  BY InitIInv, NextKeepsIInv, PTL DEF Spec

\* THEOREM: columns and locks keep their types and a reset request names who
\* decided it exactly when it is decided.
THEOREM AccountsTypeOK == Spec => []TypeOK
<1>1. IInv => TypeOK
  BY DEF IInv
<1>2. QED
  BY <1>1, AccountsInvariant, PTL

\* THEOREM: an account never has two OPEN reset requests, for any number of
\* concurrent submissions and decisions (request_password_reset).
THEOREM AccountsOneOpen == Spec => []OneOpenPerAccount
<1>1. ASSUME IInv, NEW u \in Users
      PROVE  Cardinality(OpenRequests(u)) <= 1
  <2>1. CASE OpenRequests(u) = {}
    BY <2>1, FS_EmptySet
  <2>2. CASE OpenRequests(u) # {}
    <3>1. PICK r \in OpenRequests(u) : TRUE
      BY <2>2
    <3>2. OpenRequests(u) = {r}
      BY <1>1, <3>1 DEF IInv, SameOpen
    <3>3. Cardinality(OpenRequests(u)) = 1
      BY <3>2, FS_Singleton
    <3>4. QED
      BY <3>3
  <2>3. QED
    BY <2>1, <2>2
<1>2. IInv => OneOpenPerAccount
  BY <1>1 DEF OneOpenPerAccount
<1>3. QED
  BY <1>2, AccountsInvariant, PTL

-----------------------------------------------------------------------------
(* What a step may never do.                                               *)

\* Only a commit writes a reset request.
LEMMA OnlyCommitsDecide ==
  ASSUME IInv, NEW v \in Workers, Step(v)
  PROVE  Commit(v) \/ UNCHANGED <<reset, requester, resolver>>
<1>1. CASE Start(v)
  BY <1>1, StartIsOwn DEF rowVars, resetVars
<1>2. CASE Between(v)
  BY <1>2, BetweenIsOwn DEF rowVars, resetVars
<1>3. CASE Session(v)
  BY <1>3 DEF Session, Stamp, OpenSession, Verify, SavePage, Logout, resetVars
<1>4. QED
  BY <1>1, <1>2, <1>3 DEF Step, Work, Between, Session

\* THEOREM: a reset request is recorded only for an account that is active in
\* that state (the row stays locked from the check to the commit).
THEOREM AccountsCreatedForActive == Spec => CreatedForActive
<1>1. ASSUME IInv, NEW v \in Workers, Step(v), NEW r \in Requests,
             reset[r] = None, reset'[r] # None
      PROVE  active[requester'[r]]
  <2>1. Settled(v) /\ Effects(v) /\ ~SameReset(r)
    BY <1>1, StepIsOwn DEF IInv, SameReset
  <2>2. ~(Deciding(v) /\ job[v].request = r)
    BY <1>1, <2>1 DEF Settled, Known, Deciding
  <2>3. Recording(v) /\ requester'[r] = job[v].target
    BY <2>1, <2>2 DEF Effects
  <2>4. QED
    BY <2>1, <2>3 DEF Settled, Secured, Recording, Submitting
<1>2. IInv /\ [Next]_vars
        => [\A r \in Requests :
              reset[r] = None /\ reset'[r] # None => active[requester'[r]]]_vars
  BY <1>1 DEF Next, Step
<1>3. QED
  BY <1>2, AccountsInvariant, PTL DEF Spec, CreatedForActive

\* THEOREM: who resolves a request is an active ADMIN when the resolution
\* commits, for any interleaving with demotions and deactivations.
THEOREM AccountsResolverIsAdmin == Spec => ResolverIsAdmin
<1>1. ASSUME IInv, NEW v \in Workers, Step(v), NEW r \in Requests,
             reset[r] = "OPEN", reset'[r] = "RESOLVED"
      PROVE  HasRole(resolver'[r], "ADMIN")
  <2>1. Settled(v) /\ Effects(v) /\ TypeOK
    BY <1>1, StepIsOwn DEF IInv
  <2>2. job[v].request = r /\ Deciding(v) /\ pc[v] = "commit"
    BY <1>1, <2>1 DEF Effects, SameReset
  <2>3. Commit(v)
    BY <1>1, OnlyCommitsDecide
  <2>4. CommitResolve(v)
    BY <1>1, <2>1, <2>2, <2>3
    DEF Commit, Committing, CommitForgot, CommitReject, CommitCreate, CommitBootstrap,
        CommitSetPassword, CommitActivate, CommitDeactivate, CommitChangeRole,
        resetVars, TypeOK
  <2>5. resolver'[r] = job[v].actor /\ job[v].op = "resolve"
    BY <1>1, <2>1, <2>2, <2>4 DEF CommitResolve, Committing, TypeOK
  <2>6. HasRole(job[v].actor, "ADMIN")
    BY <2>1, <2>2, <2>5 DEF Settled, Secured, Serial, SerialOps, Entitled
  <2>7. QED
    BY <2>5, <2>6
<1>2. IInv /\ [Next]_vars
        => [\A r \in Requests :
              reset[r] = "OPEN" /\ reset'[r] = "RESOLVED" => HasRole(resolver'[r], "ADMIN")]_vars
  BY <1>1 DEF Next, Step
<1>3. QED
  BY <1>2, AccountsInvariant, PTL DEF Spec, ResolverIsAdmin

\* THEOREM: a password changes only by an administrator or by resolving a
\* request of that account, and a decision on a request is final.
THEOREM AccountsResolvedOnce == Spec => ResolvedOnce
<1>1. ASSUME IInv, NEW v \in Workers, Step(v), NEW u \in Users, password'[u] # password[u]
      PROVE  SetOrResolved(u)
  <2>1. Settled(v) /\ Effects(v) /\ TypeOK
    BY <1>1, StepIsOwn DEF IInv
  <2>2. Registering(v) /\ job[v].target = u
    BY <1>1, <2>1 DEF Effects, SameUser
  <2>3. Commit(v)
    <3>1. ~Start(v)
      BY <1>1, StartIsOwn DEF rowVars, userVars
    <3>2. ~Between(v)
      BY <1>1, BetweenIsOwn DEF rowVars, userVars
    <3>3. ~Session(v)
      BY <1>1 DEF Session, Stamp, OpenSession, Verify, SavePage, Logout, userVars
    <3>4. QED
      BY <1>1, <3>1, <3>2, <3>3 DEF Step, Work, Between, Session
  <2>4. CommitSetPassword(v) \/ CommitResolve(v)
    BY <1>1, <2>3
    DEF Commit, CommitForgot, CommitReject, CommitCreate, CommitBootstrap, CommitActivate,
        CommitDeactivate, CommitChangeRole, userVars
  <2>5. CASE CommitSetPassword(v)
    BY <2>1, <2>2, <2>5 DEF CommitSetPassword, Committing, EndRequest, TypeOK, SetOrResolved
  <2>6. CASE CommitResolve(v)
    <3>1. job[v].op = "resolve" /\ pc[v] = "commit"
      BY <2>6 DEF CommitResolve, Committing
    <3>2. /\ job[v].request \in Requests /\ reset[job[v].request] = "OPEN"
          /\ requester[job[v].request] = u
      BY <2>1, <2>2, <3>1
      DEF Settled, Shaped, WellFormed, Known, Secured, Deciding, DecideOps
    <3>3. reset'[job[v].request] = "RESOLVED"
      BY <2>1, <2>6, <3>2 DEF CommitResolve, TypeOK
    <3>4. QED
      BY <3>2, <3>3 DEF OpenRequests, SetOrResolved
  <2>7. QED
    BY <2>4, <2>5, <2>6
<1>2. ASSUME IInv, NEW v \in Workers, Step(v), NEW r \in Requests
      PROVE  DecisionStands(r)
  <2>1. Settled(v) /\ Effects(v) /\ None \notin ResetStates
    BY <1>2, StepIsOwn, AccountsAssumption DEF IInv
  <2>2. ASSUME job[v].request = r, Deciding(v) \/ Recording(v)
        PROVE  reset[r] \in {"OPEN", None}
    BY <2>1, <2>2 DEF Settled, Secured, Known, Recording
  <2>3. QED
    BY <2>1, <2>2 DEF Effects, SameReset, ResetStates, DecisionStands
<1>3. IInv /\ [Next]_vars
        => [/\ \A u \in Users : password'[u] # password[u] => SetOrResolved(u)
            /\ \A r \in Requests : DecisionStands(r)]_vars
  BY <1>1, <1>2 DEF Next, Step
<1>4. QED
  BY <1>3, AccountsInvariant, PTL DEF Spec, ResolvedOnce

\* THEOREM: once somebody is an ADMIN, another ADMIN is made only by an active
\* one: concurrent bootstraps make one administrator, a demoted one makes none.
THEOREM AccountsAdminsMakeAdmins == Spec => AdminsMakeAdmins
<1> DEFINE MadeByAdmin(u) ==
             \E w \in Workers :
               /\ pc[w] = "commit" /\ pc'[w] = "idle"
               /\ job[w].target = u
               /\ job[w].actor # None /\ HasRole(job[w].actor, "ADMIN")
<1>1. ASSUME IInv, NEW v \in Workers, Step(v), NEW u \in Users,
             Admins # {}, u \in Admins' \ Admins
      PROVE  MadeByAdmin(u)
  <2>1. Settled(v) /\ Effects(v) /\ TypeOK
    BY <1>1, StepIsOwn DEF IInv
  <2>2. role'[u] # role[u]
    BY <1>1 DEF Admins
  <2>3. Registering(v) /\ job[v].target = u
    BY <2>1, <2>2 DEF Effects, SameUser
  <2>4. identityLock = v /\ Entitled(job[v])
    BY <2>1, <2>3 DEF Settled, Secured, Serial, Registering
  <2>5. HasRole(job[v].actor, "ADMIN")
    BY <1>1, <2>4 DEF Entitled
  <2>6. job[v].op # "bootstrap"
    BY <1>1, <2>4 DEF Entitled
  <2>7. job[v].actor \in Users
    BY <2>1, <2>3, <2>6
    DEF Settled, Shaped, WellFormed, Registering, SerialOps, CreateOps, DecideOps
  <2>8. pc'[v] = "idle"
    <3>1. ~Start(v)
      BY <2>2, StartIsOwn, <1>1 DEF rowVars, userVars
    <3>2. ~Between(v)
      BY <1>1, <2>2, BetweenIsOwn DEF rowVars, userVars
    <3>3. ~Session(v)
      BY <2>2 DEF Session, Stamp, OpenSession, Verify, SavePage, Logout, userVars
    <3>4. Commit(v)
      BY <1>1, <3>1, <3>2, <3>3 DEF Step, Work, Between, Session
    <3>5. EndRequest(v)
      BY <3>4
      DEF Commit, Committing, CommitForgot, CommitResolve, CommitReject, CommitCreate,
          CommitBootstrap, CommitSetPassword, CommitActivate, CommitDeactivate,
          CommitChangeRole
    <3>6. QED
      BY <2>1, <3>5 DEF EndRequest, TypeOK
  <2>9. QED
    BY <2>3, <2>5, <2>7, <2>8, AccountsAssumption DEF Registering
<1>2. IInv /\ [Next]_vars
        => [\A u \in Users : Admins # {} /\ u \in Admins' \ Admins => MadeByAdmin(u)]_vars
  BY <1>1 DEF Next, Step
<1>3. QED
  BY <1>2, AccountsInvariant, PTL DEF Spec, AdminsMakeAdmins

\* THEOREM: a session that left the store never returns to it, whatever pages
\* that had loaded it write back.
THEOREM AccountsRevokedStaysRevoked == Spec => RevokedStaysRevoked
<1>1. ASSUME IInv, NEW v \in Workers, Step(v), NEW k \in issued, session[k] = None
      PROVE  session'[k] = None
  <2>1. TypeOK /\ Settled(v) /\ k \in Keys
    BY <1>1 DEF IInv, TypeOK
  <2>2. CASE Start(v)
    BY <1>1, <2>2, StartIsOwn DEF rowVars, sessionVars
  <2>3. CASE Between(v)
    BY <1>1, <2>3, BetweenIsOwn DEF rowVars, sessionVars
  <2>4. CASE Commit(v)
    BY <1>1, <2>1, <2>4
    DEF Commit, CommitForgot, CommitResolve, CommitReject, CommitCreate, CommitBootstrap,
        CommitSetPassword, CommitActivate, CommitDeactivate, CommitChangeRole, sessionVars,
        DeleteDoomed
  <2>5. CASE OpenSession(v)
    <3>1. job[v].key # k
      BY <1>1, <2>1, <2>5
      DEF OpenSession, Settled, Shaped, Known, Fits, SerialOps, TargetOps, DecideOps,
          CreateOps, IdentityOps, SessionOps
    <3>2. QED
      BY <1>1, <2>1, <2>5, <3>1 DEF OpenSession, TypeOK
  <2>6. CASE Stamp(v) \/ Verify(v) \/ SavePage(v) \/ Logout(v)
    BY <1>1, <2>1, <2>6 DEF Stamp, Verify, SavePage, Logout, sessionVars, TypeOK
  <2>7. QED
    BY <1>1, <2>2, <2>3, <2>4, <2>5, <2>6 DEF Step, Work, Between
<1>2. IInv /\ [Next]_vars
        => [\A k \in issued : session[k] = None => session'[k] = None]_vars
  BY <1>1 DEF Next, Step
<1>3. QED
  BY <1>2, AccountsInvariant, PTL DEF Spec, RevokedStaysRevoked

-----------------------------------------------------------------------------
(* Waiting.                                                                *)

\* The place of what a worker waits for in the order of the locks.
Rank(w) ==
  IF pc[w] = "lockRequest" THEN 1
  ELSE IF pc[w] = "identityLock" THEN 2
  ELSE IF pc[w] = "commit" /\ job[w].op = "resolve" THEN 4
  ELSE 3

\* Who holds a lock and waits is further in that order than who waits for it.
LEMMA HolderIsFurther ==
  ASSUME IInv, NEW w \in Workers, NEW h \in Workers, Holder(w) = h, Holder(h) \in Workers
  PROVE  Rank(w) < Rank(h)
<1>1. TypeOK /\ Settled(w) /\ Settled(h) /\ None \notin Workers
  BY AccountsAssumption DEF IInv
<1>2. h # w
  BY <1>1 DEF Holder
<1>3. pc[w] # "idle" => WellFormed(job[w]) /\ Fits(job[w].op, pc[w])
  BY <1>1 DEF Settled, Shaped
<1> USE DEF SerialOps, TargetOps, DecideOps, CreateOps, IdentityOps, SessionOps
<1>4. ASSUME NEW u \in Users, userLock[u] = h
      PROVE  Rank(h) = 4 /\ identityLock = h
  <2>1. pc[h] \in {"lookup", "commit"} /\ job[h].op # "reject"
    BY <1>1, <1>4 DEF Settled, Owns
  <2>2. pc[h] = "commit" /\ job[h].op = "resolve"
    BY <1>1, <2>1 DEF Holder, ReadyToCommit
  <2>3. QED
    BY <1>1, <2>2 DEF Rank, Settled, Secured, Serial
<1>5. CASE pc[w] \in {"lockUser", "lockTarget", "stamp"}
  <2>1. job[w].target \in Users
    BY <1>3, <1>5 DEF WellFormed, Fits
  <2>2. userLock[job[w].target] = h
    BY <1>1, <1>5 DEF Holder
  <2>3. Rank(h) = 4
    BY <1>4, <2>1, <2>2
  <2>4. QED
    BY <1>5, <2>3 DEF Rank
<1>6. CASE pc[w] = "lockRequest"
  <2>1. job[w].request \in Requests /\ requestLock[job[w].request] = h
    BY <1>1, <1>3, <1>6 DEF WellFormed, Fits, Holder
  <2>2. pc[h] \in {"identityLock", "lockTarget", "commit"}
    BY <1>1, <2>1 DEF Settled, Owns
  <2>3. QED
    BY <1>6, <2>2 DEF Rank
<1>7. CASE pc[w] = "identityLock"
  <2>1. identityLock = h
    BY <1>1, <1>7 DEF Holder
  <2>2. pc[h] \in {"lockTarget", "commit"}
    BY <1>1, <2>1 DEF Settled, Owns
  <2>3. QED
    BY <1>7, <2>2 DEF Rank
<1>8. CASE pc[w] = "commit"
  <2>1. job[w].op \in DecideOps /\ job[w].actor \in Users /\ userLock[job[w].actor] = h
    BY <1>1, <1>3, <1>8 DEF Holder, ReadyToCommit, WellFormed
  <2>2. Rank(h) = 4 /\ identityLock = h
    BY <1>4, <2>1
  <2>3. job[w].op # "resolve"
    BY <1>1, <1>2, <1>8, <2>2 DEF Settled, Secured, Serial
  <2>4. QED
    BY <1>8, <2>2, <2>3 DEF Rank
<1>9. QED
  BY <1>1, <1>5, <1>6, <1>7, <1>8 DEF Holder

\* THEOREM: no set of these transactions waits in a cycle, for any number of
\* them: request row, advisory lock, account row, and last the foreign key of a
\* decision.
THEOREM AccountsNoWaitCycle == Spec => []NoWaitCycle
<1>1. ASSUME IInv, NEW S \in SUBSET Workers, NEW a \in S, {Holder(w) : w \in S} = S
      PROVE  FALSE
  <2>1. \A w \in S : Holder(w) \in S /\ Holder(w) \in Workers
    BY <1>1
  <2>2. \A w \in S : Rank(w) \in 1 .. 4 /\ Rank(w) < Rank(Holder(w))
    BY <1>1, <2>1, HolderIsFurther DEF Rank
  <2> DEFINE b == Holder(a)
             c == Holder(b)
             d == Holder(c)
             e == Holder(d)
  <2>3. b \in S /\ c \in S /\ d \in S /\ e \in S
    BY <2>1
  <2>4. Rank(a) < Rank(b) /\ Rank(b) < Rank(c) /\ Rank(c) < Rank(d) /\ Rank(d) < Rank(e)
    BY <2>2, <2>3
  <2>5. \A w \in {a, b, c, d, e} : Rank(w) \in 1 .. 4
    BY <2>2, <2>3
  <2> HIDE DEF b, c, d, e
  <2>6. QED
    BY <2>4, <2>5
<1>2. IInv => NoWaitCycle
  BY <1>1 DEF NoWaitCycle
<1>3. QED
  BY <1>2, AccountsInvariant, PTL

=============================================================================
