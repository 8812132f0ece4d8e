-------------------------- MODULE SupportDesk_proofs ------------------------
(***************************************************************************)
(* The support desk for any number of users, conversations and workers:    *)
(* its inductive invariant, the agreement of the conversation and handoff  *)
(* rows, and the implementation of ConversationLifecycle.                  *)
(*                                                                         *)
(* The argument: a worker that has passed a service's checks holds the     *)
(* conversation's row lock (Exclusive), only such a worker changes the     *)
(* rows of a conversation, and so what it checked is still true when it    *)
(* commits (CheckStillHolds).                                              *)
(***************************************************************************)
EXTENDS SupportDesk, ConversationLifecycle_proofs

\* A request names what its operation works on.
JobShape ==
  \A w \in Workers : job[w] # None =>
    /\ job[w].op \in ConversationOps => job[w].conv \in Conversations
    /\ job[w].op \in IdentityOps => job[w].target \in Users
    /\ job[w].op = "changeRole" => job[w].newRole \in Roles

\* A worker past its checks holds the conversation it decides on.
Exclusive == \A w \in Workers : Checked(w) => convLock[job[w].conv] = w

IInv == TypeOK /\ JobShape /\ Exclusive /\ CheckStillHolds

Step(w) == Start(w) \/ Work(w) \/ Fail(w)

-----------------------------------------------------------------------------
(* What a step of one worker can touch.                                    *)

\* Locks only change hands between the worker that steps and nobody.
Hands(lock, v) ==
  \A x \in DOMAIN lock : lock'[x] = lock[x] \/ {lock[x], lock'[x]} \subseteq {v, None}

OwnStep(v) ==
  /\ pc' \in [Workers -> Stages]
  /\ job' \in [Workers -> Jobs \cup {None}]
  /\ userLock' \in [Users -> Workers \cup {None}]
  /\ convLock' \in [Conversations -> Workers \cup {None}]
  /\ identityLock' \in Workers \cup {None}
  /\ \A w \in Workers \ {v} : pc'[w] = pc[w] /\ job'[w] = job[w]
  /\ pc'[v] = "idle" <=> job'[v] = None
  /\ Hands(userLock, v)
  /\ Hands(convLock, v)
  /\ identityLock' = identityLock \/ {identityLock, identityLock'} \subseteq {v, None}

\* The end of a request frees exactly the locks of its worker.
LEMMA EndIsOwn ==
  ASSUME TypeOK, NEW v \in Workers, EndRequest(v)
  PROVE  OwnStep(v) /\ pc'[v] = "idle" /\ job'[v] = None
  BY DEF EndRequest, Released, OwnStep, Hands, TypeOK, Stages

\* The start of a request takes no lock.
LEMMA StartIsOwn ==
  ASSUME TypeOK, NEW v \in Workers, Start(v)
  PROVE  /\ OwnStep(v)
         /\ UNCHANGED <<userVars, rowVars, lockVars>>
         /\ pc'[v] \in {"lockAdmin", "lockConversation", "identityLock"}
         /\ job'[v].op \in ConversationOps => job'[v].conv \in Conversations
         /\ job'[v].op \in IdentityOps => job'[v].target \in Users
         /\ job'[v].op = "changeRole" => job'[v].newRole \in Roles
<1> DEFINE Goal ==
         /\ OwnStep(v)
         /\ UNCHANGED <<userVars, rowVars, lockVars>>
         /\ pc'[v] \in {"lockAdmin", "lockConversation", "identityLock"}
         /\ job'[v].op \in ConversationOps => job'[v].conv \in Conversations
         /\ job'[v].op \in IdentityOps => job'[v].target \in Users
         /\ job'[v].op = "changeRole" => job'[v].newRole \in Roles
<1>1. ASSUME NEW u \in Users, NEW op \in ClientOps \cup AgentOps,
             NEW c \in Conversations, StartPersonal(v, op, u, c)
      PROVE  Goal
  <2>1. NewJob(op, u, c, None, None) \in Jobs
    BY <1>1 DEF NewJob, Jobs, ConversationOps
  <2>2. NewJob(op, u, c, None, None) # None
    BY <2>1, DeskAssumption
  <2>3. QED
    BY <1>1, <2>1, <2>2 DEF StartPersonal, Goto, NewJob, OwnStep, Hands, TypeOK, Stages,
       lockVars, ClientOps, AgentOps, ConversationOps, IdentityOps
<1>2. ASSUME NEW u \in Users, NEW op \in ControlOps, NEW c \in Conversations,
             StartControl(v, op, u, c)
      PROVE  Goal
  <2>1. NewJob(op, u, c, None, None) \in Jobs
    BY <1>2 DEF NewJob, Jobs, ConversationOps
  <2>2. NewJob(op, u, c, None, None) # None
    BY <2>1, DeskAssumption
  <2>3. QED
    BY <1>2, <2>1, <2>2 DEF StartControl, Goto, NewJob, OwnStep, Hands, TypeOK, Stages,
       lockVars, ControlOps, ConversationOps, IdentityOps
<1>3. ASSUME NEW u \in Users, NEW op \in IdentityOps, NEW t \in Targets,
             NEW r \in NewRoles \cup {None}, StartIdentity(v, op, u, t, r)
      PROVE  Goal
  <2>1. NewJob(op, u, None, t, r) \in Jobs
    BY <1>3, DeskAssumption DEF NewJob, Jobs
  <2>2. NewJob(op, u, None, t, r) # None
    BY <2>1, DeskAssumption
  <2>3. op = "changeRole" => r \in Roles
    BY <1>3, DeskAssumption DEF StartIdentity
  <2>4. QED
    BY <1>3, <2>1, <2>2, <2>3, DeskAssumption
    DEF StartIdentity, Goto, NewJob, OwnStep, Hands, TypeOK, Stages, lockVars,
        IdentityOps, ConversationOps, ClientOps, AgentOps, ControlOps
<1>4. QED
  BY <1>1, <1>2, <1>3 DEF Start

\* The stages between the start and the commit, and the abandoned requests.
Between(w) ==
  \/ LockAdmin(w) \/ LockConversation(w) \/ Transition(w) \/ LockAssignee(w)
  \/ TakeIdentityLock(w) \/ LockTarget(w) \/ AbortDeadlocked(w) \/ Fail(w)

\* They write no row; one that leaves its worker past the checks found the
\* service's conditions true, under the conversation's lock.
LEMMA BetweenIsOwn ==
  ASSUME IInv, NEW v \in Workers, Between(v)
  PROVE  /\ OwnStep(v)
         /\ UNCHANGED <<userVars, rowVars>>
         /\ job'[v] \in {job[v], None}
         /\ Checked(v)' => /\ job'[v] = job[v]
                           /\ convLock'[job[v].conv] = v
                           /\ Admits(job[v])
<1> DEFINE Goal ==
         /\ OwnStep(v)
         /\ UNCHANGED <<userVars, rowVars>>
         /\ job'[v] \in {job[v], None}
         /\ Checked(v)' => /\ job'[v] = job[v]
                           /\ convLock'[job[v].conv] = v
                           /\ Admits(job[v])
<1>1. TypeOK
  BY DEF IInv
<1>2. ASSUME EndRequest(v), UNCHANGED <<userVars, rowVars>>
      PROVE  Goal
  BY <1>1, <1>2, EndIsOwn DEF Checked
<1>3. CASE LockAdmin(v)
  <2>1. CASE HasRole(job[v].actor, "ADMIN") /\ ~EndRequest(v)
    BY <1>1, <1>3, <2>1 DEF LockAdmin, Goto, Free, OwnStep, Hands, TypeOK, Stages, Checked
  <2>2. QED
    BY <1>2, <1>3, <2>1 DEF LockAdmin
<1>4. CASE LockConversation(v)
  <2>1. CASE Admits(job[v]) /\ ~EndRequest(v)
    <3>1. job[v] # None /\ job[v].op \in ConversationOps
      BY <1>1, <1>4, <2>1
      DEF LockConversation, TypeOK, Admits, ConversationOps, ClientOps, AgentOps, ControlOps
    <3>2. job[v].conv \in Conversations
      BY <3>1 DEF IInv, JobShape
    <3>3. AfterCheck(job[v]) \in {"transition", "lockAssignee", "commit"}
      BY DEF AfterCheck
    <3>4. QED
      BY <1>1, <1>4, <2>1, <3>1, <3>2, <3>3
      DEF LockConversation, Goto, Free, OwnStep, Hands, TypeOK, Stages, Checked
  <2>2. QED
    BY <1>2, <1>4, <2>1 DEF LockConversation
<1>5. CASE Transition(v)
  <2>1. CASE Goto(v, "commit") /\ UNCHANGED <<lockVars, job>>
    BY <1>1, <1>5, <2>1
    DEF Transition, Goto, OwnStep, Hands, TypeOK, Stages, Checked, lockVars,
        IInv, Exclusive, CheckStillHolds
  <2>2. QED
    BY <1>2, <1>5, <2>1 DEF Transition
<1>6. CASE LockAssignee(v)
  <2>1. CASE ~EndRequest(v)
    BY <1>1, <1>6, <2>1
    DEF LockAssignee, Goto, Free, OwnStep, Hands, TypeOK, Stages, Checked,
        IInv, Exclusive, CheckStillHolds
  <2>2. QED
    BY <1>2, <1>6, <2>1 DEF LockAssignee
<1>7. CASE TakeIdentityLock(v)
  <2>1. CASE ~EndRequest(v)
    BY <1>1, <1>7, <2>1
    DEF TakeIdentityLock, Goto, Free, OwnStep, Hands, TypeOK, Stages, Checked
  <2>2. QED
    BY <1>2, <1>7, <2>1 DEF TakeIdentityLock
<1>8. CASE LockTarget(v)
  <2>1. CASE AdmitsIdentity(job[v]) /\ ~EndRequest(v)
    <3>1. job[v].op \notin ConversationOps
      BY <2>1 DEF AdmitsIdentity, ConversationOps, ClientOps, AgentOps, ControlOps
    <3>2. QED
      BY <1>1, <1>8, <2>1, <3>1
      DEF LockTarget, Goto, Free, OwnStep, Hands, TypeOK, Stages, Checked
  <2>2. QED
    BY <1>2, <1>8, <2>1 DEF LockTarget
<1>9. CASE AbortDeadlocked(v) \/ Fail(v)
  BY <1>2, <1>9 DEF AbortDeadlocked, Fail
<1>10. QED
  BY <1>3, <1>4, <1>5, <1>6, <1>7, <1>8, <1>9 DEF Between

-----------------------------------------------------------------------------
(* What a commit writes.                                                   *)

\* The columns of one conversation that the services' checks read.
SameRow(c) ==
  /\ status'[c] = status[c]
  /\ prior'[c] = prior[c]
  /\ handoff'[c] = handoff[c]
  /\ assignee'[c] = assignee[c]

\* A commit ends its request and writes at most the conversation it checked.
LEMMA CommitIsLocal ==
  ASSUME IInv, NEW v \in Workers, Commit(v)
  PROVE  /\ OwnStep(v)
         /\ pc'[v] = "idle"
         /\ job'[v] = None
         /\ \A c \in Conversations :
              SameRow(c) \/ (Checked(v) /\ job[v].conv = c)
<1>1. TypeOK
  BY DEF IInv
<1>2. EndRequest(v) /\ pc[v] = "commit"
  BY DEF Commit, Committing, CommitRequest, CommitClaim, CommitPost, CommitFinalize,
         CommitBlock, CommitUnblock, CommitDelete, CommitActivate, CommitDeactivate,
         CommitChangeRole
<1>3. ASSUME NEW c \in Conversations
      PROVE  SameRow(c) \/ (Checked(v) /\ job[v].conv = c)
  <2> USE <1>1, <1>2
      DEF SameRow, Checked, Committing, TypeOK, ConversationOps, ClientOps, AgentOps,
          ControlOps
  <2>1. CASE CommitRequest(v)
    BY <2>1 DEF CommitRequest
  <2>2. CASE CommitClaim(v)
    BY <2>2 DEF CommitClaim
  <2>3. CASE CommitPost(v)
    BY <2>3 DEF CommitPost
  <2>4. CASE CommitFinalize(v)
    BY <2>4 DEF CommitFinalize
  <2>5. CASE CommitBlock(v)
    BY <2>5 DEF CommitBlock
  <2>6. CASE CommitUnblock(v)
    BY <2>6 DEF CommitUnblock
  <2>7. CASE CommitDelete(v)
    BY <2>7 DEF CommitDelete
  <2>8. CASE CommitActivate(v) \/ CommitDeactivate(v) \/ CommitChangeRole(v)
    BY <2>8 DEF CommitActivate, CommitDeactivate, CommitChangeRole, rowVars
  <2>9. QED
    BY <2>1, <2>2, <2>3, <2>4, <2>5, <2>6, <2>7, <2>8 DEF Commit
<1>4. QED
  BY <1>1, <1>2, <1>3, EndIsOwn

RowTypes ==
  /\ role \in [Users -> Roles]
  /\ active \in [Users -> BOOLEAN]
  /\ LifecycleTypeOK
  /\ posts \in [Conversations -> SUBSET Users]

\* What a commit writes is of the column's type: for a block and an unblock
\* because the checks made earlier still hold.
LEMMA CommitKeepsRowTypes ==
  ASSUME IInv, NEW v \in Workers, Commit(v)
  PROVE  RowTypes'
<1>1. RowTypes
  BY DEF IInv, TypeOK, RowTypes
<1>2. job[v] # None
  BY DEF IInv, TypeOK, Commit, Committing, CommitRequest, CommitClaim, CommitPost,
         CommitFinalize, CommitBlock, CommitUnblock, CommitDelete, CommitActivate,
         CommitDeactivate, CommitChangeRole
<1>3. job[v] \in Jobs
  BY <1>2 DEF IInv, TypeOK
<1>4. job[v].actor \in Users
  BY <1>3 DEF Jobs
<1>5. job[v].op \in ConversationOps /\ pc[v] = "commit"
        => job[v].conv \in Conversations /\ Admits(job[v])
  BY <1>2 DEF IInv, JobShape, CheckStillHolds, Checked
<1> USE <1>1, <1>4, <1>5
    DEF RowTypes, LifecycleTypeOK, Committing, ConversationOps, ClientOps, AgentOps, ControlOps
<1>6. CASE CommitRequest(v)
  BY <1>6 DEF CommitRequest, userVars, Statuses, HandoffStates
<1>7. CASE CommitClaim(v)
  BY <1>7 DEF CommitClaim, userVars, Statuses, HandoffStates
<1>8. CASE CommitPost(v)
  BY <1>8 DEF CommitPost, userVars
<1>9. CASE CommitFinalize(v)
  BY <1>9 DEF CommitFinalize, userVars, Statuses, HandoffStates
<1>10. CASE CommitBlock(v)
  <2>1. status[job[v].conv] \in Blockable
    BY <1>10 DEF CommitBlock, Admits, MayBlock, HandoffFits, Blockable
  <2>2. QED
    BY <1>10, <2>1 DEF CommitBlock, userVars, Statuses
<1>11. CASE CommitUnblock(v)
  <2>1. prior[job[v].conv] \in Blockable
    BY <1>11 DEF CommitUnblock, Admits, MayUnblock
  <2>2. QED
    BY <1>11, <2>1 DEF CommitUnblock, userVars, Statuses, Blockable
<1>12. CASE CommitDelete(v)
  BY <1>12 DEF CommitDelete, userVars, Statuses
<1>13. CASE CommitActivate(v)
  BY <1>13 DEF CommitActivate, rowVars
<1>14. CASE CommitDeactivate(v)
  BY <1>14 DEF CommitDeactivate, rowVars
<1>15. CASE CommitChangeRole(v)
  <2>1. job[v].newRole \in Roles
    BY <1>2, <1>15 DEF CommitChangeRole, IInv, JobShape
  <2>2. QED
    BY <1>15, <2>1 DEF CommitChangeRole, rowVars
<1>16. QED
  BY <1>6, <1>7, <1>8, <1>9, <1>10, <1>11, <1>12, <1>13, <1>14, <1>15 DEF Commit

-----------------------------------------------------------------------------
(* The inductive invariant.                                                *)

\* A worker that does not step keeps its lock and its conditions: whoever
\* commits holds another conversation.
LEMMA OtherWorkersKeep ==
  ASSUME IInv, NEW v \in Workers, NEW w \in Workers \ {v}, OwnStep(v),
         \A c \in Conversations : SameRow(c) \/ (Checked(v) /\ job[v].conv = c),
         Checked(w)'
  PROVE  /\ convLock'[job'[w].conv] = w
         /\ Admits(job[w])'
<1>1. pc'[w] = pc[w] /\ job'[w] = job[w] /\ Checked(w)
  BY DEF OwnStep, Checked
<1>2. job[w] # None
  BY <1>1 DEF Checked, IInv, TypeOK
<1>3. job[w].conv \in Conversations /\ convLock[job[w].conv] = w /\ Admits(job[w])
  BY <1>1, <1>2 DEF IInv, JobShape, Exclusive, CheckStillHolds, Checked
<1>4. convLock'[job[w].conv] = w
  BY <1>3, DeskAssumption DEF OwnStep, Hands, IInv, TypeOK
<1>5. ~(Checked(v) /\ job[v].conv = job[w].conv)
  BY <1>3 DEF IInv, Exclusive
<1>6. Admits(job[w])'
  BY <1>1, <1>3, <1>5
  DEF SameRow, Admits, MayRequest, MayClaim, HoldsHuman, MayBlock, MayUnblock,
      MayDelete, HandoffFits
<1>7. QED
  BY <1>1, <1>4, <1>6

LEMMA InitIInv == Init => IInv
  BY DeskAssumption
  DEF Init, LifecycleInit, IInv, TypeOK, LifecycleTypeOK, JobShape, Exclusive, CheckStillHolds, Checked, Statuses,
      HandoffStates, Stages

\* Every step of a worker keeps the invariant.
LEMMA StepKeepsIInv ==
  ASSUME IInv, NEW v \in Workers, Step(v)
  PROVE  IInv'
<1>1. /\ OwnStep(v)
      /\ RowTypes'
      /\ \A c \in Conversations : SameRow(c) \/ (Checked(v) /\ job[v].conv = c)
      /\ Checked(v)' => convLock'[job'[v].conv] = v /\ Admits(job[v])'
      /\ job'[v] # None =>
           /\ job'[v].op \in ConversationOps => job'[v].conv \in Conversations
           /\ job'[v].op \in IdentityOps => job'[v].target \in Users
           /\ job'[v].op = "changeRole" => job'[v].newRole \in Roles
  <2>1. CASE Start(v)
    <3>1. UNCHANGED <<userVars, rowVars>> /\ ~Checked(v)'
      BY <2>1, StartIsOwn DEF IInv, Checked
    <3>2. QED
      BY <2>1, <3>1, StartIsOwn
      DEF IInv, TypeOK, RowTypes, LifecycleTypeOK, userVars, rowVars, SameRow
  <2>2. CASE Between(v)
    <3>1. OwnStep(v) /\ UNCHANGED <<userVars, rowVars>> /\ job'[v] \in {job[v], None}
      BY <2>2, BetweenIsOwn
    <3>2. ASSUME Checked(v)'
          PROVE  convLock'[job'[v].conv] = v /\ Admits(job[v])'
      BY <2>2, <3>1, <3>2, BetweenIsOwn
      DEF rowVars, Admits, MayRequest, MayClaim, HoldsHuman, MayBlock, MayUnblock,
          MayDelete, HandoffFits
    <3>3. QED
      BY <3>1, <3>2
      DEF IInv, TypeOK, RowTypes, LifecycleTypeOK, JobShape, userVars, rowVars, SameRow
  <2>3. CASE Commit(v)
    BY <2>3, CommitIsLocal, CommitKeepsRowTypes DEF Checked
  <2>4. QED
    BY <2>1, <2>2, <2>3 DEF Step, Work, Between
<1>2. TypeOK'
  BY <1>1 DEF OwnStep, RowTypes, IInv, TypeOK
<1>3. JobShape'
  BY <1>1 DEF OwnStep, IInv, JobShape
<1>4. Exclusive' /\ CheckStillHolds'
  BY <1>1, OtherWorkersKeep DEF Exclusive, CheckStillHolds
<1>5. QED
  BY <1>2, <1>3, <1>4 DEF IInv

LEMMA NextKeepsIInv == IInv /\ [Next]_vars => IInv'
<1>1. ASSUME IInv, NEW v \in Workers, Step(v)
      PROVE  IInv'
  BY <1>1, StepKeepsIInv
<1>2. ASSUME IInv, UNCHANGED vars
      PROVE  IInv'
  BY <1>2
  DEF vars, IInv, TypeOK, LifecycleTypeOK, JobShape, Exclusive, CheckStillHolds, Checked, Admits,
      MayRequest, MayClaim, HoldsHuman, MayBlock, MayUnblock, MayDelete, HandoffFits
<1>3. QED
  BY <1>1, <1>2 DEF Next, Step

\* THEOREM: a worker past its checks holds its conversation, and what it
\* checked there is still true.
THEOREM DeskInvariant == Spec => []IInv
  BY InitIInv, NextKeepsIInv, PTL DEF Spec

\* THEOREM: the columns, locks and requests always have their types: an
\* unblock never writes a NULL or an unblockable status.
THEOREM DeskTypeOK == Spec => []TypeOK
<1>1. IInv => TypeOK
  BY DEF IInv
<1>2. QED
  BY <1>1, DeskInvariant, PTL

\* THEOREM: what a service checked under the conversation's lock is still true
\* when it commits, for any number of workers (request_human_support,
\* claim_handoff, finalize_handoff and the administrator's services).
THEOREM DeskCheckStillHolds == Spec => []CheckStillHolds
<1>1. IInv => CheckStillHolds
  BY DEF IInv
<1>2. QED
  BY <1>1, DeskInvariant, PTL

\* THEOREM: two transactions never decide on one conversation at a time.
THEOREM DeskOneDecision == Spec => []OneDecisionPerConversation
<1>1. IInv => OneDecisionPerConversation
  BY DEF IInv, Exclusive, OneDecisionPerConversation
<1>2. QED
  BY <1>1, DeskInvariant, PTL

-----------------------------------------------------------------------------
(* The desk implements the lifecycle.                                      *)

\* A commit is the abstract step of its operation, or none; nothing else
\* changes a conversation or a handoff.
LEMMA CommitImplements ==
  ASSUME IInv, NEW v \in Workers, Commit(v)
  PROVE  LifecycleNext \/ UNCHANGED lifecycleVars
<1>1. pc[v] = "commit" /\ job[v] # None
  BY DEF IInv, TypeOK, Commit, Committing, CommitRequest, CommitClaim, CommitPost,
         CommitFinalize, CommitBlock, CommitUnblock, CommitDelete, CommitActivate,
         CommitDeactivate, CommitChangeRole
<1>2. job[v].actor \in Users
  BY <1>1 DEF IInv, TypeOK, Jobs
<1>3. job[v].op \in ConversationOps
        => job[v].conv \in Conversations /\ Admits(job[v])
  BY <1>1 DEF IInv, JobShape, CheckStillHolds, Checked
<1> DEFINE c == job[v].conv
<1> USE <1>2, <1>3 DEF Committing, ConversationOps, ClientOps, AgentOps, ControlOps, Admits
<1>4. CASE CommitRequest(v)
  <2>1. c \in Conversations /\ Confirm(c)
    BY <1>4 DEF CommitRequest, MayRequest, Confirm
  <2>2. QED
    BY <2>1 DEF LifecycleNext, LifecycleStep
<1>5. CASE CommitClaim(v)
  <2>1. c \in Conversations /\ Accept(c, job[v].actor)
    BY <1>5 DEF CommitClaim, MayClaim, Accept
  <2>2. QED
    BY <2>1 DEF LifecycleNext, LifecycleStep
<1>6. CASE CommitPost(v)
  BY <1>6 DEF CommitPost, lifecycleVars
<1>7. CASE CommitFinalize(v)
  <2>1. c \in Conversations /\ Resolve(c)
    BY <1>7 DEF CommitFinalize, HoldsHuman, Resolve
  <2>2. QED
    BY <2>1 DEF LifecycleNext, LifecycleStep
<1>8. CASE CommitBlock(v)
  <2>1. c \in Conversations /\ Block(c)
    BY <1>8 DEF CommitBlock, MayBlock, HandoffFits, Block, Blockable
  <2>2. QED
    BY <2>1 DEF LifecycleNext, LifecycleStep
<1>9. CASE CommitUnblock(v)
  <2>1. c \in Conversations /\ Unblock(c)
    BY <1>9 DEF CommitUnblock, MayUnblock, Unblock, Blockable
  <2>2. QED
    BY <2>1 DEF LifecycleNext, LifecycleStep
<1>10. CASE CommitDelete(v)
  <2>1. c \in Conversations /\ SoftDelete(c)
    BY <1>10 DEF CommitDelete, MayDelete, SoftDelete
  <2>2. QED
    BY <2>1 DEF LifecycleNext, LifecycleStep
<1>11. CASE CommitActivate(v) \/ CommitDeactivate(v) \/ CommitChangeRole(v)
  BY <1>11 DEF CommitActivate, CommitDeactivate, CommitChangeRole, rowVars,
     lifecycleVars
<1>12. QED
  BY <1>4, <1>5, <1>6, <1>7, <1>8, <1>9, <1>10, <1>11 DEF Commit

LEMMA NextImplements == IInv /\ [Next]_vars => [LifecycleNext]_lifecycleVars
<1>1. ASSUME IInv, NEW v \in Workers, Step(v)
      PROVE  [LifecycleNext]_lifecycleVars
  <2>1. CASE Start(v)
    BY <1>1, <2>1, StartIsOwn DEF IInv, rowVars, lifecycleVars
  <2>2. CASE Between(v)
    BY <1>1, <2>2, BetweenIsOwn DEF rowVars, lifecycleVars
  <2>3. CASE Commit(v)
    BY <1>1, <2>3, CommitImplements
  <2>4. QED
    BY <1>1, <2>1, <2>2, <2>3 DEF Step, Work, Between
<1>2. CASE UNCHANGED vars
  BY <1>2 DEF vars, lifecycleVars
<1>3. QED
  BY <1>1, <1>2 DEF Next, Step

\* THEOREM: every interleaving of the services is a behaviour of the abstract
\* lifecycle, for any number of workers, users and conversations.
THEOREM DeskImplementsLifecycle == Spec => ImplementsLifecycle
<1>1. Init => LifecycleInit
  BY DEF Init
<1>2. QED
  BY <1>1, NextImplements, DeskInvariant, PTL
  DEF Spec, ImplementsLifecycle, LifecycleSpec

\* THEOREM: so conversation and handoff rows agree in every committed state
\* (the theorem of the abstract lifecycle, through the implementation).
THEOREM DeskRowsAgree == Spec => []RowsAgree
<1>1. ImplementsLifecycle => [](LifecycleTypeOK /\ RowsAgree)
  BY LifecycleRowsAgree DEF ImplementsLifecycle
<1>2. QED
  BY <1>1, DeskImplementsLifecycle, PTL

-----------------------------------------------------------------------------
(* Support messages.                                                       *)

\* THEOREM: a support message is only added by the operator who owns the
\* conversation in that state (append_support_message), whatever blocks,
\* finalizations and claims run at the same time.
THEOREM DeskPostsOnlyByOwner == Spec => PostsOnlyByOwner
<1>1. ASSUME IInv, NEW v \in Workers, Step(v), NEW c \in Conversations, NEW u \in Users,
             u \in posts'[c] \ posts[c]
      PROVE  HoldsHuman(c, u)
  <2>1. Commit(v)
    BY <1>1, StartIsOwn, BetweenIsOwn DEF IInv, rowVars, Step, Work, Between
  <2>2. CommitPost(v)
    BY <1>1, <2>1
    DEF Commit, CommitRequest, CommitClaim, CommitFinalize, CommitBlock, CommitUnblock,
        CommitDelete, CommitActivate, CommitDeactivate, CommitChangeRole, rowVars
  <2>3. pc[v] = "commit" /\ job[v].op = "post" /\ job[v] # None
    BY <1>1, <2>2 DEF CommitPost, Committing, IInv, TypeOK
  <2>4. job[v].conv \in Conversations /\ Admits(job[v])
    BY <1>1, <2>3
    DEF IInv, JobShape, CheckStillHolds, Checked, ConversationOps, ClientOps, AgentOps, ControlOps
  <2>5. c = job[v].conv /\ u = job[v].actor
    BY <1>1, <2>2, <2>4 DEF CommitPost, IInv, TypeOK
  <2>6. QED
    BY <2>3, <2>4, <2>5 DEF Admits
<1>2. IInv /\ [Next]_vars
        => [\A c \in Conversations, u \in Users :
              u \in posts'[c] \ posts[c] => HoldsHuman(c, u)]_vars
  BY <1>1 DEF Next, Step
<1>3. QED
  BY <1>2, DeskInvariant, PTL DEF Spec, PostsOnlyByOwner

=============================================================================
