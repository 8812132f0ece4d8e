---------------------- MODULE SupportDeskAccounts_proofs --------------------
(***************************************************************************)
(* The support desk and the accounts: for any number of users, workers and *)
(* conversations, no operator is demoted while owning a HUMAN conversation, *)
(* no conversation is given back to an ineligible operator, and an active  *)
(* administrator remains.                                                  *)
(*                                                                         *)
(* The argument: an identity operation holds its target's row from its     *)
(* check to its commit (TargetHeld).  Whoever makes a conversation HUMAN   *)
(* for that target needs the same row: the claim for its foreign key, the  *)
(* unblock because it locked the operator (RestoreHeld).                   *)
(***************************************************************************)
EXTENDS SupportDesk_proofs, FiniteSetTheorems

\* The operations that reach a stage, and the advisory lock they hold there.
StageShape ==
  \A w \in Workers :
    /\ pc[w] = "transition" => job[w].op \in {"request", "claim", "finalize"}
    /\ pc[w] = "lockAssignee" => job[w].op = "unblock"
    /\ pc[w] = "identityLock" => job[w].op \in IdentityOps
    /\ pc[w] = "lockTarget" => job[w].op \in IdentityOps /\ identityLock = w

\* An identity operation that may commit.
Deciding(w) == pc[w] = "commit" /\ job[w].op \in IdentityOps

\* It holds the lock of all identity changes and the row of its target.
TargetHeld ==
  \A w \in Workers : Deciding(w) =>
    /\ identityLock = w
    /\ userLock[job[w].target] = w

\* It found no HUMAN conversation of an operator it may demote.
Unassigned(j) ==
  j.op \in {"deactivate", "changeRole"} /\ role[j.target] = "SUPPORT_AGENT"
    => ~ActiveHumanAssignment(j.target)
TargetUnassigned == \A w \in Workers : Deciding(w) => Unassigned(job[w])

\* And another administrator, if it may remove its target from them.
Replaceable(j) ==
  /\ HasRole(j.target, "ADMIN")
  /\ j.op = "deactivate" \/ (j.op = "changeRole" /\ j.newRole # "ADMIN")
  => \E a \in Users \ {j.target} : HasRole(a, "ADMIN")
AdminRemains == \A w \in Workers : Deciding(w) => Replaceable(job[w])

\* An unblock that restores HUMAN holds its operator, an active agent.
Restoring(w) ==
  pc[w] = "commit" /\ job[w].op = "unblock" /\ prior[job[w].conv] = "HUMAN"
RestoreHeld ==
  \A w \in Workers : Restoring(w) =>
    /\ userLock[assignee[job[w].conv]] = w
    /\ HasRole(assignee[job[w].conv], "SUPPORT_AGENT")

AInv == StageShape /\ TargetHeld /\ TargetUnassigned /\ AdminRemains /\ RestoreHeld

-----------------------------------------------------------------------------
(* What a step can do to an account and to an assignment.                  *)

\* Only an identity operation that commits changes an account: its target's.
LEMMA AccountsAreLocal ==
  ASSUME IInv, NEW v \in Workers, Step(v), NEW u \in Users
  PROVE  \/ role'[u] = role[u] /\ active'[u] = active[u]
         \/ Deciding(v) /\ job[v].target = u
<1>1. CASE Start(v)
  BY <1>1, StartIsOwn DEF IInv, userVars
<1>2. CASE Between(v)
  BY <1>2, BetweenIsOwn DEF userVars
<1>3. CASE Commit(v)
  BY <1>3 DEF Commit, Committing, CommitRequest, CommitClaim, CommitPost, CommitFinalize,
     CommitBlock, CommitUnblock, CommitDelete, CommitActivate, CommitDeactivate,
     CommitChangeRole, userVars, Deciding, IdentityOps, IInv, TypeOK
<1>4. QED
  BY <1>1, <1>2, <1>3 DEF Step, Work, Between

\* Whoever gives an operator a HUMAN conversation can have that operator's row:
\* nobody else holds it.
LEMMA AssignmentNeedsOperator ==
  ASSUME IInv, RestoreHeld, NEW v \in Workers, Step(v), NEW u \in Users,
         NEW c \in Conversations, HoldsHuman(c, u)', ~HoldsHuman(c, u)
  PROVE  Free(userLock[u], v)
<1>1. CASE Start(v)
  BY <1>1, StartIsOwn DEF IInv, rowVars, HoldsHuman
<1>2. CASE Between(v)
  BY <1>2, BetweenIsOwn DEF rowVars, HoldsHuman
<1>3. CASE Commit(v)
  <2> USE DEF IInv, TypeOK, LifecycleTypeOK, HoldsHuman, Committing
  <2>1. CASE CommitClaim(v)
    BY <2>1 DEF CommitClaim, ReadyToCommit, ReferencesActor
  <2>2. CASE CommitUnblock(v)
    BY <2>2 DEF CommitUnblock, RestoreHeld, Restoring, Free
  <2>3. CASE CommitRequest(v)
    BY <2>3 DEF CommitRequest
  <2>4. CASE CommitFinalize(v) \/ CommitBlock(v) \/ CommitDelete(v)
    BY <2>4 DEF CommitFinalize, CommitBlock, CommitDelete
  <2>5. CASE CommitPost(v) \/ CommitActivate(v) \/ CommitDeactivate(v) \/ CommitChangeRole(v)
    BY <2>5 DEF CommitPost, CommitActivate, CommitDeactivate, CommitChangeRole, rowVars
  <2>6. QED
    BY <1>3, <2>1, <2>2, <2>3, <2>4, <2>5 DEF Commit
<1>4. QED
  BY <1>1, <1>2, <1>3 DEF Step, Work, Between

\* So nobody gets one while another transaction holds the row.
LEMMA HeldOperatorGainsNothing ==
  ASSUME IInv, RestoreHeld, NEW v \in Workers, Step(v), NEW u \in Users,
         ~Free(userLock[u], v), ActiveHumanAssignment(u)'
  PROVE  ActiveHumanAssignment(u)
  BY AssignmentNeedsOperator DEF ActiveHumanAssignment

\* The count of _protect_last_admin: a target that is not the last active
\* administrator leaves another one.
LEMMA NotLastAdmin ==
  ASSUME NEW u \in Users, HasRole(u, "ADMIN"), ~IsLastAdmin(u)
  PROVE  \E a \in Users \ {u} : HasRole(a, "ADMIN")
<1> DEFINE Admins == {a \in Users : HasRole(a, "ADMIN")}
<1>1. Admins # {u}
  BY FS_Singleton DEF IsLastAdmin
<1>2. QED
  BY <1>1

-----------------------------------------------------------------------------
(* The invariant.                                                          *)

\* What AInv says of one worker.
Settled(w) ==
  /\ pc[w] = "transition" => job[w].op \in {"request", "claim", "finalize"}
  /\ pc[w] = "lockAssignee" => job[w].op = "unblock"
  /\ pc[w] = "identityLock" => job[w].op \in IdentityOps
  /\ pc[w] = "lockTarget" => job[w].op \in IdentityOps /\ identityLock = w
  /\ Deciding(w) => /\ identityLock = w
                    /\ userLock[job[w].target] = w
                    /\ Unassigned(job[w])
                    /\ Replaceable(job[w])
  /\ Restoring(w) => /\ userLock[assignee[job[w].conv]] = w
                     /\ HasRole(assignee[job[w].conv], "SUPPORT_AGENT")

LEMMA AInvIsSettled == AInv <=> \A w \in Workers : Settled(w)
  BY DEF AInv, StageShape, TargetHeld, TargetUnassigned, AdminRemains, RestoreHeld, Settled

\* The worker that steps: a check made in this step is true after it.
LEMMA OwnStepSettled ==
  ASSUME IInv, NEW v \in Workers, Settled(v), Step(v)
  PROVE  Settled(v)'
<1> USE DEF Settled, Deciding, Restoring
<1>1. TypeOK
  BY DEF IInv
<1>2. ASSUME pc'[v] \in {"idle", "lockAdmin", "lockConversation"}
      PROVE  Settled(v)'
  BY <1>2
<1>3. CASE Start(v)
  <2>1. ASSUME NEW u \in Users, NEW op \in IdentityOps, NEW t \in Targets,
               NEW r \in NewRoles \cup {None}, StartIdentity(v, op, u, t, r)
        PROVE  Settled(v)'
    BY <1>1, <2>1 DEF StartIdentity, Goto, NewJob, TypeOK
  <2>2. QED
    BY <1>1, <1>2, <1>3, <2>1 DEF Start, StartPersonal, StartControl, Goto, TypeOK
<1>4. CASE LockAdmin(v)
  BY <1>1, <1>2, <1>4 DEF LockAdmin, Goto, EndRequest, TypeOK
<1>5. CASE LockConversation(v)
  <2>1. CASE Admits(job[v]) /\ pc' = [pc EXCEPT ![v] = AfterCheck(job[v])] /\ job' = job
    <3>1. job[v].op \notin IdentityOps
      BY <2>1 DEF Admits, IdentityOps
    <3>2. prior' = prior /\ pc'[v] = AfterCheck(job[v]) /\ job'[v] = job[v]
      BY <1>1, <1>5, <2>1 DEF LockConversation, rowVars, TypeOK
    <3>3. QED
      BY <3>1, <3>2 DEF AfterCheck
  <2>2. QED
    BY <1>1, <1>2, <1>5, <2>1 DEF LockConversation, Goto, EndRequest, TypeOK
<1>6. CASE Transition(v)
  BY <1>1, <1>2, <1>6 DEF Transition, Goto, EndRequest, IdentityOps, TypeOK
<1>7. CASE LockAssignee(v)
  <2>1. CASE EndRequest(v)
    BY <1>1, <1>2, <2>1 DEF EndRequest, TypeOK
  <2>2. CASE ~EndRequest(v)
    <3>1. job[v].op = "unblock" /\ job'[v] = job[v] /\ assignee' = assignee /\ prior' = prior
      BY <1>7, <2>2 DEF LockAssignee, rowVars
    <3>2. Checked(v)
      BY <1>7, <3>1 DEF LockAssignee, Checked, ConversationOps, ControlOps
    <3>3. job[v].conv \in Conversations
      BY <1>1, <1>7, <3>1 DEF IInv, JobShape, LockAssignee, TypeOK, ConversationOps, ControlOps
    <3>4. Admits(job[v])
      BY <3>2 DEF IInv, CheckStillHolds
    <3>5. Restoring(v)' => assignee[job[v].conv] \in Users
      BY <1>1, <3>1, <3>3, <3>4
      DEF Admits, MayUnblock, HandoffFits, TypeOK, LifecycleTypeOK
    <3>6. QED
      BY <1>1, <1>7, <2>2, <3>1, <3>5
      DEF LockAssignee, Goto, TypeOK, IdentityOps, userVars, HasRole
  <2>3. QED
    BY <2>1, <2>2
<1>8. CASE TakeIdentityLock(v)
  BY <1>1, <1>2, <1>8 DEF TakeIdentityLock, Goto, EndRequest, TypeOK
<1>9. CASE LockTarget(v)
  <2>1. CASE EndRequest(v)
    BY <1>1, <1>2, <2>1 DEF EndRequest, TypeOK
  <2>2. CASE ~EndRequest(v)
    <3>1. /\ AdmitsIdentity(job[v])
          /\ job[v].op \in IdentityOps
          /\ identityLock = v
          /\ job[v].target \in Users
      BY <1>1, <1>9, <2>2 DEF LockTarget, IInv, JobShape, TypeOK
    <3>2. Unassigned(job[v])
      BY <3>1 DEF Unassigned, AdmitsIdentity, MayDeactivate, MayChangeRole, IdentityOps
    <3>3. Replaceable(job[v])
      BY <3>1, NotLastAdmin
      DEF Replaceable, AdmitsIdentity, MayDeactivate, MayChangeRole, IdentityOps
    <3>4. /\ pc'[v] = "commit" /\ job'[v] = job[v] /\ identityLock' = v
          /\ userLock'[job[v].target] = v
          /\ UNCHANGED <<userVars, rowVars>>
      BY <1>1, <1>9, <2>2, <3>1 DEF LockTarget, Goto, TypeOK
    <3>5. Unassigned(job[v])' /\ Replaceable(job[v])'
      BY <3>2, <3>3, <3>4
      DEF Unassigned, Replaceable, HasRole, ActiveHumanAssignment, HoldsHuman, userVars, rowVars
    <3>6. QED
      BY <3>1, <3>4, <3>5 DEF IdentityOps
  <2>3. QED
    BY <2>1, <2>2
<1>10. CASE Commit(v)
  BY <1>2, <1>10, CommitIsLocal
<1>11. CASE AbortDeadlocked(v) \/ Fail(v)
  BY <1>1, <1>2, <1>11 DEF AbortDeadlocked, Fail, EndRequest, TypeOK
<1>12. QED
  BY <1>3, <1>4, <1>5, <1>6, <1>7, <1>8, <1>9, <1>10, <1>11 DEF Step, Work

\* Every step is the worker's own (of all the cases of IInv's proof).
LEMMA StepIsOwn ==
  ASSUME IInv, NEW v \in Workers, Step(v)
  PROVE  /\ OwnStep(v)
         /\ \A c \in Conversations : SameRow(c) \/ (Checked(v) /\ job[v].conv = c)
<1>1. CASE Start(v)
  BY <1>1, StartIsOwn DEF IInv, rowVars, SameRow
<1>2. CASE Between(v)
  BY <1>2, BetweenIsOwn DEF rowVars, SameRow
<1>3. CASE Commit(v)
  BY <1>3, CommitIsLocal
<1>4. QED
  BY <1>1, <1>2, <1>3 DEF Step, Work, Between

\* The other workers: the locks they hold keep what they found true.
LEMMA OtherStepSettled ==
  ASSUME IInv, AInv, NEW v \in Workers, NEW w \in Workers \ {v}, Step(v)
  PROVE  Settled(w)'
<1>1. TypeOK /\ Settled(w) /\ Settled(v) /\ None \notin Workers
  BY AInvIsSettled, DeskAssumption DEF IInv
<1>2. /\ pc'[w] = pc[w] /\ job'[w] = job[w]
      /\ identityLock = w => identityLock' = w
      /\ \A u \in Users : userLock[u] = w => userLock'[u] = w
  BY <1>1, StepIsOwn DEF OwnStep, Hands, TypeOK
<1>3. ASSUME Deciding(w)
      PROVE  /\ identityLock' = w
             /\ userLock'[job[w].target] = w
             /\ Unassigned(job[w])'
             /\ Replaceable(job[w])'
  <2>1. job[w].target \in Users
    BY <1>1, <1>3 DEF Deciding, IInv, JobShape, TypeOK
  <2>2. PICK t \in Users : t = job[w].target
    BY <2>1
  <2>3. t = job'[w].target
    BY <1>2, <2>2
  <2>4. /\ identityLock = w /\ userLock[t] = w /\ ~Deciding(v)
        /\ Unassigned(job[w]) /\ Replaceable(job[w])
    BY <1>1, <1>3, <2>2 DEF Settled
  <2>5. \A a \in Users : role'[a] = role[a] /\ active'[a] = active[a]
    BY <2>4, AccountsAreLocal
  <2>6. ActiveHumanAssignment(t)' => ActiveHumanAssignment(t)
    BY <1>1, <2>4, HeldOperatorGainsNothing DEF Free, AInv
  <2>7. Unassigned(job[w])'
    BY <1>2, <2>2, <2>3, <2>4, <2>5, <2>6 DEF Unassigned
  <2>8. Replaceable(job[w])'
    BY <1>2, <2>2, <2>3, <2>4, <2>5 DEF Replaceable, HasRole
  <2>9. QED
    BY <1>2, <2>2, <2>4, <2>7, <2>8
<1>4. ASSUME Restoring(w)'
      PROVE  /\ userLock'[assignee'[job[w].conv]] = w
             /\ HasRole(assignee[job[w].conv], "SUPPORT_AGENT")'
  <2> DEFINE c == job[w].conv
             u == assignee[c]
  <2>1. Checked(w)
    BY <1>2, <1>4 DEF Restoring, Checked, ConversationOps, ControlOps
  <2>2. c \in Conversations /\ Admits(job[w]) /\ convLock[c] = w
    BY <1>1, <2>1 DEF Checked, IInv, JobShape, TypeOK, Exclusive, CheckStillHolds
  <2>3. SameRow(c)
    BY <2>1, <2>2, StepIsOwn DEF IInv, Exclusive
  <2>4. Restoring(w) /\ u \in Users
    BY <1>1, <1>2, <1>4, <2>2, <2>3
    DEF Restoring, SameRow, Admits, MayUnblock, HandoffFits, TypeOK, LifecycleTypeOK
  <2>5. userLock[u] = w /\ HasRole(u, "SUPPORT_AGENT")
    BY <1>1, <2>4 DEF Settled
  <2>6. ~(Deciding(v) /\ job[v].target = u)
    BY <1>1, <2>5 DEF Settled
  <2>7. role'[u] = role[u] /\ active'[u] = active[u]
    BY <2>4, <2>6, AccountsAreLocal
  <2>8. assignee'[c] = u
    BY <2>3 DEF SameRow
  <2>9. QED
    BY <1>2, <2>4, <2>5, <2>7, <2>8 DEF HasRole
<1>5. QED
  BY <1>1, <1>2, <1>3, <1>4 DEF Settled, Deciding, Restoring

LEMMA InitAInv == Init => AInv
  BY DEF Init, AInv, StageShape, TargetHeld, TargetUnassigned, AdminRemains, RestoreHeld,
         Deciding, Restoring

LEMMA NextKeepsAInv == IInv /\ AInv /\ [Next]_vars => AInv'
<1>1. ASSUME IInv, AInv, NEW v \in Workers, Step(v)
      PROVE  AInv'
  <2>1. ASSUME NEW w \in Workers
        PROVE  Settled(w)'
    <3>1. CASE w = v
      BY <1>1, <3>1, AInvIsSettled, OwnStepSettled
    <3>2. CASE w # v
      BY <1>1, <3>2, OtherStepSettled
    <3>3. QED
      BY <3>1, <3>2
  <2>2. QED
    BY <2>1
    DEF AInv, StageShape, TargetHeld, TargetUnassigned, AdminRemains, RestoreHeld, Settled
<1>2. ASSUME AInv, UNCHANGED vars
      PROVE  AInv'
  BY <1>2
  DEF vars, AInv, StageShape, TargetHeld, TargetUnassigned, AdminRemains, RestoreHeld,
      Deciding, Restoring, Unassigned, Replaceable, ActiveHumanAssignment, HoldsHuman, HasRole
<1>3. QED
  BY <1>1, <1>2 DEF Next, Step

\* THEOREM: every identity operation about to commit holds its target, which
\* owns no HUMAN conversation and is not the last administrator; every unblock
\* about to restore HUMAN holds an active operator.
THEOREM DeskAccountsInvariant == Spec => []AInv
  BY InitIInv, NextKeepsIInv, InitAInv, NextKeepsAInv, PTL DEF Spec

-----------------------------------------------------------------------------
(* What follows.                                                           *)

\* THEOREM: no role change or deactivation of a SUPPORT_AGENT commits while
\* that user owns a HUMAN conversation (deactivate_user, change_role).
THEOREM DeskNoDemotionDuringAssignment == Spec => NoDemotionDuringAssignment
<1>1. ASSUME IInv, AInv, NEW v \in Workers, Step(v), NEW u \in Users, LosesRole(u)
      PROVE  ~ActiveHumanAssignment(u)
  <2>1. HasRole(u, "SUPPORT_AGENT") /\ ~(role'[u] = role[u] /\ active'[u] = active[u])
    BY <1>1 DEF LosesRole, HasRole
  <2>2. Deciding(v) /\ job[v].target = u
    BY <1>1, <2>1, AccountsAreLocal
  <2>3. job[v].op # "activate"
    <3>1. ASSUME job[v].op = "activate"
          PROVE  FALSE
      <4>1. Commit(v) => CommitActivate(v)
        BY <3>1 DEF Commit, Committing, CommitRequest, CommitClaim, CommitPost,
           CommitFinalize, CommitBlock, CommitUnblock, CommitDelete, CommitDeactivate,
           CommitChangeRole
      <4>2. ~Commit(v)
        BY <1>1, <2>1, <2>2, <4>1
        DEF CommitActivate, LosesRole, HasRole, IInv, TypeOK
      <4>3. Start(v) \/ Between(v)
        BY <1>1, <4>2 DEF Step, Work, Between
      <4>4. QED
        BY <1>1, <2>1, <4>3, StartIsOwn, BetweenIsOwn DEF IInv, userVars
    <3>2. QED
      BY <3>1
  <2>4. QED
    BY <1>1, <2>1, <2>2, <2>3
    DEF AInv, TargetUnassigned, Deciding, Unassigned, HasRole, IdentityOps
<1>2. IInv /\ AInv /\ [Next]_vars
        => [\A u \in Users : LosesRole(u) => ~ActiveHumanAssignment(u)]_vars
  BY <1>1 DEF Next, Step
<1>3. QED
  BY <1>2, DeskInvariant, DeskAccountsInvariant, PTL DEF Spec, NoDemotionDuringAssignment

\* THEOREM: an unblock gives a conversation back to HUMAN only when its
\* operator is, in the state it commits, an active SUPPORT_AGENT.
THEOREM DeskRestoredOwnerIsEligible == Spec => RestoredOwnerIsEligible
<1>1. ASSUME IInv, AInv, NEW v \in Workers, Step(v), NEW c \in Conversations,
             status[c] = "BLOCKED", status'[c] = "HUMAN"
      PROVE  HasRole(assignee[c], "SUPPORT_AGENT")'
  <2>1. Checked(v) /\ job[v].conv = c
    BY <1>1, StepIsOwn DEF SameRow
  <2>2. Admits(job[v])
    BY <1>1, <2>1 DEF IInv, CheckStillHolds
  <2>3. Commit(v)
    BY <1>1, StartIsOwn, BetweenIsOwn DEF IInv, rowVars, Step, Work, Between
  <2>4. CommitUnblock(v)
    BY <1>1, <2>1, <2>2, <2>3
    DEF Commit, Committing, CommitRequest, CommitClaim, CommitPost, CommitFinalize,
        CommitBlock, CommitDelete, CommitActivate, CommitDeactivate, CommitChangeRole,
        rowVars, Admits, MayRequest, MayClaim, IInv, TypeOK, LifecycleTypeOK
  <2>5. prior[c] = "HUMAN"
    BY <1>1, <2>1, <2>4 DEF CommitUnblock, IInv, TypeOK, LifecycleTypeOK
  <2>6. HasRole(assignee[c], "SUPPORT_AGENT")
    BY <1>1, <2>1, <2>4, <2>5 DEF CommitUnblock, Committing, AInv, RestoreHeld, Restoring
  <2>7. QED
    BY <2>4, <2>6 DEF CommitUnblock, userVars, HasRole
<1>2. IInv /\ AInv /\ [Next]_vars
        => [\A c \in Conversations :
              status[c] = "BLOCKED" /\ status'[c] = "HUMAN"
                => HasRole(assignee[c], "SUPPORT_AGENT")']_vars
  BY <1>1 DEF Next, Step
<1>3. QED
  BY <1>2, DeskInvariant, DeskAccountsInvariant, PTL DEF Spec, RestoredOwnerIsEligible

\* THEOREM: if the portal starts with an administrator, it always has an active
\* one (_protect_last_admin under the advisory lock).
THEOREM DeskSomeActiveAdmin ==
  ASSUME \E u \in Users : InitialRole[u] = "ADMIN"
  PROVE  Spec => []SomeActiveAdmin
<1>1. Init => SomeActiveAdmin
  BY DeskAssumption DEF Init, SomeActiveAdmin, HasRole
<1>2. ASSUME IInv, AInv, SomeActiveAdmin, NEW v \in Workers, Step(v)
      PROVE  SomeActiveAdmin'
  <2>1. PICK a \in Users : HasRole(a, "ADMIN")
    BY <1>2 DEF SomeActiveAdmin
  <2>2. CASE HasRole(a, "ADMIN")'
    BY <2>2 DEF SomeActiveAdmin
  <2>3. CASE ~HasRole(a, "ADMIN")'
    <3>1. ~(role'[a] = role[a] /\ active'[a] = active[a])
      BY <2>1, <2>3 DEF HasRole
    <3>2. Deciding(v) /\ job[v].target = a
      BY <1>2, <3>1, AccountsAreLocal
    <3>3. Commit(v)
      BY <1>2, <3>1, StartIsOwn, BetweenIsOwn DEF IInv, userVars, Step, Work, Between
    <3>4. CommitDeactivate(v) \/ (CommitChangeRole(v) /\ job[v].newRole # "ADMIN")
      BY <1>2, <2>1, <2>3, <3>1, <3>2, <3>3
      DEF Commit, Committing, CommitRequest, CommitClaim, CommitPost, CommitFinalize,
          CommitBlock, CommitUnblock, CommitDelete, CommitActivate, CommitChangeRole,
          userVars, HasRole, IInv, TypeOK
    <3>5. Replaceable(job[v])
      BY <1>2, <3>2 DEF AInv, AdminRemains
    <3>6. PICK b \in Users \ {a} : HasRole(b, "ADMIN")
      BY <2>1, <3>2, <3>4, <3>5
      DEF Replaceable, CommitDeactivate, CommitChangeRole, Committing
    <3>7. HasRole(b, "ADMIN")'
      BY <1>2, <3>2, <3>6, AccountsAreLocal DEF HasRole
    <3>8. QED
      BY <3>7 DEF SomeActiveAdmin
  <2>4. QED
    BY <2>2, <2>3
<1>3. ASSUME SomeActiveAdmin, UNCHANGED vars
      PROVE  SomeActiveAdmin'
  BY <1>3 DEF vars, SomeActiveAdmin, HasRole
<1>4. IInv /\ AInv /\ SomeActiveAdmin /\ [Next]_vars => SomeActiveAdmin'
  BY <1>2, <1>3 DEF Next, Step
<1>5. QED
  BY <1>1, <1>4, DeskInvariant, DeskAccountsInvariant, PTL DEF Spec

-----------------------------------------------------------------------------
(* Who waits for whom.                                                     *)

\* A control operation past its first lock.
Controlling(w) ==
  job[w].op \in ControlOps /\ pc[w] \in {"lockConversation", "lockAssignee", "commit"}

\* Whose row a transaction may hold: the ADMIN's own, or the last one it needs.
HoldsUser(w, u) ==
  \/ Controlling(w) /\ job[w].actor = u
  \/ pc[w] = "commit" /\ job[w].op \in {"unblock"} \cup IdentityOps

\* The locks a worker holds at its stage are those its stage explains, and the
\* row of an ADMIN keeps that role while it is held.
Explained(w) ==
  /\ pc[w] = "lockAdmin" => job[w].op \in ControlOps
  /\ pc[w] = "lockConversation" => job[w].op \in ConversationOps
  /\ pc[w] = "lockAssignee" => job[w].op = "unblock" /\ prior[job[w].conv] = "HUMAN"
  /\ \A u \in Users : userLock[u] = w => HoldsUser(w, u)
  /\ \A c \in Conversations : convLock[c] = w => Checked(w) /\ job[w].conv = c
  /\ identityLock = w => pc[w] = "lockTarget" \/ Deciding(w)
  /\ Controlling(w) => userLock[job[w].actor] = w /\ HasRole(job[w].actor, "ADMIN")

LInv == \A w \in Workers : Explained(w)

\* A request that ends holds nothing.
LEMMA EndExplained ==
  ASSUME TypeOK, NEW v \in Workers, EndRequest(v)
  PROVE  Explained(v)'
<1>1. /\ pc'[v] = "idle" /\ identityLock' # v
      /\ \A u \in Users : userLock'[u] # v
      /\ \A c \in Conversations : convLock'[c] # v
  BY DeskAssumption DEF EndRequest, Released, TypeOK
<1>2. QED
  BY <1>1 DEF Explained, Controlling

LEMMA OwnStepExplained ==
  ASSUME IInv, AInv, NEW v \in Workers, Explained(v), Step(v)
  PROVE  Explained(v)'
<1> USE DEF Explained, HoldsUser, Controlling, Deciding, Checked
<1>1. TypeOK /\ Settled(v) /\ None \notin Workers
  BY AInvIsSettled, DeskAssumption DEF IInv
<1>2. job[v] # None => job[v] \in Jobs /\ job[v].actor \in Users
  BY <1>1 DEF TypeOK, Jobs
<1>3. CASE Start(v)
  <2>1. pc[v] = "idle"
    BY <1>3 DEF Start, StartPersonal, StartControl, StartIdentity
  <2>2. /\ \A u \in Users : userLock[u] # v
        /\ \A c \in Conversations : convLock[c] # v
        /\ identityLock # v
    BY <2>1
  <2>3. UNCHANGED lockVars
    BY <1>1, <1>3, StartIsOwn
  <2>4. ASSUME NEW u \in Users, NEW op \in ClientOps \cup AgentOps,
               NEW c \in Conversations, StartPersonal(v, op, u, c)
        PROVE  /\ pc'[v] = "lockConversation"
               /\ job'[v].op \in ConversationOps \ ControlOps
    BY <1>1, <2>4
    DEF StartPersonal, Goto, NewJob, TypeOK, ClientOps, AgentOps, ControlOps, ConversationOps
  <2>5. ASSUME NEW u \in Users, NEW op \in ControlOps, NEW c \in Conversations,
               StartControl(v, op, u, c)
        PROVE  pc'[v] = "lockAdmin" /\ job'[v].op \in ControlOps
    BY <1>1, <2>5 DEF StartControl, Goto, NewJob, TypeOK
  <2>6. ASSUME NEW u \in Users, NEW op \in IdentityOps, NEW t \in Targets,
               NEW r \in NewRoles \cup {None}, StartIdentity(v, op, u, t, r)
        PROVE  pc'[v] = "identityLock"
    BY <1>1, <2>6 DEF StartIdentity, Goto, TypeOK
  <2>7. QED
    BY <1>3, <2>2, <2>3, <2>4, <2>5, <2>6 DEF Start, lockVars
<1>4. CASE LockAdmin(v)
  <2>1. CASE EndRequest(v)
    BY <1>1, <2>1, EndExplained
  <2>2. CASE ~EndRequest(v)
    BY <1>1, <1>2, <1>4, <2>2
    DEF LockAdmin, Goto, TypeOK, userVars, HasRole, ControlOps, ConversationOps
  <2>3. QED
    BY <2>1, <2>2
<1>5. CASE LockConversation(v)
  <2>1. CASE EndRequest(v)
    BY <1>1, <2>1, EndExplained
  <2>2. CASE ~EndRequest(v)
    <3>1. /\ pc[v] = "lockConversation" /\ pc'[v] = AfterCheck(job[v])
          /\ job'[v] = job[v] /\ UNCHANGED <<userLock, identityLock, role, active>>
          /\ convLock' = [convLock EXCEPT ![job[v].conv] = v]
      BY <1>1, <1>5, <2>2 DEF LockConversation, Goto, TypeOK, userVars
    <3>2. AfterCheck(job[v]) \in {"transition", "lockAssignee", "commit"}
      BY DEF AfterCheck
    <3>3. job[v].op \in ControlOps => AfterCheck(job[v]) \in {"lockAssignee", "commit"}
      BY DEF AfterCheck, ControlOps
    <3>4. \A c \in Conversations : convLock'[c] = v => job[v].conv = c
      BY <1>1, <3>1 DEF TypeOK
    <3>5. identityLock' # v /\ \A u \in Users : userLock'[u] = v => Controlling(v) /\ job[v].actor = u
      BY <3>1
    <3>6. AfterCheck(job[v]) = "lockAssignee"
            => job[v].op = "unblock" /\ prior'[job[v].conv] = "HUMAN"
      BY <1>5 DEF AfterCheck, LockConversation, rowVars
    <3>7. QED
      BY <3>1, <3>2, <3>3, <3>4, <3>5, <3>6 DEF HasRole
  <2>3. QED
    BY <2>1, <2>2
<1>6. CASE Transition(v)
  <2>1. CASE EndRequest(v)
    BY <1>1, <2>1, EndExplained
  <2>2. CASE ~EndRequest(v)
    <3>1. job[v].op \in ConversationOps \ ControlOps
      BY <1>1, <1>6
      DEF Settled, Transition, ConversationOps, ClientOps, AgentOps, ControlOps
    <3>2. QED
      BY <1>1, <1>6, <2>2, <3>1 DEF Transition, Goto, TypeOK, lockVars
  <2>3. QED
    BY <2>1, <2>2
<1>7. CASE LockAssignee(v)
  <2>1. CASE EndRequest(v)
    BY <1>1, <2>1, EndExplained
  <2>2. CASE ~EndRequest(v)
    BY <1>1, <1>2, <1>7, <2>2
    DEF Settled, LockAssignee, Goto, TypeOK, userVars, HasRole, ControlOps, ConversationOps
  <2>3. QED
    BY <2>1, <2>2
<1>8. CASE TakeIdentityLock(v)
  <2>1. CASE EndRequest(v)
    BY <1>1, <2>1, EndExplained
  <2>2. CASE ~EndRequest(v)
    BY <1>1, <1>8, <2>2 DEF TakeIdentityLock, Goto, TypeOK
  <2>3. QED
    BY <2>1, <2>2
<1>9. CASE LockTarget(v)
  <2>1. CASE EndRequest(v)
    BY <1>1, <2>1, EndExplained
  <2>2. CASE ~EndRequest(v)
    BY <1>1, <1>9, <2>2
    DEF Settled, LockTarget, Goto, TypeOK, IdentityOps, ControlOps
  <2>3. QED
    BY <2>1, <2>2
<1>10. CASE Commit(v) \/ AbortDeadlocked(v) \/ Fail(v)
  <2>1. EndRequest(v)
    BY <1>10
    DEF Commit, CommitRequest, CommitClaim, CommitPost, CommitFinalize, CommitBlock,
        CommitUnblock, CommitDelete, CommitActivate, CommitDeactivate, CommitChangeRole,
        Committing, AbortDeadlocked, Fail
  <2>2. QED
    BY <1>1, <2>1, EndExplained
<1>11. QED
  BY <1>3, <1>4, <1>5, <1>6, <1>7, <1>8, <1>9, <1>10 DEF Step, Work

LEMMA OtherStepExplained ==
  ASSUME IInv, AInv, NEW v \in Workers, NEW w \in Workers \ {v}, Explained(w), Step(v)
  PROVE  Explained(w)'
<1>1. /\ pc'[w] = pc[w] /\ job'[w] = job[w]
      /\ identityLock' = w => identityLock = w
      /\ \A u \in Users : userLock'[u] = w <=> userLock[u] = w
      /\ \A c \in Conversations : convLock'[c] = w => convLock[c] = w
  BY StepIsOwn, DeskAssumption DEF OwnStep, Hands, IInv, TypeOK
<1>2. ASSUME Controlling(w)
      PROVE  userLock'[job[w].actor] = w /\ HasRole(job[w].actor, "ADMIN")'
  <2>1. PICK u \in Users : u = job[w].actor
    BY <1>2 DEF Controlling, IInv, TypeOK, Jobs
  <2>2. userLock[u] = w /\ HasRole(u, "ADMIN")
    BY <1>2, <2>1 DEF Explained
  <2>3. ~(Deciding(v) /\ job[v].target = u)
    BY <2>2, AInvIsSettled DEF Settled
  <2>4. role'[u] = role[u] /\ active'[u] = active[u]
    BY <2>3, AccountsAreLocal
  <2>5. job'[w].actor = u
    BY <1>1, <2>1
  <2>6. QED
    BY <1>1, <2>1, <2>2, <2>4 DEF HasRole
<1>3. ASSUME pc[w] = "lockAssignee"
      PROVE  prior'[job[w].conv] = "HUMAN"
  <2>1. job[w].op = "unblock" /\ prior[job[w].conv] = "HUMAN" /\ Checked(w)
    BY <1>3 DEF Explained, Checked, ConversationOps, ControlOps
  <2>2. PICK c \in Conversations : c = job[w].conv
    BY <1>3, <2>1 DEF Checked, IInv, JobShape, TypeOK
  <2>3. SameRow(c)
    BY <2>1, <2>2, StepIsOwn DEF IInv, Exclusive
  <2>4. QED
    BY <2>1, <2>2, <2>3 DEF SameRow
<1>4. QED
  BY <1>1, <1>2, <1>3 DEF Explained, HoldsUser, Controlling, Deciding, Checked

LEMMA NextKeepsLInv == IInv /\ AInv /\ LInv /\ [Next]_vars => LInv'
<1>1. ASSUME IInv, AInv, LInv, NEW v \in Workers, Step(v), NEW w \in Workers
      PROVE  Explained(w)'
  BY <1>1, OwnStepExplained, OtherStepExplained DEF LInv
<1>2. ASSUME LInv, UNCHANGED vars
      PROVE  LInv'
  BY <1>2 DEF vars, LInv, Explained, HoldsUser, Controlling, Deciding, Checked, HasRole
<1>3. QED
  BY <1>1, <1>2 DEF Next, Step, LInv

LEMMA InitLInv == Init => LInv
  BY DeskAssumption DEF Init, LInv, Explained, Controlling, Deciding

\* In a wait cycle everyone waits for a lock and is waited for: nobody is at the
\* start of a request, nor in an identity operation.
LEMMA StagesOfCycle ==
  ASSUME IInv, AInv, LInv, NEW S \in SUBSET Workers, WaitCycle(S), NEW w \in S
  PROVE  \/ pc[w] \in {"lockConversation", "lockAssignee"}
         \/ pc[w] = "commit" /\ job[w].op \in ReferencesActor
<1>1. \A v \in S : Holder(v) \in S /\ \E x \in S : Holder(x) = v
  BY DEF WaitCycle
<1>2. None \notin S /\ \A v \in S : pc[v] \in Stages
  BY DeskAssumption DEF IInv, TypeOK
<1>3. \A v \in S : Holder(v) # None
  BY <1>1, <1>2
<1>4. \A v \in S : \/ pc[v] \in {"lockAdmin", "lockConversation", "lockAssignee",
                                "identityLock", "lockTarget"}
                   \/ pc[v] = "commit" /\ job[v].op \in ReferencesActor
  BY <1>2, <1>3 DEF Holder, ReadyToCommit, Stages
<1>5. ASSUME NEW v \in S, NEW x \in S, Holder(x) = v
      PROVE  \/ \E u \in Users : userLock[u] = v
             \/ \E c \in Conversations : convLock[c] = v
             \/ identityLock = v /\ pc[x] = "identityLock"
  <2>1. v \in Workers /\ v # None
    BY DeskAssumption
  <2>2. x \in Workers /\ Explained(x) /\ Settled(x) /\ job[x] \in Jobs
    BY <1>4, AInvIsSettled DEF LInv, IInv, TypeOK
  <2>3. job[x].actor \in Users /\ (job[x].op \in IdentityOps => job[x].target \in Users)
        /\ (job[x].op \in ConversationOps => job[x].conv \in Conversations)
    BY <2>2, DeskAssumption DEF Jobs, IInv, JobShape
  <2>4. pc[x] = "lockAssignee" => assignee[job[x].conv] \in Users
    <3>1. ASSUME pc[x] = "lockAssignee"
          PROVE  assignee[job[x].conv] \in Users
      <4>1. job[x].op = "unblock"
        BY <2>2, <3>1 DEF Settled
      <4>2. Checked(x) /\ job[x].conv \in Conversations
        BY <2>3, <3>1, <4>1 DEF Checked, ConversationOps, ControlOps
      <4>3. Admits(job[x]) /\ prior[job[x].conv] = "HUMAN"
        BY <2>2, <3>1, <4>1, <4>2 DEF IInv, CheckStillHolds, Explained
      <4>4. QED
        BY <4>1, <4>2, <4>3
        DEF Admits, MayUnblock, HandoffFits, IInv, TypeOK, LifecycleTypeOK
    <3>2. QED
      BY <3>1
  <2>5. QED
    BY <1>4, <1>5, <2>1, <2>2, <2>3, <2>4 DEF Holder, Explained, Settled
<1>6. \A v \in S : pc[v] \notin {"lockAdmin", "identityLock"}
  BY <1>1, <1>5 DEF LInv, Explained, HoldsUser, Controlling, Checked, Deciding
<1>7. \A v \in S : pc[v] # "lockTarget"
  BY <1>1, <1>5, <1>6 DEF LInv, Explained, HoldsUser, Controlling, Checked
<1>8. QED
  BY <1>4, <1>6, <1>7

LEMMA CyclesPromote ==
  IInv /\ AInv /\ LInv => CyclesNeedPromotedOperator
<1> SUFFICES ASSUME IInv, AInv, LInv, NEW S \in SUBSET Workers, WaitCycle(S)
             PROVE  \E v, w \in S :
                      /\ job[v].op \in ControlOps
                      /\ HasRole(job[v].actor, "ADMIN")
                      /\ Holder(w) = v
                      /\ \/ pc[w] = "lockAssignee" /\ assignee[job[w].conv] = job[v].actor
                         \/ /\ pc[w] = "commit"
                            /\ job[w].op \in ReferencesActor
                            /\ job[w].actor = job[v].actor
  BY DEF CyclesNeedPromotedOperator
<1>1. S # {} /\ None \notin S /\ \A v \in S : Holder(v) \in S /\ \E x \in S : Holder(x) = v
  BY DeskAssumption DEF WaitCycle
<1>2. \A v \in S : v \in Workers /\ Explained(v) /\ Settled(v)
  BY AInvIsSettled DEF LInv
<1>3. PICK w \in S : pc[w] # "lockConversation"
  <2>1. ASSUME \A x \in S : pc[x] = "lockConversation"
        PROVE  FALSE
    <3>1. PICK x \in S : TRUE
      BY <1>1
    <3>2. PICK v \in S : Holder(x) = v
      BY <1>1
    <3>3. convLock[job[x].conv] = v
      BY <1>1, <2>1, <3>1, <3>2 DEF Holder
    <3>4. job[x].conv \in Conversations
      BY <1>2, <2>1 DEF Explained, IInv, JobShape, TypeOK
    <3>5. QED
      BY <1>2, <2>1, <3>3, <3>4 DEF Explained, Checked
  <2>2. QED
    BY <2>1
<1>4. \/ pc[w] = "lockAssignee"
      \/ pc[w] = "commit" /\ job[w].op \in ReferencesActor
  BY <1>3, StagesOfCycle
<1>5. PICK v \in S : Holder(w) = v
  BY <1>1
<1> DEFINE u == IF pc[w] = "lockAssignee" THEN assignee[job[w].conv] ELSE job[w].actor
<1>6. userLock[u] = v
  BY <1>1, <1>4, <1>5 DEF Holder
<1>7. u \in Users
  <2>1. job[w] \in Jobs
    BY <1>2, <1>4, DeskAssumption DEF IInv, TypeOK
  <2>2. CASE pc[w] = "lockAssignee"
    <3>1. /\ job[w].op = "unblock" /\ prior[job[w].conv] = "HUMAN" /\ Checked(w)
      BY <1>2, <2>2 DEF Explained, Checked, ConversationOps, ControlOps
    <3>2. Admits(job[w]) /\ job[w].conv \in Conversations
      BY <1>2, <2>1, <3>1, DeskAssumption DEF IInv, CheckStillHolds, JobShape, Checked
    <3>3. QED
      BY <2>2, <3>1, <3>2
      DEF Admits, MayUnblock, HandoffFits, IInv, TypeOK, LifecycleTypeOK
  <2>3. CASE pc[w] # "lockAssignee"
    BY <2>1, <2>3 DEF Jobs
  <2>4. QED
    BY <2>2, <2>3
<1>8. HoldsUser(v, u)
  BY <1>2, <1>6, <1>7 DEF Explained
<1>9. Controlling(v) /\ job[v].actor = u
  <2>1. \/ pc[v] \in {"lockConversation", "lockAssignee"}
        \/ pc[v] = "commit" /\ job[v].op \in ReferencesActor
    BY StagesOfCycle
  <2>2. QED
    BY <1>8, <2>1 DEF HoldsUser, ReferencesActor, IdentityOps
<1>10. HasRole(job[v].actor, "ADMIN")
  BY <1>2, <1>9 DEF Explained
<1>11. QED
  BY <1>4, <1>5, <1>9, <1>10 DEF Controlling

\* THEOREM: transactions of the desk wait for each other in a cycle only if an
\* administrator's control operation holds its actor's row and another one needs
\* that row as its operator's (conversation_services locks the ADMIN first,
\* unblock and the foreign keys lock the operator last); without a promoted
\* operator the services cannot deadlock.
THEOREM DeskCyclesNeedPromotedOperator == Spec => []CyclesNeedPromotedOperator
  BY InitLInv, NextKeepsLInv, CyclesPromote, DeskInvariant, DeskAccountsInvariant, PTL DEF Spec

=============================================================================
