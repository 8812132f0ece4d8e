---------------------------- MODULE SupportDesk -----------------------------
(***************************************************************************)
(* The services that move a conversation through human support, the        *)
(* administrator's controls over it, and the identity operations that read *)
(* support assignments, as concurrent PostgreSQL transactions:             *)
(*                                                                         *)
(*   support/services.py                     request, claim, post, finalize *)
(*   admin_portal/conversation_services.py   block, unblock, delete         *)
(*   accounts/services.py                    activate, deactivate, changeRole *)
(*                                                                         *)
(* A worker runs one request at a time.  Its transaction reads, takes row  *)
(* locks in the code's order, may call the escalation service while it     *)
(* holds them, and writes everything at commit (READ COMMITTED, so nobody  *)
(* sees it earlier).  A handoff row is only locked by a transaction that   *)
(* holds its conversation row, so the conversation lock stands for both.   *)
(***************************************************************************)
EXTENDS ConversationLifecycle, Naturals, FiniteSets

CONSTANTS
  Workers,          \* bound: the requests in progress at a time
  Owner,            \* conversations.owner, fixed at creation
  InitialRole,      \* users.role when the run starts
  Operations,       \* bound: the operations a run exercises
  Targets,          \* bound: the accounts its identity operations change
  NewRoles          \* bound: the roles they give

ClientOps == {"request"}
AgentOps == {"claim", "post", "finalize"}
ControlOps == {"block", "unblock", "delete"}
IdentityOps == {"activate", "deactivate", "changeRole"}
ConversationOps == ClientOps \cup AgentOps \cup ControlOps

\* The requests: an operation by an actor, on a conversation or on a user.
Jobs == [op: ConversationOps \cup IdentityOps, actor: Users,
         conv: Conversations \cup {None}, target: Users \cup {None},
         newRole: Roles \cup {None}]

ASSUME DeskAssumption ==
  /\ None \notin Workers \cup Conversations \cup Roles \cup Jobs
  /\ Owner \in [Conversations -> Users]
  /\ InitialRole \in [Users -> Roles]
  /\ Operations \subseteq ConversationOps \cup IdentityOps
  /\ Targets \subseteq Users
  /\ NewRoles \subseteq Roles

VARIABLES
  role, active,    \* users
  posts,           \* posts[c]: the authors of c's SUPPORT_AGENT messages
  userLock,        \* who holds the row FOR UPDATE
  convLock,        \* likewise, for conversations and their handoff
  identityLock,    \* pg_advisory_xact_lock(_IDENTITY_LOCK_KEY)
  pc, job          \* the request each worker runs and how far it is

userVars == <<role, active>>
rowVars == <<status, prior, handoff, assignee, resolver, posts>>
lockVars == <<userLock, convLock, identityLock>>
vars == <<role, active, status, prior, handoff, assignee, resolver, posts,
          userLock, convLock, identityLock, pc, job>>

Stages == {"idle", "lockAdmin", "lockConversation", "transition", "lockAssignee",
           "identityLock", "lockTarget", "commit"}

Init ==
  /\ role = InitialRole
  /\ active = [u \in Users |-> TRUE]
  /\ LifecycleInit
  /\ posts = [c \in Conversations |-> {}]
  /\ userLock = [u \in Users |-> None]
  /\ convLock = [c \in Conversations |-> None]
  /\ identityLock = None
  /\ pc = [w \in Workers |-> "idle"]
  /\ job = [w \in Workers |-> None]

-----------------------------------------------------------------------------
(* What the services check once they hold the conversation.                *)

HasRole(u, r) == active[u] /\ role[u] = r

MayRequest(c, u) ==
  /\ Owner[c] = u
  /\ handoff[c] = "NONE"
  /\ status[c] = "ACTIVE"

MayClaim(c) ==
  /\ status[c] = "WAITING_HUMAN"
  /\ handoff[c] = "WAITING"

\* The same test admits a support message and the finalization.
HoldsHuman(c, u) ==
  /\ status[c] = "HUMAN"
  /\ handoff[c] = "ASSIGNED"
  /\ assignee[c] = u

\* _assert_block_state_consistent and the first tests of
\* _assert_valid_restoration: state s agrees with the handoff row of c.
HandoffFits(s, c) ==
  \/ s = "ACTIVE" /\ handoff[c] \notin {"WAITING", "ASSIGNED", "RESOLVED"}
  \/ s = "WAITING_HUMAN" /\ handoff[c] = "WAITING" /\ assignee[c] = None
  \/ s = "HUMAN" /\ handoff[c] = "ASSIGNED" /\ assignee[c] # None

\* Mutated form: no check that the conversation is live.
MayBlockAnything(c) == status[c] # "BLOCKED"

MayBlock(c) == HandoffFits(status[c], c)

MayUnblock(c) ==
  /\ status[c] = "BLOCKED"
  /\ prior[c] \in Blockable
  /\ HandoffFits(prior[c], c)

\* Mutated form: the open handoff is not looked at.
MayDeleteAnything(c) == status[c] # "DELETED"

MayDelete(c) ==
  /\ status[c] # "DELETED"
  /\ handoff[c] \notin {"WAITING", "ASSIGNED"}

Admits(j) ==
  \/ j.op = "request" /\ MayRequest(j.conv, j.actor)
  \/ j.op = "claim" /\ MayClaim(j.conv)
  \/ j.op \in {"post", "finalize"} /\ HoldsHuman(j.conv, j.actor)
  \/ j.op = "block" /\ MayBlock(j.conv)
  \/ j.op = "unblock" /\ MayUnblock(j.conv)
  \/ j.op = "delete" /\ MayDelete(j.conv)

(* What the identity services check once they hold the target user.        *)

ActiveHumanAssignment(u) ==
  \E c \in Conversations : HoldsHuman(c, u)

\* _protect_last_admin refuses to remove the only active ADMIN.
IsLastAdmin(u) ==
  /\ HasRole(u, "ADMIN")
  /\ Cardinality({a \in Users : HasRole(a, "ADMIN")}) <= 1

MayActivate(u) ==
  /\ ~active[u]
  /\ ~(role[u] = "SUPPORT_AGENT" /\ ActiveHumanAssignment(u))

MayDeactivate(u) ==
  /\ active[u]
  /\ ~IsLastAdmin(u)
  /\ ~(role[u] = "SUPPORT_AGENT" /\ ActiveHumanAssignment(u))

MayChangeRole(u, r) ==
  /\ role[u] # r
  /\ ~(r # "ADMIN" /\ IsLastAdmin(u))
  /\ ~(role[u] = "SUPPORT_AGENT" /\ ActiveHumanAssignment(u))

AdmitsIdentity(j) ==
  \/ j.op = "activate" /\ MayActivate(j.target)
  \/ j.op = "deactivate" /\ MayDeactivate(j.target)
  \/ j.op = "changeRole" /\ MayChangeRole(j.target, j.newRole)

-----------------------------------------------------------------------------
(* Locks.                                                                  *)

Free(holder, w) == holder \in {None, w}

\* Mutated form: foreign keys declared with db_constraint=False.
ReferencesNobody == {}

\* The inserted or updated row of these operations references the actor's user
\* row; the deferred foreign-key check of the commit takes it FOR KEY SHARE,
\* which waits for a transaction that holds it FOR UPDATE.
ReferencesActor == {"claim", "post", "finalize"}

ReadyToCommit(w) ==
  job[w].op \in ReferencesActor => Free(userLock[job[w].actor], w)

Released(lock, w) == [x \in DOMAIN lock |-> IF lock[x] = w THEN None ELSE lock[x]]

\* Mutated form: the session-level pg_advisory_lock, which a commit keeps.
EndKeepingIdentityLock(w) ==
  /\ pc' = [pc EXCEPT ![w] = "idle"]
  /\ job' = [job EXCEPT ![w] = None]
  /\ userLock' = Released(userLock, w)
  /\ convLock' = Released(convLock, w)
  /\ UNCHANGED identityLock

\* The transaction of w ends, committed or rolled back.
EndRequest(w) ==
  /\ pc' = [pc EXCEPT ![w] = "idle"]
  /\ job' = [job EXCEPT ![w] = None]
  /\ userLock' = Released(userLock, w)
  /\ convLock' = Released(convLock, w)
  /\ identityLock' = IF identityLock = w THEN None ELSE identityLock

Goto(w, stage) == pc' = [pc EXCEPT ![w] = stage]

-----------------------------------------------------------------------------
(* The requests, stage by stage.                                           *)

NewJob(op, u, c, t, r) ==
  [op |-> op, actor |-> u, conv |-> c, target |-> t, newRole |-> r]

\* _current_user: the actor's own row is read once, without a lock.
StartPersonal(w, op, u, c) ==
  /\ pc[w] = "idle"
  /\ op \in Operations \cap (ClientOps \cup AgentOps)
  /\ HasRole(u, IF op \in ClientOps THEN "CLIENT" ELSE "SUPPORT_AGENT")
  /\ job' = [job EXCEPT ![w] = NewJob(op, u, c, None, None)]
  /\ Goto(w, "lockConversation")
  /\ UNCHANGED <<userVars, rowVars, lockVars>>

\* The session's user must be an ADMIN; the row is locked and read again.
StartControl(w, op, u, c) ==
  /\ pc[w] = "idle"
  /\ op \in Operations \cap ControlOps
  /\ HasRole(u, "ADMIN")
  /\ job' = [job EXCEPT ![w] = NewJob(op, u, c, None, None)]
  /\ Goto(w, "lockAdmin")
  /\ UNCHANGED <<userVars, rowVars, lockVars>>

StartIdentity(w, op, u, t, r) ==
  /\ pc[w] = "idle"
  /\ op \in Operations \cap IdentityOps
  /\ HasRole(u, "ADMIN")
  /\ r = None <=> op # "changeRole"
  /\ job' = [job EXCEPT ![w] = NewJob(op, u, None, t, r)]
  /\ Goto(w, "identityLock")
  /\ UNCHANGED <<userVars, rowVars, lockVars>>

\* _current_admin(actor, lock=True) of the conversation services.
LockAdmin(w) ==
  LET u == job[w].actor IN
  /\ pc[w] = "lockAdmin"
  /\ Free(userLock[u], w)
  /\ \/ /\ HasRole(u, "ADMIN")
        /\ userLock' = [userLock EXCEPT ![u] = w]
        /\ Goto(w, "lockConversation")
        /\ UNCHANGED <<convLock, identityLock, job>>
     \/ /\ ~HasRole(u, "ADMIN")
        /\ EndRequest(w)
  /\ UNCHANGED <<userVars, rowVars>>

\* Mutated form: HUMAN is restored without looking at the operator.
AfterCheckTrusting(j) ==
  IF j.op \in {"request", "claim", "finalize"} THEN "transition" ELSE "commit"

\* The stage that follows a successful check of the locked conversation.
AfterCheck(j) ==
  IF j.op \in {"request", "claim", "finalize"} THEN "transition"
  ELSE IF j.op = "unblock" /\ prior[j.conv] = "HUMAN" THEN "lockAssignee"
  ELSE "commit"

\* Mutated form: the conversation is read without select_for_update.
ReadConversationUnlocked(w) ==
  LET j == job[w] IN
  /\ pc[w] = "lockConversation"
  /\ \/ /\ Admits(j)
        /\ Goto(w, AfterCheck(j))
        /\ UNCHANGED <<lockVars, job>>
     \/ /\ ~Admits(j)
        /\ EndRequest(w)
  /\ UNCHANGED <<userVars, rowVars>>

\* The row is locked, then read; a refusal, a conflict and an idempotent
\* replay all end the transaction without a write.
LockConversation(w) ==
  LET j == job[w] IN
  /\ pc[w] = "lockConversation"
  /\ Free(convLock[j.conv], w)
  /\ \/ /\ Admits(j)
        /\ convLock' = [convLock EXCEPT ![j.conv] = w]
        /\ Goto(w, AfterCheck(j))
        /\ UNCHANGED <<userLock, identityLock, job>>
     \/ /\ ~Admits(j)
        /\ EndRequest(w)
  /\ UNCHANGED <<userVars, rowVars>>

\* transition_human_escalation, called with the conversation locked: the typed
\* answer allows the change, or any failure rolls the transaction back.
Transition(w) ==
  /\ pc[w] = "transition"
  /\ \/ Goto(w, "commit") /\ UNCHANGED <<lockVars, job>>
     \/ EndRequest(w)
  /\ UNCHANGED <<userVars, rowVars>>

\* Restoring HUMAN locks the assigned operator and requires an active agent.
LockAssignee(w) ==
  LET u == assignee[job[w].conv] IN
  /\ pc[w] = "lockAssignee"
  /\ Free(userLock[u], w)
  /\ \/ /\ HasRole(u, "SUPPORT_AGENT")
        /\ userLock' = [userLock EXCEPT ![u] = w]
        /\ Goto(w, "commit")
        /\ UNCHANGED <<convLock, identityLock, job>>
     \/ /\ ~HasRole(u, "SUPPORT_AGENT")
        /\ EndRequest(w)
  /\ UNCHANGED <<userVars, rowVars>>

\* Mutated form: identity changes are not serialised.
EnterUnserialised(w) ==
  /\ pc[w] = "identityLock"
  /\ \/ /\ HasRole(job[w].actor, "ADMIN")
        /\ Goto(w, "lockTarget")
        /\ UNCHANGED <<lockVars, job>>
     \/ /\ ~HasRole(job[w].actor, "ADMIN")
        /\ EndRequest(w)
  /\ UNCHANGED <<userVars, rowVars>>

\* The advisory lock, then the actor's row, read without a row lock.
TakeIdentityLock(w) ==
  /\ pc[w] = "identityLock"
  /\ Free(identityLock, w)
  /\ \/ /\ HasRole(job[w].actor, "ADMIN")
        /\ identityLock' = w
        /\ Goto(w, "lockTarget")
        /\ UNCHANGED <<userLock, convLock, job>>
     \/ /\ ~HasRole(job[w].actor, "ADMIN")
        /\ EndRequest(w)
  /\ UNCHANGED <<userVars, rowVars>>

\* Mutated form: the target's assigned conversation is locked after the target.
LockTargetThenConversation(w) ==
  LET j == job[w] IN
  /\ pc[w] = "lockTarget"
  /\ Free(userLock[j.target], w)
  /\ \/ /\ \E c \in Conversations :
             /\ assignee[c] = j.target
             /\ job' = [job EXCEPT ![w].conv = c]
        /\ userLock' = [userLock EXCEPT ![j.target] = w]
        /\ Goto(w, "lockConversation")
        /\ UNCHANGED <<convLock, identityLock>>
     \/ /\ AdmitsIdentity(j)
        /\ userLock' = [userLock EXCEPT ![j.target] = w]
        /\ Goto(w, "commit")
        /\ UNCHANGED <<convLock, identityLock, job>>
     \/ /\ ~AdmitsIdentity(j)
        /\ EndRequest(w)
  /\ UNCHANGED <<userVars, rowVars>>

\* _load_target and the checks that follow it.
LockTarget(w) ==
  LET j == job[w] IN
  /\ pc[w] = "lockTarget"
  /\ Free(userLock[j.target], w)
  /\ \/ /\ AdmitsIdentity(j)
        /\ userLock' = [userLock EXCEPT ![j.target] = w]
        /\ Goto(w, "commit")
        /\ UNCHANGED <<convLock, identityLock, job>>
     \/ /\ ~AdmitsIdentity(j)
        /\ EndRequest(w)
  /\ UNCHANGED <<userVars, rowVars>>

-----------------------------------------------------------------------------
(* The commits.                                                            *)

Committing(w, op) ==
  /\ pc[w] = "commit"
  /\ job[w].op = op
  /\ ReadyToCommit(w)
  /\ EndRequest(w)

CommitRequest(w) ==
  LET c == job[w].conv IN
  /\ Committing(w, "request")
  /\ status' = [status EXCEPT ![c] = "WAITING_HUMAN"]
  /\ handoff' = [handoff EXCEPT ![c] = "WAITING"]
  /\ UNCHANGED <<userVars, prior, assignee, resolver, posts>>

CommitClaim(w) ==
  LET c == job[w].conv IN
  /\ Committing(w, "claim")
  /\ handoff' = [handoff EXCEPT ![c] = "ASSIGNED"]
  /\ assignee' = [assignee EXCEPT ![c] = job[w].actor]
  /\ status' = [status EXCEPT ![c] = "HUMAN"]
  /\ UNCHANGED <<userVars, prior, resolver, posts>>

CommitPost(w) ==
  LET c == job[w].conv IN
  /\ Committing(w, "post")
  /\ posts' = [posts EXCEPT ![c] = @ \cup {job[w].actor}]
  /\ UNCHANGED <<userVars, status, prior, handoff, assignee, resolver>>

CommitFinalize(w) ==
  LET c == job[w].conv IN
  /\ Committing(w, "finalize")
  /\ handoff' = [handoff EXCEPT ![c] = "RESOLVED"]
  /\ resolver' = [resolver EXCEPT ![c] = job[w].actor]
  /\ status' = [status EXCEPT ![c] = "CLOSED"]
  /\ UNCHANGED <<userVars, prior, assignee, posts>>

CommitBlock(w) ==
  LET c == job[w].conv IN
  /\ Committing(w, "block")
  /\ prior' = [prior EXCEPT ![c] = status[c]]
  /\ status' = [status EXCEPT ![c] = "BLOCKED"]
  /\ UNCHANGED <<userVars, handoff, assignee, resolver, posts>>

\* Mutated form: a conversation always returns to automation.
CommitUnblockToActive(w) ==
  LET c == job[w].conv IN
  /\ Committing(w, "unblock")
  /\ status' = [status EXCEPT ![c] = "ACTIVE"]
  /\ prior' = [prior EXCEPT ![c] = None]
  /\ UNCHANGED <<userVars, handoff, assignee, resolver, posts>>

CommitUnblock(w) ==
  LET c == job[w].conv IN
  /\ Committing(w, "unblock")
  /\ status' = [status EXCEPT ![c] = prior[c]]
  /\ prior' = [prior EXCEPT ![c] = None]
  /\ UNCHANGED <<userVars, handoff, assignee, resolver, posts>>

CommitDelete(w) ==
  LET c == job[w].conv IN
  /\ Committing(w, "delete")
  /\ status' = [status EXCEPT ![c] = "DELETED"]
  /\ prior' = [prior EXCEPT ![c] = None]
  /\ UNCHANGED <<userVars, handoff, assignee, resolver, posts>>

CommitActivate(w) ==
  /\ Committing(w, "activate")
  /\ active' = [active EXCEPT ![job[w].target] = TRUE]
  /\ UNCHANGED <<role, rowVars>>

CommitDeactivate(w) ==
  /\ Committing(w, "deactivate")
  /\ active' = [active EXCEPT ![job[w].target] = FALSE]
  /\ UNCHANGED <<role, rowVars>>

CommitChangeRole(w) ==
  /\ Committing(w, "changeRole")
  /\ role' = [role EXCEPT ![job[w].target] = job[w].newRole]
  /\ UNCHANGED <<active, rowVars>>

Commit(w) ==
  \/ CommitRequest(w) \/ CommitClaim(w) \/ CommitPost(w) \/ CommitFinalize(w)
  \/ CommitBlock(w) \/ CommitUnblock(w) \/ CommitDelete(w)
  \/ CommitActivate(w) \/ CommitDeactivate(w) \/ CommitChangeRole(w)

-----------------------------------------------------------------------------
(* Waiting, deadlock and failure.                                          *)

\* The transaction w is waiting for, if any.
Holder(w) ==
  LET wanted ==
        IF pc[w] = "lockAdmin" THEN userLock[job[w].actor]
        ELSE IF pc[w] = "lockConversation" THEN convLock[job[w].conv]
        ELSE IF pc[w] = "lockAssignee" THEN userLock[assignee[job[w].conv]]
        ELSE IF pc[w] = "identityLock" THEN identityLock
        ELSE IF pc[w] = "lockTarget" THEN userLock[job[w].target]
        ELSE IF pc[w] = "commit" /\ ~ReadyToCommit(w) THEN userLock[job[w].actor]
        ELSE None
  IN IF wanted = w THEN None ELSE wanted

\* S is a cycle of the wait-for graph.
WaitCycle(S) == S # {} /\ {Holder(w) : w \in S} = S

\* PostgreSQL aborts a transaction it finds on a wait cycle.
AbortDeadlocked(w) ==
  /\ \E S \in SUBSET Workers : w \in S /\ WaitCycle(S)
  /\ EndRequest(w)
  /\ UNCHANGED <<userVars, rowVars>>

\* A DatabaseError, a lost connection or the end of the process, anywhere.
Fail(w) ==
  /\ pc[w] # "idle"
  /\ EndRequest(w)
  /\ UNCHANGED <<userVars, rowVars>>

Start(w) ==
  \E u \in Users :
    \/ \E op \in ClientOps \cup AgentOps, c \in Conversations : StartPersonal(w, op, u, c)
    \/ \E op \in ControlOps, c \in Conversations : StartControl(w, op, u, c)
    \/ \E op \in IdentityOps, t \in Targets, r \in NewRoles \cup {None} :
         StartIdentity(w, op, u, t, r)

Work(w) ==
  \/ LockAdmin(w) \/ LockConversation(w) \/ Transition(w) \/ LockAssignee(w)
  \/ TakeIdentityLock(w) \/ LockTarget(w) \/ Commit(w) \/ AbortDeadlocked(w)

Next == \E w \in Workers : Start(w) \/ Work(w) \/ Fail(w)

Spec == Init /\ [][Next]_vars

\* A worker keeps running its request: statements return, the HTTP client has
\* a timeout, PostgreSQL grants a lock to its waiters in order and breaks wait
\* cycles.  Nothing is assumed of new requests or of failures.
FairSpec == Spec /\ \A w \in Workers : SF_vars(Work(w))

-----------------------------------------------------------------------------
(* Properties.                                                             *)

\* INVARIANT: the columns hold only values of their type, and a worker is idle
\* exactly when it has no request.
TypeOK ==
  /\ role \in [Users -> Roles]
  /\ active \in [Users -> BOOLEAN]
  /\ LifecycleTypeOK
  /\ posts \in [Conversations -> SUBSET Users]
  /\ userLock \in [Users -> Workers \cup {None}]
  /\ convLock \in [Conversations -> Workers \cup {None}]
  /\ identityLock \in Workers \cup {None}
  /\ pc \in [Workers -> Stages]
  /\ job \in [Workers -> Jobs \cup {None}]
  /\ \A w \in Workers : pc[w] = "idle" <=> job[w] = None

\* PROPERTY: every interleaving of the services is a behaviour of the abstract
\* lifecycle, so a conversation has one handoff, one operator, no way back to
\* automation, and a block that gives back what it took.
ImplementsLifecycle == LifecycleSpec

\* The worker holds its conversation and has passed the service's checks.
Checked(w) ==
  /\ pc[w] \in {"transition", "lockAssignee", "commit"}
  /\ job[w].op \in ConversationOps

\* INVARIANT: what a service checked under the conversation lock is still true
\* when its remote call returns and it commits (select_for_update before the
\* checks of support/services.py and conversation_services.py).
CheckStillHolds == \A w \in Workers : Checked(w) => Admits(job[w])

\* INVARIANT: two transactions never both decide on one conversation.
OneDecisionPerConversation ==
  \A v, w \in Workers :
    Checked(v) /\ Checked(w) /\ job[v].conv = job[w].conv => v = w

\* INVARIANT: somebody can still administer the portal, however the identity
\* operations of several administrators interleave (_protect_last_admin under
\* the advisory lock).
SomeActiveAdmin == \E u \in Users : HasRole(u, "ADMIN")

\* ACTION PROPERTY: no role change or deactivation of a SUPPORT_AGENT commits
\* while that user owns a HUMAN conversation, although the check reads the
\* handoffs without locking them (accounts/services.py deactivate_user and
\* change_role against claim_handoff and unblock_conversation).
LosesRole(u) == HasRole(u, "SUPPORT_AGENT") /\ ~HasRole(u, "SUPPORT_AGENT")'
NoDemotionDuringAssignment ==
  [][\A u \in Users : LosesRole(u) => ~ActiveHumanAssignment(u)]_vars

\* ACTION PROPERTY: unblocking returns a conversation to HUMAN only when, in
\* that very state, its operator is an active SUPPORT_AGENT (the row lock of
\* _assert_valid_restoration against a concurrent deactivation).
RestoredOwnerIsEligible ==
  [][\A c \in Conversations :
       status[c] = "BLOCKED" /\ status'[c] = "HUMAN"
         => HasRole(assignee[c], "SUPPORT_AGENT")']_vars

\* ACTION PROPERTY: a support message is only added by the operator of a
\* conversation that is HUMAN in the state the message commits in: never after
\* a block, a finalization or somebody else's claim (append_support_message).
PostsOnlyByOwner ==
  [][\A c \in Conversations, u \in Users :
       u \in posts'[c] \ posts[c] => HoldsHuman(c, u)]_vars

\* INVARIANT: transactions of the desk wait for each other in a cycle only if
\* one of them is a control operation of an active ADMIN and another waits for
\* that administrator's own user row as the operator it restores or acts for: a
\* promoted operator (conversation_services locks the ADMIN first, unblock and
\* the foreign keys lock the operator last).
CyclesNeedPromotedOperator ==
  \A S \in SUBSET Workers :
    WaitCycle(S) =>
      \E v, w \in S :
        /\ job[v].op \in ControlOps
        /\ HasRole(job[v].actor, "ADMIN")
        /\ Holder(w) = v
        /\ \/ pc[w] = "lockAssignee" /\ assignee[job[w].conv] = job[v].actor
           \/ /\ pc[w] = "commit"
              /\ job[w].op \in ReferencesActor
              /\ job[w].actor = job[v].actor

\* LIVENESS: every request ends, whatever the others do: no lock outlives its
\* transaction, and a wait cycle is broken.
EveryRequestEnds == \A w \in Workers : pc[w] # "idle" ~> pc[w] = "idle"

\* What the account policy says (accounts/services.py:167, tests_policy.py:150,
\* docs/specs/phase-12/12-validation-spec.md:88) and the code does not keep: the
\* operator of a HUMAN conversation is an active SUPPORT_AGENT.  claim_handoff
\* reads its actor without a lock and may commit after the actor was demoted.
HumanOwnerIsActiveAgent ==
  \A c \in Conversations :
    status[c] = "HUMAN" => HasRole(assignee[c], "SUPPORT_AGENT")

=============================================================================
