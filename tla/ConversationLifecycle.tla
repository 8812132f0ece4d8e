----------------------- MODULE ConversationLifecycle ------------------------
(***************************************************************************)
(* What the portal promises about one conversation and its support handoff *)
(* (the rows of "conversations" and "support_handoffs"): the committed     *)
(* steps a conversation may take, whoever takes them and however requests  *)
(* interleave.                                                             *)
(*                                                                         *)
(* This is the abstract specification.  SupportDesk models the services    *)
(* with their transactions, locks and remote calls and is shown to         *)
(* implement it; AgentTurns uses its actions as the environment in which   *)
(* automated turns run.                                                    *)
(***************************************************************************)
EXTENDS PortalTypes

CONSTANTS
  Conversations,
  Users,
  None            \* a NULL column: no user, no saved status

ASSUME LifecycleAssumption == None \notin Users \cup Statuses

VARIABLES
  status,         \* conversations.status
  prior,          \* conversations.status_before_block
  handoff,        \* support_handoffs.status, or "NONE"
  assignee,       \* support_handoffs.assigned_support_user
  resolver        \* support_handoffs.resolved_by

lifecycleVars == <<status, prior, handoff, assignee, resolver>>

LifecycleTypeOK ==
  /\ status \in [Conversations -> Statuses]
  /\ prior \in [Conversations -> Blockable \cup {None}]
  /\ handoff \in [Conversations -> HandoffStates]
  /\ assignee \in [Conversations -> Users \cup {None}]
  /\ resolver \in [Conversations -> Users \cup {None}]

\* create_conversation: ACTIVE, and no handoff row yet.
LifecycleInit ==
  /\ status = [c \in Conversations |-> "ACTIVE"]
  /\ prior = [c \in Conversations |-> None]
  /\ handoff = [c \in Conversations |-> "NONE"]
  /\ assignee = [c \in Conversations |-> None]
  /\ resolver = [c \in Conversations |-> None]

\* The client's confirmed request queues the conversation, once.
Confirm(c) ==
  /\ status[c] = "ACTIVE"
  /\ handoff[c] = "NONE"
  /\ status' = [status EXCEPT ![c] = "WAITING_HUMAN"]
  /\ handoff' = [handoff EXCEPT ![c] = "WAITING"]
  /\ UNCHANGED <<prior, assignee, resolver>>

\* One operator takes a waiting conversation.
Accept(c, u) ==
  /\ status[c] = "WAITING_HUMAN"
  /\ handoff[c] = "WAITING"
  /\ status' = [status EXCEPT ![c] = "HUMAN"]
  /\ handoff' = [handoff EXCEPT ![c] = "ASSIGNED"]
  /\ assignee' = [assignee EXCEPT ![c] = u]
  /\ UNCHANGED <<prior, resolver>>

\* The operator who holds the conversation closes it.
Resolve(c) ==
  /\ status[c] = "HUMAN"
  /\ handoff[c] = "ASSIGNED"
  /\ status' = [status EXCEPT ![c] = "CLOSED"]
  /\ handoff' = [handoff EXCEPT ![c] = "RESOLVED"]
  /\ resolver' = [resolver EXCEPT ![c] = assignee[c]]
  /\ UNCHANGED <<prior, assignee>>

\* An administrator freezes a live conversation and remembers its state ...
Block(c) ==
  /\ status[c] \in Blockable
  /\ prior' = [prior EXCEPT ![c] = status[c]]
  /\ status' = [status EXCEPT ![c] = "BLOCKED"]
  /\ UNCHANGED <<handoff, assignee, resolver>>

\* ... and gives back exactly that state.
Unblock(c) ==
  /\ status[c] = "BLOCKED"
  /\ prior[c] \in Blockable
  /\ status' = [status EXCEPT ![c] = prior[c]]
  /\ prior' = [prior EXCEPT ![c] = None]
  /\ UNCHANGED <<handoff, assignee, resolver>>

\* A tombstone, refused while a handoff is waiting or assigned.
SoftDelete(c) ==
  /\ status[c] # "DELETED"
  /\ handoff[c] \notin {"WAITING", "ASSIGNED"}
  /\ status' = [status EXCEPT ![c] = "DELETED"]
  /\ prior' = [prior EXCEPT ![c] = None]
  /\ UNCHANGED <<handoff, assignee, resolver>>

LifecycleStep(c) ==
  \/ Confirm(c)
  \/ \E u \in Users : Accept(c, u)
  \/ Resolve(c)
  \/ Block(c)
  \/ Unblock(c)
  \/ SoftDelete(c)

LifecycleNext == \E c \in Conversations : LifecycleStep(c)

\* PROPERTY: every committed change of a conversation is one of the steps
\* above (request_human_support, claim_handoff, finalize_handoff and the three
\* administrator services, in whatever order their transactions commit).
LifecycleSpec == LifecycleInit /\ [][LifecycleNext]_lifecycleVars

-----------------------------------------------------------------------------

\* The state a conversation is in, seen through a block.
Effective(c) == IF status[c] = "BLOCKED" THEN prior[c] ELSE status[c]

\* INVARIANT: the conversation row and the handoff row never disagree, blocked
\* or not.  _assert_block_state_consistent and _assert_valid_restoration treat
\* a disagreement as corruption, and no two services write both rows alike.
RowsAgree ==
  \A c \in Conversations :
    /\ prior[c] # None <=> status[c] = "BLOCKED"
    /\ Effective(c) = "ACTIVE" => handoff[c] = "NONE"
    /\ Effective(c) = "WAITING_HUMAN" => handoff[c] = "WAITING"
    /\ Effective(c) = "HUMAN" => handoff[c] = "ASSIGNED"
    /\ Effective(c) = "CLOSED" => handoff[c] = "RESOLVED"
    /\ Effective(c) = "DELETED" => handoff[c] \in {"NONE", "RESOLVED"}
    /\ assignee[c] = None <=> handoff[c] \in {"NONE", "WAITING"}
    /\ resolver[c] = IF handoff[c] = "RESOLVED" THEN assignee[c] ELSE None

=============================================================================
