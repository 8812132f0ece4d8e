-------------------- MODULE ConversationLifecycle_proofs --------------------
(***************************************************************************)
(* The abstract lifecycle keeps its two rows in agreement, for any sets of *)
(* conversations and users.                                                *)
(***************************************************************************)
EXTENDS ConversationLifecycle, TLAPS

\* The agreement of the two rows of one conversation.
Agrees(c) ==
  /\ prior[c] # None <=> status[c] = "BLOCKED"
  /\ Effective(c) = "ACTIVE" => handoff[c] = "NONE"
  /\ Effective(c) = "WAITING_HUMAN" => handoff[c] = "WAITING"
  /\ Effective(c) = "HUMAN" => handoff[c] = "ASSIGNED"
  /\ Effective(c) = "CLOSED" => handoff[c] = "RESOLVED"
  /\ Effective(c) = "DELETED" => handoff[c] \in {"NONE", "RESOLVED"}
  /\ assignee[c] = None <=> handoff[c] \in {"NONE", "WAITING"}
  /\ resolver[c] = IF handoff[c] = "RESOLVED" THEN assignee[c] ELSE None

\* The rows agree at first: every conversation is ACTIVE and has no handoff.
LEMMA LifecycleInitAgrees == LifecycleInit => LifecycleTypeOK /\ RowsAgree
  BY LifecycleAssumption
  DEF LifecycleInit, LifecycleTypeOK, RowsAgree, Effective, Statuses, Blockable,
      HandoffStates

\* A step on one conversation leaves every other one alone and keeps the types.
LEMMA LifecycleStepIsLocal ==
  ASSUME LifecycleTypeOK, NEW c \in Conversations, LifecycleStep(c)
  PROVE  /\ LifecycleTypeOK'
         /\ \A d \in Conversations \ {c} :
              /\ status'[d] = status[d]
              /\ prior'[d] = prior[d]
              /\ handoff'[d] = handoff[d]
              /\ assignee'[d] = assignee[d]
              /\ resolver'[d] = resolver[d]
<1>1. CASE Confirm(c)
  BY <1>1 DEF Confirm, LifecycleTypeOK, Statuses, HandoffStates
<1>2. ASSUME NEW u \in Users, Accept(c, u)
      PROVE  /\ LifecycleTypeOK'
             /\ \A d \in Conversations \ {c} :
                  /\ status'[d] = status[d]
                  /\ prior'[d] = prior[d]
                  /\ handoff'[d] = handoff[d]
                  /\ assignee'[d] = assignee[d]
                  /\ resolver'[d] = resolver[d]
  BY <1>2 DEF Accept, LifecycleTypeOK, Statuses, HandoffStates
<1>3. CASE Resolve(c)
  BY <1>3 DEF Resolve, LifecycleTypeOK, Statuses, HandoffStates
<1>4. CASE Block(c)
  BY <1>4 DEF Block, LifecycleTypeOK, Statuses
<1>5. CASE Unblock(c)
  BY <1>5 DEF Unblock, LifecycleTypeOK, Statuses, Blockable
<1>6. CASE SoftDelete(c)
  BY <1>6 DEF SoftDelete, LifecycleTypeOK, Statuses
<1>7. QED
  BY <1>1, <1>2, <1>3, <1>4, <1>5, <1>6 DEF LifecycleStep

\* The step keeps the rows of its own conversation in agreement.
LEMMA LifecycleStepAgrees ==
  ASSUME LifecycleTypeOK, NEW c \in Conversations, LifecycleStep(c), Agrees(c)
  PROVE  Agrees(c)'
<1> USE LifecycleAssumption
    DEF LifecycleTypeOK, Agrees, Effective, Statuses, Blockable, HandoffStates
<1>1. CASE Confirm(c)
  BY <1>1 DEF Confirm
<1>2. ASSUME NEW u \in Users, Accept(c, u)
      PROVE  Agrees(c)'
  BY <1>2 DEF Accept
<1>3. CASE Resolve(c)
  BY <1>3 DEF Resolve
<1>4. CASE Block(c)
  BY <1>4 DEF Block
<1>5. CASE Unblock(c)
  BY <1>5 DEF Unblock
<1>6. CASE SoftDelete(c)
  BY <1>6 DEF SoftDelete
<1>7. QED
  BY <1>1, <1>2, <1>3, <1>4, <1>5, <1>6 DEF LifecycleStep

\* So one step, or none, keeps the rows of every conversation in agreement.
LEMMA LifecycleNextAgrees ==
  LifecycleTypeOK /\ RowsAgree /\ [LifecycleNext]_lifecycleVars
    => LifecycleTypeOK' /\ RowsAgree'
<1> SUFFICES ASSUME LifecycleTypeOK, RowsAgree, [LifecycleNext]_lifecycleVars
             PROVE  LifecycleTypeOK' /\ RowsAgree'
  OBVIOUS
<1>1. ASSUME NEW c \in Conversations, LifecycleStep(c)
      PROVE  LifecycleTypeOK' /\ RowsAgree'
  <2>1. Agrees(c)'
    BY <1>1, LifecycleStepAgrees DEF RowsAgree, Agrees
  <2>2. ASSUME NEW d \in Conversations \ {c}
        PROVE  Agrees(d)'
    BY <1>1, <2>2, LifecycleStepIsLocal DEF RowsAgree, Agrees, Effective
  <2>3. QED
    BY <1>1, <2>1, <2>2, LifecycleStepIsLocal DEF RowsAgree, Agrees
<1>2. CASE UNCHANGED lifecycleVars
  BY <1>2 DEF lifecycleVars, LifecycleTypeOK, RowsAgree, Effective
<1>3. QED
  BY <1>1, <1>2 DEF LifecycleNext

\* THEOREM: in every behaviour of the lifecycle the conversation row and the
\* handoff row agree, so block_conversation and unblock_conversation never have
\* reason to refuse a live conversation as inconsistent.
THEOREM LifecycleRowsAgree == LifecycleSpec => [](LifecycleTypeOK /\ RowsAgree)
<1>1. LifecycleInit => LifecycleTypeOK /\ RowsAgree
  BY LifecycleInitAgrees
<1>2. LifecycleTypeOK /\ RowsAgree /\ [LifecycleNext]_lifecycleVars
        => (LifecycleTypeOK /\ RowsAgree)'
  BY LifecycleNextAgrees
<1>3. QED
  BY <1>1, <1>2, PTL DEF LifecycleSpec

=============================================================================
