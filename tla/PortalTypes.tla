---------------------------- MODULE PortalTypes ----------------------------
(***************************************************************************)
(* The vocabulary shared by the portal modules: the values the columns of  *)
(* the tables "users", "conversations" and "support_handoffs" may take.    *)
(***************************************************************************)

\* The three application roles (accounts/models.py).
Roles == {"CLIENT", "SUPPORT_AGENT", "ADMIN"}

\* Conversation.Status, which the database enforces with a check constraint.
Statuses == {"ACTIVE", "WAITING_HUMAN", "HUMAN", "CLOSED", "BLOCKED", "DELETED"}

\* _BLOCKABLE_STATES, also the only values of status_before_block.
Blockable == {"ACTIVE", "WAITING_HUMAN", "HUMAN"}

\* The states in which a CLIENT may append a message.
ClientWritable == {"ACTIVE", "WAITING_HUMAN", "HUMAN"}

\* SupportHandoff.Status, with "NONE" for a conversation that has no handoff
\* row.  No code path of the portal writes CANCELLED, so it is left out.
HandoffStates == {"NONE", "WAITING", "ASSIGNED", "RESOLVED"}

=============================================================================
