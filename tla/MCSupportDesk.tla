---------------------------- MODULE MCSupportDesk ---------------------------
(***************************************************************************)
(* Values for TLC: one client, and operators and administrators by role.   *)
(***************************************************************************)
EXTENDS SupportDesk, TLC

CONSTANTS alice, ben, bia, ana, ada, c1, w1, w2, w3

MCOwner == c1 :> alice

\* A client, an operator and an administrator.
TrioUsers == {alice, ben, ana}
TrioRole == alice :> "CLIENT" @@ ben :> "SUPPORT_AGENT" @@ ana :> "ADMIN"

\* Two operators who compete for the same conversation.
PairUsers == {alice, ben, bia, ana}
PairRole == TrioRole @@ bia :> "SUPPORT_AGENT"

\* Two administrators who may remove each other.
AdminUsers == {alice, ana, ada}
AdminRole == alice :> "CLIENT" @@ ana :> "ADMIN" @@ ada :> "ADMIN"

SupportOperations == ClientOps \cup AgentOps
ConversationOperations == SupportOperations \cup ControlOps
AllOperations == ConversationOperations \cup IdentityOps

\* Workers are interchangeable in every safety property.
WorkerSymmetry == Permutations(Workers)

=============================================================================
