-------------------------- MODULE HumanEscalation --------------------------
(***************************************************************************)
(* HumanEscalationAgent.transition (agents/human_escalation.py): a table   *)
(* of typed transitions with no state of its own.  A request names the     *)
(* state the conversation is in, the action asked for, whether it gives a  *)
(* reason, the handoff package it carries and the owner of record; the     *)
(* role of the authenticated principal makes it an operator or a client.   *)
(***************************************************************************)

EscalationStates ==
  {"BOT", "WAITING_CONFIRMATION", "WAITING_HUMAN", "HUMAN", "RESOLVED"}
ClientActions == {"OFFER", "CONFIRM", "NONE"}
OperatorActions == {"ACCEPT", "RETURN_TO_AUTOMATION", "RESOLVE"}
Actions == ClientActions \cup OperatorActions

\* "foreign" is a package of another conversation.
Packages == {"none", "foreign", "unconfirmed", "confirmed"}
Owners == {"none", "self", "other"}

EscalationRequests ==
  [state: EscalationStates, action: Actions, reason: BOOLEAN,
   package: Packages, owner: Owners]

\* ChatApplicationService._human_context: which principal may ask for what.
MayAsk(role, h) ==
  /\ h.action \in ClientActions => role = "CLIENT"
  /\ h.action \in OperatorActions => role = "SUPPORT_AGENT"

\* Where an action leads, when its conditions hold.
Target == [OFFER |-> "WAITING_CONFIRMATION", CONFIRM |-> "WAITING_HUMAN",
           ACCEPT |-> "HUMAN", RETURN_TO_AUTOMATION |-> "BOT",
           RESOLVE |-> "RESOLVED", NONE |-> "HUMAN"]

Allowed(role, h) ==
  \/ h.action = "OFFER" /\ h.state = "BOT" /\ h.reason
  \/ /\ h.action = "CONFIRM"
     /\ h.state = "WAITING_CONFIRMATION"
     /\ role = "CLIENT"
     /\ h.package \in {"unconfirmed", "confirmed"}
  \/ /\ h.action = "ACCEPT"
     /\ h.state = "WAITING_HUMAN"
     /\ role = "SUPPORT_AGENT"
     /\ h.package = "confirmed"
  \/ /\ h.action \in {"RETURN_TO_AUTOMATION", "RESOLVE"}
     /\ h.state = "HUMAN"
     /\ role = "SUPPORT_AGENT"
     /\ h.owner = "self"
  \/ h.action = "NONE" /\ h.state = "HUMAN" /\ h.owner # "none"

\* The result's status and the state it reports.
Transition(role, h) ==
  IF ~Allowed(role, h) THEN [status |-> "REJECTED", state |-> h.state]
  ELSE [status |-> IF h.action = "NONE" THEN "AUTOMATION_SUSPENDED"
                   ELSE "TRANSITIONED",
        state |-> Target[h.action]]

=============================================================================
