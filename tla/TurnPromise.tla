---------------------------- MODULE TurnPromise -----------------------------
(***************************************************************************)
(* What the client chat promises about automated turns: a kept message     *)
(* gets at most one automated answer, the answer never changes, and no     *)
(* message is answered once its conversation was handed to a human.  This  *)
(* is the abstract specification that AgentTurns is shown to implement.    *)
(***************************************************************************)
CONSTANTS
  Messages,       \* client messages, each with its idempotency key
  Conversations,
  In,             \* the conversation of each message
  Answers,        \* the bodies an automated response may have
  None

VARIABLES
  kept,           \* the client messages in the transcript
  answer,         \* answer[m]: the automated response to m, or None
  handedOver      \* the conversations human support was asked for

promiseVars == <<kept, answer, handedOver>>

PromiseInit ==
  /\ kept = {}
  /\ answer = [m \in Messages |-> None]
  /\ handedOver = {}

Keep(m) ==
  /\ kept' = kept \cup {m}
  /\ UNCHANGED <<answer, handedOver>>

Reply(m) ==
  /\ m \in kept
  /\ In[m] \notin handedOver
  /\ answer[m] = None
  /\ \E a \in Answers : answer' = [answer EXCEPT ![m] = a]
  /\ UNCHANGED <<kept, handedOver>>

HandOver(c) ==
  /\ handedOver' = handedOver \cup {c}
  /\ UNCHANGED <<kept, answer>>

PromiseNext ==
  \/ \E m \in Messages : Keep(m) \/ Reply(m)
  \/ \E c \in Conversations : HandOver(c)

\* PROPERTY: at most one automated response per client turn, never changed,
\* and none after the handoff (append_agent_message).
PromiseSpec == PromiseInit /\ [][PromiseNext]_promiseVars

=============================================================================
