------------------------------ MODULE ChatCall ------------------------------
(***************************************************************************)
(* AgentChatClient (integrations/agent_chat.py) calling the agent API over *)
(* the private channel: at most two attempts a call, of which the second   *)
(* follows a refused connection or a 503.  When the portal stops waiting,  *)
(* the API goes on with the request.  Other callers send theirs meanwhile. *)
(***************************************************************************)
EXTENDS Orchestration

CONSTANTS
  TurnAsks,       \* what the portal sends for a client's turn
  OtherAsks       \* what other callers send

ASSUME CallersAssumption ==
  /\ Asks = TurnAsks \cup OtherAsks
  /\ \A a \in TurnAsks : a.role = "CLIENT" /\ a.ops /\ a.own /\ a.human = {}

ASSUME ExecutionsAssumption == Executions # {} /\ Executions \subseteq Nat

VARIABLES
  phase,          \* of the portal's call
  attempt,
  turn,           \* the request it sends at each attempt
  mine,           \* the executions its attempts started
  waitsFor,       \* the one it waits for
  outcome         \* what the caller of AgentChatClient.execute gets

callVars == <<phase, attempt, turn, mine, waitsFor, outcome>>
vars == <<ready, stage, ask, decision, result, status, review, carried, written,
          audit, reply, phase, attempt, turn, mine, waitsFor, outcome>>

Outcomes == {"pending", "answered", "empty", "retryable", "final"}

Init ==
  /\ APIInit
  /\ phase = "idle"
  /\ attempt = 0
  /\ turn = CHOOSE a \in Asks : TRUE
  /\ mine = {}
  /\ waitsFor = CHOOSE x \in Executions : TRUE
  /\ outcome = "pending"

Free == {x \in Executions : At(x, "free")}

\* A call ends; the client may send the turn again after a retryable one.
Ends(how) ==
  /\ phase' = "idle"
  /\ outcome' = how
  /\ UNCHANGED <<attempt, turn, mine, waitsFor>>

\* A turn, then the same one again for as long as it ends retryable.  bound: one
\* turn, and as many deliveries as Executions leaves.
Begin ==
  /\ phase = "idle"
  /\ outcome \in {"pending", "retryable"}
  /\ phase' = "sending"
  /\ attempt' = 1
  /\ IF outcome = "pending" THEN turn' \in TurnAsks ELSE UNCHANGED turn
  /\ mine' = {}
  /\ outcome' = "pending"
  /\ UNCHANGED <<waitsFor, apiVars>>

\* The service address or token is missing: nothing is sent.
NotConfigured ==
  /\ phase = "sending"
  /\ attempt = 1
  /\ Ends("final")
  /\ UNCHANGED apiVars

Deliver ==
  /\ phase = "sending"
  /\ \E x \in Free :
       /\ \A y \in Free : x <= y
       /\ Arrives(x, turn)
       /\ waitsFor' = x
       /\ mine' = mine \cup {x}
  /\ phase' = "waiting"
  /\ UNCHANGED <<attempt, turn, outcome>>

\* Mutated form: as often as it takes.
ConnectFailsAgain ==
  /\ phase = "sending"
  /\ attempt' = attempt + 1
  /\ UNCHANGED <<phase, turn, mine, waitsFor, outcome, apiVars>>

ConnectFails ==
  /\ phase = "sending"
  /\ \/ attempt = 1 /\ attempt' = 2 /\ UNCHANGED <<phase, turn, mine, waitsFor, outcome>>
     \/ attempt = 2 /\ Ends("retryable")
  /\ UNCHANGED apiVars

\* Mutated form: a timeout is treated like a refused connection.
StopsWaitingResends ==
  /\ phase = "waiting"
  /\ IF attempt = 1
     THEN phase' = "sending" /\ attempt' = 2 /\ UNCHANGED <<turn, mine, waitsFor, outcome>>
     ELSE Ends("retryable")
  /\ UNCHANGED apiVars

\* The read times out or the connection breaks, before or after the reply is
\* sent: a second request could repeat work, so there is none.
StopsWaiting ==
  /\ phase = "waiting"
  /\ Ends("retryable")
  /\ UNCHANGED apiVars

\* execute and _require_success.
Heard(x) ==
  IF reply[x] = 503 THEN "retryable"
  ELSE IF reply[x] # 200 THEN "final"
  ELSE IF carried[x].answer = Nothing THEN "empty" ELSE "answered"

Hear ==
  /\ phase = "waiting"
  /\ At(waitsFor, "replied")
  /\ IF reply[waitsFor] = 503 /\ attempt = 1
     THEN /\ phase' = "sending"
          /\ attempt' = 2
          /\ UNCHANGED <<turn, mine, waitsFor, outcome>>
     ELSE Ends(Heard(waitsFor))
  /\ UNCHANGED apiVars

Other ==
  /\ \E x \in Executions, a \in OtherAsks :
       (\A y \in Executions : y <= x) /\ Arrives(x, a)
  /\ UNCHANGED callVars

Call == Begin \/ NotConfigured \/ Deliver \/ ConnectFails \/ StopsWaiting \/ Hear

API == Restart \/ \E x \in Executions : Step(x)

Next == Call \/ Other \/ (API /\ UNCHANGED callVars)

Spec == Init /\ [][Next]_vars

\* A call ends because its timeouts are finite (internal_service.py), an
\* execution because those of the providers and of the database are, and the
\* graph has no cycle.  Nothing is assumed of arrivals and restarts.
CallGoesOn == NotConfigured \/ Deliver \/ ConnectFails \/ StopsWaiting \/ Hear

FairSpec ==
  /\ Spec
  /\ WF_vars(CallGoesOn)
  /\ \A x \in Executions : WF_vars(Step(x) /\ UNCHANGED callVars)

-----------------------------------------------------------------------------
(* Properties.                                                             *)

\* Every variable has a value of its type and a call makes at most two attempts.
TypeOK ==
  /\ APITypeOK
  /\ phase \in {"idle", "sending", "waiting"}
  /\ attempt \in 0 .. 2
  /\ turn \in Asks
  /\ mine \subseteq Executions /\ Cardinality(mine) <= attempt
  /\ waitsFor \in Executions
  /\ outcome \in Outcomes

\* Of the executions one call starts, all but the last were refused with a 503
\* before the next was sent: no two of them work at the same time, and none that
\* the portal only stopped waiting for is repeated by the call itself
\* (agent_chat.py _request_with_bounded_retry).
ResendsOnlyAfterRefusal ==
  \A x, y \in mine : x < y => reply[x] = 503

\* Every execution is answered or killed, whether or not its caller still
\* waits, and every call ends.
EverythingEnds ==
  /\ \A x \in Executions : Running(x) ~> ~Running(x)
  /\ (phase # "idle") ~> (phase = "idle")

=============================================================================
