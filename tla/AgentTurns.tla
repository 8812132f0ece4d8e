----------------------------- MODULE AgentTurns -----------------------------
(***************************************************************************)
(* A client's chat requests and the automated turns they run:              *)
(*                                                                         *)
(*   conversations/views.py        the views, the retry offers they keep   *)
(*   conversations/agent_turns.py  prepare, call the agent API, record     *)
(*   conversations/services.py     the transactions on the transcript      *)
(*                                                                         *)
(* A turn reads and writes in short transactions and holds none over the   *)
(* call, so other requests, and the steps of the conversation's lifecycle  *)
(* (the actions of ConversationLifecycle), come between them.  Every       *)
(* transaction locks the conversation row before it reads it, hence one    *)
(* step.  The retry offers live in the client's session, which Django      *)
(* reads when a request arrives and writes back whole when it ends.        *)
(***************************************************************************)
EXTENDS ConversationLifecycle, Naturals, Sequences, FiniteSets, SequencesExt

CONSTANTS
  Messages,       \* client messages, each with its idempotency key
  In,             \* the conversation of each message
  First,          \* the messages that open their conversation
  HumanIntent,    \* the messages requests_human_support recognises
  Answers,        \* bodies of automated responses
  Requests,       \* bound: the requests in progress at a time
  RetryCap,       \* the number of retry offers a session keeps (20)
  Faults          \* bound: do statements fail and processes die?

ASSUME TurnsAssumption ==
  /\ In \in [Messages -> Conversations]
  /\ First \subseteq Messages
  /\ HumanIntent \subseteq Messages
  /\ None \notin Messages \cup Answers \cup Statuses
  /\ Answers \cap {"empty", "retryable", "final", "suspended"} = {}
  /\ RetryCap \in Nat \ {0}
  /\ Faults \in BOOLEAN

VARIABLES
  turn,           \* messages.processing_status, "UNSENT" without a row
  response,       \* the AGENT row _agent_response_id names: its body, or None
  offers,         \* session["recoverable_agent_chat_turns"]
  notice,         \* the last warning the client read about a turn
  pc, req         \* the stage of each request, and what it carries

turnVars == <<turn, response, offers, notice, pc, req>>
vars == <<status, prior, handoff, assignee, resolver,
          turn, response, offers, notice, pc, req>>

Stages == {"idle", "create", "read", "persist", "check", "handover", "prepare",
           "call", "append", "mark", "save"}
TurnStates == {"UNSENT", "PENDING", "FAILED", "COMPLETED"}
Notices == {"none", "tryAgain", "kept"}
Results == Answers \cup {"empty", "retryable", "final", "suspended"}

\* What a request carries.
Carried ==
  [kind : {"new", "message", "retry", "view"}, msg : Messages,
   list : Seq(Messages), seen : Statuses \cup {None}, result : Results \cup {None}]

ASSUME CarriedAssumption == None \notin Carried

Init ==
  /\ LifecycleInit
  /\ turn = [m \in Messages |-> "UNSENT"]
  /\ response = [m \in Messages |-> None]
  /\ offers = <<>>
  /\ notice = [m \in Messages |-> "none"]
  /\ pc = [r \in Requests |-> "idle"]
  /\ req = [r \in Requests |-> None]

-----------------------------------------------------------------------------
(* Helpers.                                                                *)

\* A conversation exists once its first message does.
Started(c) == \E m \in Messages : In[m] = c /\ turn[m] # "UNSENT"

\* _update_retry_session on a request's copy of the session, which never holds
\* a message twice (TypeOK), so that its filter takes out one offer at most.
Withdraw(list, m) ==
  IF Contains(list, m) THEN RemoveAt(list, CHOOSE i \in DOMAIN list : list[i] = m)
  ELSE list
\* Mutated form: the offer is only appended.
OfferAgain(list, m) == Append(list, m)
Offer(list, m) ==
  LET longer == Append(Withdraw(list, m), m)
      extra == IF Len(longer) > RetryCap THEN Len(longer) - RetryCap ELSE 0
  IN SubSeq(longer, extra + 1, Len(longer))

Goto(r, stage) == pc' = [pc EXCEPT ![r] = stage]
Proceed(r, stage) == Goto(r, stage) /\ UNCHANGED req

\* The request is answered without writing the session: a status of 400 or
\* more, or the process is gone.
Drop(r) ==
  /\ Goto(r, "idle")
  /\ req' = [req EXCEPT ![r] = None]

\* The view answers with a redirect after changing its copy of the offers.
Finish(r, list) ==
  /\ Goto(r, "save")
  /\ req' = [req EXCEPT ![r].list = list]

\* The turn is over and no retry is offered.
FinishWithdrawn(r) == Finish(r, Withdraw(req[r].list, req[r].msg))

\* _route_client_turn.
Route(m) == IF m \in HumanIntent THEN "handover" ELSE "prepare"

\* _attempt_agent_turn swallows a DatabaseError of any of its transactions.
DatabaseError(r) == Faults /\ Proceed(r, "save")

-----------------------------------------------------------------------------
(* A request arrives and persists the client's message.                    *)

\* The session middleware loads the session.  A page view changes nothing, but
\* PortalSessionPolicyMiddleware touches the session, so it is saved all the same.
Arrive(r) ==
  /\ pc[r] = "idle"
  /\ \E kind \in {"new", "message", "retry", "view"}, m \in Messages :
       /\ kind = "new" => m \in First
       /\ kind = "message" => m \notin First /\ Started(In[m])
       /\ kind \in {"retry", "view"} => turn[m] # "UNSENT"
       /\ req' = [req EXCEPT ![r] =
                    [kind |-> kind, msg |-> m, list |-> offers,
                     seen |-> None, result |-> None]]
       /\ Goto(r, CASE kind = "new" -> "create"
                    [] kind = "view" -> "save"
                    [] OTHER -> "read")
  /\ UNCHANGED <<lifecycleVars, turn, response, offers, notice>>

\* create_conversation_once: a replayed form finds its existing thread.
Create(r) ==
  LET m == req[r].msg IN
  /\ pc[r] = "create"
  /\ \/ /\ turn[m] = "UNSENT"
        /\ turn' = [turn EXCEPT ![m] = "PENDING"]
        /\ Proceed(r, Route(m))
     \/ /\ turn[m] # "UNSENT"
        /\ IF status[In[m]] = "DELETED" THEN Drop(r) ELSE Proceed(r, "save")
        /\ UNCHANGED turn
  /\ UNCHANGED <<lifecycleVars, response, offers, notice>>

\* get_owned_conversation, without a lock: the view keeps this status.
ReadConversation(r) ==
  LET s == status[In[req[r].msg]] IN
  /\ pc[r] = "read"
  /\ \/ /\ s = "DELETED" \/ (req[r].kind = "message" /\ s \notin ClientWritable)
        /\ Drop(r)
     \/ /\ s # "DELETED"
        /\ req[r].kind = "message" => s \in ClientWritable
        /\ req' = [req EXCEPT ![r].seen = s]
        /\ Goto(r, IF req[r].kind = "message" THEN "persist" ELSE "check")
  /\ UNCHANGED <<lifecycleVars, turn, response, offers, notice>>

\* append_client_message, then the view decides on the status it read before.
Persist(r) ==
  LET m == req[r].msg IN
  /\ pc[r] = "persist"
  /\ \/ /\ status[In[m]] \notin ClientWritable
        /\ Drop(r)
        /\ UNCHANGED turn
     \/ /\ status[In[m]] \in ClientWritable
        /\ turn[m] # "UNSENT"
        /\ Proceed(r, "save")
        /\ UNCHANGED turn
     \/ /\ status[In[m]] \in ClientWritable
        /\ turn[m] = "UNSENT"
        /\ turn' = [turn EXCEPT ![m] = "PENDING"]
        /\ Proceed(r, IF req[r].seen = "ACTIVE" THEN Route(m) ELSE "save")
  /\ UNCHANGED <<lifecycleVars, response, offers, notice>>

\* retry_agent_message, with the session and the status it read before.
CheckRetry(r) ==
  LET m == req[r].msg IN
  /\ pc[r] = "check"
  /\ \/ /\ response[m] # None
        /\ FinishWithdrawn(r)
     \/ /\ response[m] = None /\ ~Contains(req[r].list, m)
        /\ Proceed(r, "save")
     \/ /\ response[m] = None /\ Contains(req[r].list, m)
        /\ IF req[r].seen = "ACTIVE" THEN Proceed(r, Route(m)) ELSE FinishWithdrawn(r)
  /\ UNCHANGED <<lifecycleVars, turn, response, offers, notice>>

-----------------------------------------------------------------------------
(* The turn.                                                               *)

\* An explicit wish for a person goes to request_human_support, which may
\* refuse; the turn itself stays PENDING.
HandToHuman(r) ==
  /\ pc[r] = "handover"
  /\ FinishWithdrawn(r)
  /\ Confirm(In[req[r].msg]) \/ UNCHANGED lifecycleVars
  /\ UNCHANGED <<turn, response, offers, notice>>

\* May the turn run (_prepare_turn)?  A retry also takes up a FAILED one.
Runnable(r) ==
  LET m == req[r].msg IN
  /\ status[In[m]] = "ACTIVE"
  /\ response[m] = None
  /\ turn[m] = "PENDING" \/ (req[r].kind = "retry" /\ turn[m] = "FAILED")

Prepare(r) ==
  /\ pc[r] = "prepare"
  /\ \/ Runnable(r) /\ Proceed(r, "call")
     \/ ~Runnable(r) /\ IF status[In[req[r].msg]] = "DELETED"
                        THEN Drop(r) ELSE FinishWithdrawn(r)
     \/ DatabaseError(r)
  /\ UNCHANGED <<lifecycleVars, turn, response, offers, notice>>

\* Mutated form: an answer without text ends the turn without marking it.
CallIgnoringEmpty(r) ==
  /\ pc[r] = "call"
  /\ \E result \in Results \ {"suspended"} :
       /\ req' = [req EXCEPT ![r].result = result]
       /\ Goto(r, CASE result \in Answers -> "append"
                    [] result = "empty" -> "save"
                    [] OTHER -> "mark")
  /\ UNCHANGED <<lifecycleVars, turn, response, offers, notice>>

\* AgentChatClient.execute, outside every transaction: an answer, an answer
\* without text, or a failure that may or may not be retried.
Call(r) ==
  /\ pc[r] = "call"
  /\ \E result \in Results \ {"suspended"} :
       /\ req' = [req EXCEPT ![r].result = result]
       /\ Goto(r, IF result \in Answers THEN "append" ELSE "mark")
  /\ UNCHANGED <<lifecycleVars, turn, response, offers, notice>>

\* Mutated form: the newest answer is kept (update_or_create).
AppendLatest(r) ==
  LET m == req[r].msg IN
  /\ pc[r] = "append"
  /\ \/ /\ status[In[m]] # "ACTIVE"
        /\ req' = [req EXCEPT ![r].result = "suspended"]
        /\ Goto(r, "mark")
        /\ UNCHANGED <<turn, response>>
     \/ /\ status[In[m]] = "ACTIVE"
        /\ response' = [response EXCEPT ![m] = req[r].result]
        /\ turn' = [turn EXCEPT ![m] = "COMPLETED"]
        /\ FinishWithdrawn(r)
  /\ UNCHANGED <<lifecycleVars, offers, notice>>

\* append_agent_message.  A different result that won the race is an
\* IdempotencyConflictError, the same one a replay; either ends the turn.
AppendAnswer(r) ==
  LET m == req[r].msg IN
  /\ pc[r] = "append"
  /\ \/ /\ status[In[m]] # "ACTIVE"
        /\ req' = [req EXCEPT ![r].result = "suspended"]
        /\ Goto(r, "mark")
        /\ UNCHANGED <<turn, response>>
     \/ /\ status[In[m]] = "ACTIVE"
        /\ response[m] # None
        /\ FinishWithdrawn(r)
        /\ UNCHANGED <<turn, response>>
     \/ /\ status[In[m]] = "ACTIVE"
        /\ response[m] = None
        /\ response' = [response EXCEPT ![m] = req[r].result]
        /\ turn' = [turn EXCEPT ![m] = "COMPLETED"]
        /\ FinishWithdrawn(r)
     \/ DatabaseError(r) /\ UNCHANGED <<turn, response>>
  /\ UNCHANGED <<lifecycleVars, offers, notice>>

\* Mutated form: the competing success is not looked for.
MarkAlways(m) == [turn EXCEPT ![m] = "FAILED"]

\* mark_client_turn_failed: a competing success is left alone.
FailedUnlessAnswered(m) ==
  IF response[m] = None THEN [turn EXCEPT ![m] = "FAILED"] ELSE turn

\* After an unavailable agent the offer and the warning follow even when the
\* mark could not be written; after the other outcomes its error ends the turn.
MarkFailed(r) ==
  LET m == req[r].msg
      unavailable == req[r].result \in {"retryable", "final"} IN
  /\ pc[r] = "mark"
  /\ \/ /\ turn' = FailedUnlessAnswered(m) \/ (Faults /\ unavailable /\ UNCHANGED turn)
        /\ Finish(r, IF req[r].result = "retryable"
                     THEN Offer(req[r].list, m) ELSE Withdraw(req[r].list, m))
        /\ notice' = [notice EXCEPT ![m] =
                        CASE req[r].result = "retryable" -> "tryAgain"
                          [] req[r].result = "suspended" -> @
                          [] OTHER -> "kept"]
     \/ /\ ~unavailable
        /\ DatabaseError(r)
        /\ UNCHANGED <<turn, notice>>
  /\ UNCHANGED <<lifecycleVars, response, offers>>

\* SessionMiddleware writes the whole session as this request knows it.
SaveSession(r) ==
  /\ pc[r] = "save"
  /\ offers' = req[r].list
  /\ Drop(r)
  /\ UNCHANGED <<lifecycleVars, turn, response, notice>>

\* An unhandled error page (403, 503) or the end of the process: what is
\* committed stays, the session is not written.
Fail(r) ==
  /\ Faults
  /\ pc[r] # "idle"
  /\ Drop(r)
  /\ UNCHANGED <<lifecycleVars, turn, response, offers, notice>>

Work(r) ==
  \/ Create(r) \/ ReadConversation(r) \/ Persist(r) \/ CheckRetry(r)
  \/ HandToHuman(r) \/ Prepare(r) \/ Call(r) \/ AppendAnswer(r)
  \/ MarkFailed(r) \/ SaveSession(r)

\* Operators, administrators and the client's own confirmation button.
Elsewhere ==
  /\ \E c \in Conversations : Started(c) /\ LifecycleStep(c)
  /\ UNCHANGED turnVars

Next ==
  \/ \E r \in Requests : Arrive(r) \/ Work(r) \/ Fail(r)
  \/ Elsewhere

Spec == Init /\ [][Next]_vars

\* A request that is being served keeps running: every stage is a statement or
\* a call with a timeout, and needs nothing from another request.
FairSpec == Spec /\ \A r \in Requests : WF_vars(Work(r))

-----------------------------------------------------------------------------
(* Properties.                                                             *)

\* INVARIANT: types; a session keeps at most RetryCap offers, none of them twice.
TypeOK ==
  /\ LifecycleTypeOK
  /\ turn \in [Messages -> TurnStates]
  /\ response \in [Messages -> Answers \cup {None}]
  /\ offers \in Seq(Messages)
  /\ Len(offers) <= RetryCap
  /\ IsInjective(offers)
  /\ notice \in [Messages -> Notices]
  /\ pc \in [Requests -> Stages]
  /\ req \in [Requests -> Carried \cup {None}]
  /\ \A r \in Requests : pc[r] = "idle" <=> req[r] = None

\* INVARIANT: a turn is COMPLETED exactly when its AGENT row exists, whichever
\* of several concurrent attempts failed after another one succeeded
\* (append_agent_message against mark_client_turn_failed).
CompletedIffAnswered ==
  \A m \in Messages : turn[m] = "COMPLETED" <=> response[m] # None

Promise == INSTANCE TurnPromise WITH
  kept <- {m \in Messages : turn[m] # "UNSENT"},
  answer <- response,
  handedOver <- {c \in Conversations : handoff[c] # "NONE"}

\* PROPERTY: replays, concurrent retries and late answers never give a turn a
\* second answer, change one, or answer after the handoff (also not when the
\* conversation was blocked and unblocked in between).
ImplementsPromise == Promise!PromiseSpec

\* LIVENESS: without failing statements, an attempt at a PENDING turn settles it
\* as COMPLETED or FAILED unless the conversation stops being ACTIVE
\* (execute_agent_turn marks the turn on every path that records no answer).
TurnIsSettled ==
  \A r \in Requests, m \in Messages :
    LET waiting == turn[m] = "PENDING" /\ status[In[m]] = "ACTIVE" IN
    (waiting /\ pc[r] \in {"prepare", "call", "append", "mark"} /\ req[r].msg = m)
      ~> ~waiting

\* What the chat specification says (docs/specs/phase-12/04-client-chat-and-
\* conversation-spec.md:66 "the UI will offer a safe retry/recovery action") and
\* the code does not keep: once nothing is in progress, a FAILED turn of an
\* ACTIVE conversation whose client was told to try again is offered for retry.
\* A request that loaded the session earlier writes it back without the offer.
AdvisedRetryIsOffered ==
  \A m \in Messages :
    /\ \A r \in Requests : pc[r] = "idle"
    /\ notice[m] = "tryAgain"
    /\ turn[m] = "FAILED"
    /\ status[In[m]] = "ACTIVE"
    => Contains(offers, m)

=============================================================================
