--------------------------- MODULE Orchestration ---------------------------
(***************************************************************************)
(* The agent API: one chat request from its authentication to its reply.   *)
(*                                                                         *)
(*   auth.py, main.py              who is admitted, which status is sent   *)
(*   agents/router.py              the security screens and the routing    *)
(*   agents/orchestration.py       the workflow graph over the specialists *)
(*   security/audit.py             one transaction per set of events       *)
(*   chat.py                       response, recovery and output gate      *)
(*                                                                         *)
(* An execution is one request inside the process.  Each await of the code *)
(* (a provider, a specialist, a statement) ends a step; a restart may come *)
(* between any two.  What a model, a search or a pattern answers is left   *)
(* to chance, what the code does with the answer is not.                   *)
(***************************************************************************)
EXTENDS HumanEscalation, Naturals, FiniteSets

CONSTANTS
  Executions,     \* bound: the requests the process sees
  Asks,           \* the requests that may be sent
  EventTypes,     \* SecurityEventType
  Restarts        \* bound: may the process die?

Untyped == "untyped"   \* a security category without an audit event type
Nothing == "none"

AskFields == {"role", "ops", "trusted", "own", "human", "protected", "lookup",
              "protocol"}
PrincipalRoles == {"CLIENT", "SUPPORT_AGENT", "ADMIN"}

\* What a request carries: its principal's role and OPS claim, whether its
\* token is right and its user_id the principal's, its human_context (a set of
\* at most one); of its message, the event types the patterns find in it and
\* whether it reads as a protocol lookup; and whether a protocol selector comes
\* with it.
ASSUME AsksAssumption ==
  Asks # {} /\ \A a \in Asks :
    /\ DOMAIN a = AskFields
    /\ a.role \in PrincipalRoles
    /\ {a.ops, a.trusted, a.own, a.lookup, a.protocol} \subseteq BOOLEAN
    /\ a.human \subseteq EscalationRequests
    /\ \A h, i \in a.human : h = i
    /\ a.protected \subseteq EventTypes

ASSUME EventTypesAssumption ==
  EventTypes # {} /\ {Untyped, Nothing} \cap EventTypes = {}
ASSUME RestartsAssumption == Restarts \in BOOLEAN

VARIABLES
  ready,          \* what the process composed when it started
  stage,          \* where each execution is
  ask,            \* the request it serves
  decision,       \* RouterDecision
  result,         \* the specialists' typed results in the graph state
  status,         \* OrchestrationStatus
  review,         \* what the output gate did, and under which category
  carried,        \* the content of the response
  written,        \* the events its open audit transaction inserted
  audit,          \* audit.security_events, by the request that wrote them
  reply           \* the HTTP status sent

apiVars == <<ready, stage, ask, decision, result, status, review, carried,
             written, audit, reply>>

Nodes == {"knowledge", "support", "synthesis", "web", "general",
          "conversational", "security", "ambiguous", "human"}
Working == {"received", "screen", "classify", "assembly", "respond", "gate",
            "recording"} \cup Nodes
Stages == {"free", "replied", "killed"} \cup Working

NodeOf == [KNOWLEDGE |-> "knowledge", CONVERSATIONAL |-> "conversational",
           DIRECT_GENERAL |-> "general", CUSTOMER_SUPPORT |-> "support",
           KNOWLEDGE_AND_CUSTOMER_SUPPORT |-> "support",
           KNOWLEDGE_WITH_WEB_FALLBACK |-> "web", HUMAN_ESCALATION |-> "human",
           SECURITY_BLOCK |-> "security", AMBIGUOUS |-> "ambiguous"]
Routes == DOMAIN NodeOf

KnowledgeStatuses == {"ANSWERED", "INSUFFICIENT_EVIDENCE", "PROVIDER_ERROR"}
\* INVALID_INPUT is treated as NOT_FOUND, PROVIDER_ERROR as
\* OPERATIONAL_UNAVAILABLE; a clarification comes with a question or without.
SupportStatuses == {"ANSWERED", "CLARIFICATION_REQUIRED", "QUESTION", "NOT_FOUND",
                    "OPERATIONAL_UNAVAILABLE"}
GeneralStatuses == {"ANSWERED", "PROVIDER_ERROR", "REQUIRES_CURRENT_EVIDENCE"}
EscalationStatuses == {"TRANSITIONED", "REJECTED", "AUTOMATION_SUSPENDED"}

Results ==
  [knowledge: KnowledgeStatuses \cup {Nothing},
   web: KnowledgeStatuses \cup {Nothing},
   support: SupportStatuses \cup {"UNAUTHORIZED", Nothing},
   general: GeneralStatuses \cup {Nothing},
   conversation: {"ANSWERED", Nothing},
   human: EscalationStatuses \cup {Nothing}]
NoResults == [knowledge |-> Nothing, web |-> Nothing, support |-> Nothing,
              general |-> Nothing, conversation |-> Nothing, human |-> Nothing]

Decisions ==
  [route: Routes, semantics: SUBSET EventTypes, clarify: BOOLEAN, fallback: BOOLEAN]
Unavailable == {"ORCHESTRATION_ERROR", "SECURITY_AUDIT_UNAVAILABLE"}
Statuses == Unavailable \cup
  {Nothing, "COMPLETED", "PARTIAL", "AMBIGUOUS", "SECURITY_BLOCKED",
   "WEB_FALLBACK_PENDING", "HUMAN_ESCALATION_REJECTED", "HUMAN_OWNERSHIP_ACTIVE"}
Reviews == [action: {Nothing, "ALLOW", "REDACT", "BLOCK"},
            category: EventTypes \cup {Untyped, Nothing}]

\* A response: whose answer it gives, whose typed results it exposes beside it,
\* and whether one of its texts matches a pattern of the output gate.
Sources == {"support", "knowledge", "conversation", "general", "recovery"}
Contents == [answer: Sources \cup {"refusal", Nothing},
             data: SUBSET {"knowledge", "support", "human"}, span: BOOLEAN]

Decided(route, semantics) ==
  [route |-> route, semantics |-> semantics, clarify |-> FALSE, fallback |-> FALSE]
Undecided == Decided("AMBIGUOUS", {})
NoReview == [action |-> Nothing, category |-> Nothing]
Empty == [answer |-> Nothing, data |-> {}, span |-> FALSE]
Refusal == [answer |-> "refusal", data |-> {}, span |-> FALSE]

\* Everything, all but the web provider, no chat service, no service token.
Compositions == {"all", "noweb", "nochat", "notoken"}
Serves == ready \in {"all", "noweb"}

APIInit ==
  /\ ready \in Compositions
  /\ stage = [x \in Executions |-> "free"]
  /\ ask = [x \in Executions |-> CHOOSE a \in Asks : TRUE]
  /\ decision = [x \in Executions |-> Undecided]
  /\ result = [x \in Executions |-> NoResults]
  /\ status = [x \in Executions |-> Nothing]
  /\ review = [x \in Executions |-> NoReview]
  /\ carried = [x \in Executions |-> Empty]
  /\ written = [x \in Executions |-> {}]
  /\ audit = {}
  /\ reply = [x \in Executions |-> 0]

-----------------------------------------------------------------------------
(* Steps common to several actions.                                        *)

At(x, s) == stage[x] = s
Goto(x, s) == stage' = [stage EXCEPT ![x] = s]

Answered(x, code) ==
  /\ Goto(x, "replied")
  /\ reply' = [reply EXCEPT ![x] = code]

\* One specialist's result enters the graph state.
Returns(x, who, value) ==
  result' = [result EXCEPT ![x] = [@ EXCEPT ![who] = value]]

Arrives(x, a) ==
  /\ At(x, "free")
  /\ Goto(x, "received")
  /\ ask' = [ask EXCEPT ![x] = a]
  /\ UNCHANGED <<ready, decision, result, status, review, carried, written,
                 audit, reply>>

-----------------------------------------------------------------------------
(* Admission: the dependencies of POST /chat, then _execute_chat and the   *)
(* checks of ChatApplicationService.handle.                                *)

\* 0 admits.
AdmissionCode(a) ==
  IF ready = "notoken" THEN 503
  ELSE IF ~a.trusted THEN 401
  ELSE IF ~Serves THEN 503
  ELSE IF \/ a.role = "ADMIN"
          \/ ~a.own
          \/ \E h \in a.human : ~MayAsk(a.role, h)
       THEN 403 ELSE 0

Admit(x) ==
  /\ At(x, "received")
  /\ \/ AdmissionCode(ask[x]) = 0 /\ Goto(x, "screen") /\ UNCHANGED reply
     \/ AdmissionCode(ask[x]) # 0 /\ Answered(x, AdmissionCode(ask[x]))
  /\ UNCHANGED <<ready, ask, decision, result, status, review, carried,
                 written, audit>>

-----------------------------------------------------------------------------
(* The router: deterministic screen, semantic screen, classification.      *)

\* Mutated form: a request that asks for nothing is always automation's.
HumanFirstByAction(h) == h.action \notin {"OFFER", "NONE"}

\* A conversation a person owns, and an explicit transition, leave automation.
HumanFirst(h) ==
  h.state = "HUMAN" \/ h.action \notin {"OFFER", "NONE"}

\* Mutated form: the person comes before the block.
AfterRouterPersonFirst(a, route) ==
  IF \E h \in a.human : HumanFirst(h) THEN "human" ELSE NodeOf[route]

AfterRouter(a, route) ==
  IF route # "SECURITY_BLOCK" /\ \E h \in a.human : HumanFirst(h)
  THEN "human" ELSE NodeOf[route]

Decides(x, d) ==
  /\ decision' = [decision EXCEPT ![x] = d]
  /\ Goto(x, AfterRouter(ask[x], d.route))

Screened == {Undecided, Decided("SECURITY_BLOCK", {})}
            \cup {Decided("SECURITY_BLOCK", {k}) : k \in EventTypes}

\* The patterns decide alone; otherwise the semantic classifier allows, blocks
\* with an event type, blocks inappropriate content, which has none, or fails
\* or names a category that has none, which leaves the request undecided.
Screen(x) ==
  /\ At(x, "screen")
  /\ LET found == ask[x].protected IN
     \/ found # {} /\ Decides(x, Decided("SECURITY_BLOCK", found))
     \/ found = {} /\ \E d \in Screened : Decides(x, d)
     \/ found = {} /\ Goto(x, "classify") /\ UNCHANGED decision
  /\ UNCHANGED <<ready, ask, result, status, review, carried, written, audit,
                 reply>>

\* What SemanticIntentMapper.map returns: documented knowledge is internal, or
\* public with the web as a fallback; an ambiguous intent asks for more.
Mapped == {Decided(r, {}) : r \in Routes \ {"SECURITY_BLOCK"}}
          \cup {[Decided("KNOWLEDGE", {}) EXCEPT !.fallback = TRUE],
                [Undecided EXCEPT !.clarify = TRUE]}

\* A protocol of an earlier turn resolves what the classifier left open.
FollowUp(a, d) ==
  IF d.route = "AMBIGUOUS" /\ a.ops /\ a.protocol
  THEN Decided("CUSTOMER_SUPPORT", {}) ELSE d

Classify(x) ==
  /\ At(x, "classify")
  /\ LET a == ask[x]
         trustedLookup == a.ops /\ a.lookup IN
     \/ trustedLookup /\ Decides(x, Decided("CUSTOMER_SUPPORT", {}))
     \/ ~trustedLookup /\ Decides(x, Undecided)
     \/ ~trustedLookup /\ \E d \in Mapped : Decides(x, FollowUp(a, d))
  /\ UNCHANGED <<ready, ask, result, status, review, carried, written, audit,
                 reply>>

\* An exception the router does not catch ends the graph.
GraphFails(x) ==
  /\ At(x, "classify")
  /\ ~(ask[x].ops /\ ask[x].lookup)
  /\ Goto(x, "respond")
  /\ status' = [status EXCEPT ![x] = "ORCHESTRATION_ERROR"]
  /\ UNCHANGED <<ready, ask, decision, result, review, carried, written, audit,
                 reply>>

-----------------------------------------------------------------------------
(* The specialists.  Their exceptions become typed results.                *)

Cooperative(x) == decision[x].route = "KNOWLEDGE_AND_CUSTOMER_SUPPORT"

\* Mutated form: whatever the documents do not answer is searched in the web.
AfterKnowledgeAnySearch(x, s) ==
  IF s = "INSUFFICIENT_EVIDENCE" THEN "web"
  ELSE IF Cooperative(x) THEN "synthesis"
  ELSE "assembly"

\* Mutated form: customer support runs again on what knowledge found.
AfterKnowledgeSupport(x, s) ==
  IF Cooperative(x) THEN "support"
  ELSE IF decision[x].fallback /\ s = "INSUFFICIENT_EVIDENCE" THEN "web"
  ELSE "assembly"

AfterKnowledge(x, s) ==
  IF Cooperative(x) THEN "synthesis"
  ELSE IF decision[x].fallback /\ s = "INSUFFICIENT_EVIDENCE" THEN "web"
  ELSE "assembly"

Knowledge(x) ==
  /\ At(x, "knowledge")
  /\ \E s \in KnowledgeStatuses :
       Returns(x, "knowledge", s) /\ Goto(x, AfterKnowledge(x, s))
  /\ UNCHANGED <<ready, ask, decision, status, review, carried, written, audit,
                 reply>>

AfterCustomerSupport(x) ==
  IF \E h \in ask[x].human : h.action = "OFFER" THEN "human"
  ELSE IF Cooperative(x) THEN "knowledge"
  ELSE "assembly"

CustomerSupport(x) ==
  /\ At(x, "support")
  /\ \/ ~ask[x].ops /\ Returns(x, "support", "UNAUTHORIZED")
     \/ ask[x].ops /\ \E s \in SupportStatuses : Returns(x, "support", s)
  /\ Goto(x, AfterCustomerSupport(x))
  /\ UNCHANGED <<ready, ask, decision, status, review, carried, written, audit,
                 reply>>

\* Combines what both found; an answer stays an answer whatever happens.
CooperativeSynthesis(x) ==
  /\ At(x, "synthesis")
  /\ Goto(x, "assembly")
  /\ UNCHANGED <<ready, ask, decision, result, status, review, carried, written,
                 audit, reply>>

WebKnowledge(x) ==
  /\ At(x, "web")
  /\ Goto(x, "assembly")
  /\ \/ /\ ready = "all"
        /\ \E s \in KnowledgeStatuses : Returns(x, "web", s)
        /\ UNCHANGED status
     \/ /\ ready = "noweb"
        /\ status' = [status EXCEPT ![x] = "WEB_FALLBACK_PENDING"]
        /\ UNCHANGED result
  /\ UNCHANGED <<ready, ask, decision, review, carried, written, audit, reply>>

DirectGeneral(x) ==
  /\ At(x, "general")
  /\ \E s \in GeneralStatuses :
       /\ Returns(x, "general", s)
       /\ Goto(x, IF s = "REQUIRES_CURRENT_EVIDENCE" THEN "web" ELSE "assembly")
  /\ UNCHANGED <<ready, ask, decision, status, review, carried, written, audit,
                 reply>>

Conversational(x) ==
  /\ At(x, "conversational")
  /\ Returns(x, "conversation", "ANSWERED")
  /\ Goto(x, "assembly")
  /\ UNCHANGED <<ready, ask, decision, status, review, carried, written, audit,
                 reply>>

\* A question back to the client, only for a request the classifier understood
\* to be ambiguous.
AmbiguousTerminal(x) ==
  /\ At(x, "ambiguous")
  /\ Goto(x, "assembly")
  /\ status' = [status EXCEPT ![x] = "AMBIGUOUS"]
  /\ IF decision[x].clarify THEN Returns(x, "conversation", "ANSWERED")
     ELSE UNCHANGED result
  /\ UNCHANGED <<ready, ask, decision, review, carried, written, audit, reply>>

\* Without a request of its own, the turn offers a person.
DefaultOffer == [state |-> "BOT", action |-> "OFFER", reason |-> TRUE,
                 package |-> "none", owner |-> "none"]
HumanRequest(x) == IF ask[x].human = {} THEN DefaultOffer
                   ELSE CHOOSE h \in ask[x].human : TRUE

EscalateToHuman(x) ==
  /\ At(x, "human")
  /\ Goto(x, "assembly")
  /\ LET answer == Transition(ask[x].role, HumanRequest(x)).status IN
     /\ Returns(x, "human", answer)
     /\ status' = [status EXCEPT ![x] =
          CASE answer = "REJECTED" -> "HUMAN_ESCALATION_REJECTED"
            [] answer = "AUTOMATION_SUSPENDED" -> "HUMAN_OWNERSHIP_ACTIVE"
            [] OTHER -> @]
  /\ UNCHANGED <<ready, ask, decision, review, carried, written, audit, reply>>

\* A block with event types is recorded before it is answered.
SecurityTerminal(x) ==
  /\ At(x, "security")
  /\ \/ /\ decision[x].semantics # {}
        /\ Goto(x, "recording")
        /\ UNCHANGED status
     \/ /\ decision[x].semantics = {}
        /\ Goto(x, "assembly")
        /\ status' = [status EXCEPT ![x] = "SECURITY_BLOCKED"]
  /\ UNCHANGED <<ready, ask, decision, result, review, carried, written, audit,
                 reply>>

\* The web's result replaces the documented one.
KnowledgeResult(x) ==
  IF result[x].web = Nothing THEN result[x].knowledge ELSE result[x].web

Settled(x) ==
  CASE result[x].general = "PROVIDER_ERROR" -> "PARTIAL"
    [] result[x].general = "ANSWERED" -> "COMPLETED"
    [] OTHER -> IF /\ KnowledgeResult(x) \in {Nothing, "ANSWERED"}
                   /\ result[x].support \in {Nothing, "ANSWERED"}
                THEN "COMPLETED" ELSE "PARTIAL"

Assembly(x) ==
  /\ At(x, "assembly")
  /\ Goto(x, "respond")
  /\ status' = [status EXCEPT ![x] = IF @ = Nothing THEN Settled(x) ELSE @]
  /\ UNCHANGED <<ready, ask, decision, result, review, carried, written, audit,
                 reply>>

-----------------------------------------------------------------------------
(* The response, its review and the reply.                                 *)

\* _recovery_kind: the outcomes a recovery text is written for.
Recoverable(x) ==
  /\ status[x] \notin Unavailable \cup {"SECURITY_BLOCKED"}
  /\ \/ KnowledgeResult(x) \in {"INSUFFICIENT_EVIDENCE", "PROVIDER_ERROR"}
     \/ result[x].support \in SupportStatuses \ {"ANSWERED"}
     \/ status[x] = "WEB_FALLBACK_PENDING"

\* The specialist, one at most, whose answer is the response's.
Speakers(x) ==
  LET r == result[x]
      alone == KnowledgeResult(x) = Nothing /\ r.support = Nothing IN
  {who \in {"support", "knowledge", "conversation", "general"} :
     CASE who = "support" -> /\ r.support \in {"ANSWERED", "QUESTION"}
                             /\ Cooperative(x) \/ KnowledgeResult(x) = Nothing
       [] who = "knowledge" -> KnowledgeResult(x) = "ANSWERED" /\ r.support = Nothing
       [] who = "conversation" -> r.conversation = "ANSWERED" /\ alone
       [] OTHER -> r.general = "ANSWERED" /\ alone}

Answer(x) ==
  IF Speakers(x) # {} THEN CHOOSE who \in Speakers(x) : TRUE
  ELSE IF Recoverable(x) THEN "recovery"
  ELSE Nothing

\* The typed results the response exposes beside its answer.
Payload(x) ==
  {who \in {"knowledge", "support", "human"} :
     IF who = "knowledge" THEN KnowledgeResult(x) # Nothing
     ELSE result[x][who] # Nothing}

Discloses(c) == c.answer # Nothing \/ c.data # {}

Candidates(x) ==
  IF status[x] = "SECURITY_BLOCKED"
  THEN {[Refusal EXCEPT !.span = s] : s \in BOOLEAN}
  ELSE {c \in [answer: {Answer(x)}, data: {Payload(x)}, span: BOOLEAN] :
          c.span => Discloses(c)}

Respond(x) ==
  /\ At(x, "respond")
  /\ Goto(x, "gate")
  /\ \E c \in Candidates(x) : carried' = [carried EXCEPT ![x] = c]
  /\ UNCHANGED <<ready, ask, decision, result, status, review, written, audit,
                 reply>>

\* What the gate does with a response that discloses something: the reviewer
\* allows it, and spans that were found have been removed, or a refusal takes
\* its place because the reviewer blocks, asks to redact, or fails.
Verdicts(c) ==
  {[action |-> "BLOCK", category |-> k] : k \in EventTypes \cup {Untyped}}
  \cup (IF c.span THEN {[action |-> "REDACT", category |-> k] : k \in EventTypes}
        ELSE {[action |-> "ALLOW", category |-> Nothing]})

\* Mutated form: the reviewed copy is thrown away and the original is sent.
AfterVerdictOriginal(c, v) == IF v.action = "BLOCK" THEN Refusal ELSE c

AfterVerdict(c, v) ==
  IF v.action = "BLOCK" THEN Refusal ELSE [c EXCEPT !.span = FALSE]

FinalCode(x) == IF status[x] \in Unavailable THEN 503 ELSE 200

\* An intervention on a response that is not a refusal already is recorded
\* before the reply; one that has no event type cannot be.
AfterReview(x, v) ==
  IF v.action \in {"BLOCK", "REDACT"} /\ status[x] # "SECURITY_BLOCKED"
  THEN \/ v.category = Untyped /\ Answered(x, 503)
       \/ v.category # Untyped /\ Goto(x, "recording") /\ UNCHANGED reply
  ELSE Answered(x, FinalCode(x))

Gate(x) ==
  /\ At(x, "gate")
  /\ \/ /\ ~Discloses(carried[x])
        /\ Answered(x, FinalCode(x))
        /\ UNCHANGED <<review, carried>>
     \/ /\ Discloses(carried[x])
        /\ \E v \in Verdicts(carried[x]) :
             /\ review' = [review EXCEPT ![x] = v]
             /\ carried' = [carried EXCEPT ![x] = AfterVerdict(@, v)]
             /\ AfterReview(x, v)
  /\ UNCHANGED <<ready, ask, decision, result, status, written, audit>>

-----------------------------------------------------------------------------
(* The audit transaction (security/audit.py), of the security terminal and *)
(* of the output gate: every event is inserted, then all are committed.    *)

\* The events an execution has to record.
Required(x) ==
  IF decision[x].route = "SECURITY_BLOCK" THEN decision[x].semantics
  ELSE {review[x].category} \cap EventTypes

\* Mutated form: each event is a transaction of its own.
InsertEventCommitted(x) ==
  /\ At(x, "recording")
  /\ \E k \in Required(x) \ written[x] :
       /\ written' = [written EXCEPT ![x] = @ \cup {k}]
       /\ audit' = audit \cup {<<x, k>>}
  /\ UNCHANGED <<ready, stage, ask, decision, result, status, review, carried,
                 reply>>

InsertEvent(x) ==
  /\ At(x, "recording")
  /\ \E k \in Required(x) \ written[x] :
       written' = [written EXCEPT ![x] = @ \cup {k}]
  /\ UNCHANGED <<ready, stage, ask, decision, result, status, review, carried,
                 audit, reply>>

\* Mutated form: a block is answered whether or not it was recorded.
AfterAuditUnchecked(x, recorded) ==
  IF decision[x].route = "SECURITY_BLOCK"
  THEN /\ status' = [status EXCEPT ![x] = "SECURITY_BLOCKED"]
       /\ Goto(x, "assembly")
       /\ UNCHANGED reply
  ELSE /\ Answered(x, IF recorded THEN FinalCode(x) ELSE 503)
       /\ UNCHANGED status

AfterAudit(x, recorded) ==
  IF decision[x].route = "SECURITY_BLOCK"
  THEN /\ status' = [status EXCEPT ![x] =
            IF recorded THEN "SECURITY_BLOCKED" ELSE "SECURITY_AUDIT_UNAVAILABLE"]
       /\ Goto(x, "assembly")
       /\ UNCHANGED reply
  ELSE /\ Answered(x, IF recorded THEN FinalCode(x) ELSE 503)
       /\ UNCHANGED status

\* The connection may be lost before the commit is acknowledged.
CommitEvents(x) ==
  /\ At(x, "recording")
  /\ written[x] = Required(x)
  /\ audit' = audit \cup ({x} \X written[x])
  /\ written' = [written EXCEPT ![x] = {}]
  /\ \E acknowledged \in BOOLEAN : AfterAudit(x, acknowledged)
  /\ UNCHANGED <<ready, ask, decision, result, review, carried>>

RecordingFails(x) ==
  /\ At(x, "recording")
  /\ written' = [written EXCEPT ![x] = {}]
  /\ AfterAudit(x, FALSE)
  /\ UNCHANGED <<ready, ask, decision, result, review, carried, audit>>

-----------------------------------------------------------------------------
Running(x) == stage[x] \in Working

\* The process dies; a new one composes what it can.
Restart ==
  /\ Restarts
  /\ ~Serves \/ \E x \in Executions : Running(x)
  /\ stage' = [x \in Executions |-> IF Running(x) THEN "killed" ELSE stage[x]]
  /\ written' = [x \in Executions |-> {}]
  /\ ready' \in Compositions
  /\ UNCHANGED <<ask, decision, result, status, review, carried, audit, reply>>

Step(x) ==
  \/ Admit(x) \/ Screen(x) \/ Classify(x) \/ GraphFails(x)
  \/ Knowledge(x) \/ CustomerSupport(x) \/ CooperativeSynthesis(x)
  \/ WebKnowledge(x) \/ DirectGeneral(x) \/ Conversational(x)
  \/ AmbiguousTerminal(x) \/ EscalateToHuman(x) \/ SecurityTerminal(x)
  \/ Assembly(x) \/ Respond(x) \/ Gate(x)
  \/ InsertEvent(x) \/ CommitEvents(x) \/ RecordingFails(x)

\* The API with any callers.
APINext ==
  \/ Restart
  \/ \E x \in Executions : Step(x)
  \/ \E x \in Executions, a \in Asks : Arrives(x, a)

APISpec == APIInit /\ [][APINext]_apiVars

-----------------------------------------------------------------------------
(* Properties of the API, whoever calls it.                                *)

\* Every variable has a value of its type.
APITypeOK ==
  /\ ready \in Compositions
  /\ stage \in [Executions -> Stages]
  /\ ask \in [Executions -> Asks]
  /\ decision \in [Executions -> Decisions]
  /\ result \in [Executions -> Results]
  /\ status \in [Executions -> Statuses]
  /\ review \in [Executions -> Reviews]
  /\ carried \in [Executions -> Contents]
  /\ written \in [Executions -> SUBSET EventTypes]
  /\ audit \subseteq Executions \X EventTypes
  /\ reply \in [Executions -> {0, 200, 401, 403, 503}]

EventsOf(x) == {k \in EventTypes : <<x, k>> \in audit}

\* A request that was blocked, or whose response was blocked or redacted, gets
\* a 200 only when all its events are committed; other requests are answered
\* without one, and only blocked inappropriate content has none to record
\* (orchestration.py _security_terminal, chat.py handle).
AuditedBeforeReply ==
  \A x \in Executions : reply[x] = 200 => EventsOf(x) = Required(x)

\* At every moment, also after a restart or a lost acknowledgement, the events
\* of a request are all committed or none is, and a request nothing was blocked
\* in has none (security/audit.py record_many in one transaction).
AuditIsWhole ==
  \A x \in Executions : EventsOf(x) \in {{}, Required(x)}

\* A message the patterns recognise, and a request the semantic screen blocks,
\* never reach a specialist, and the response carries nothing but a refusal
\* (router.py route_async, orchestration.py _route_after_router).
BlockedTouchesNothing ==
  \A x \in Executions :
    (ask[x].protected # {} \/ decision[x].route = "SECURITY_BLOCK") =>
      /\ result[x] = NoResults
      /\ carried[x].answer \in {Nothing, "refusal"}
      /\ carried[x].data = {}

\* What reaches a client besides a refusal was allowed by the reviewer and holds
\* no recognised span, whichever route, recovery or escalation wrote it
\* (chat.py _apply_output_security).
NothingUnreviewed ==
  \A x \in Executions :
    (reply[x] = 200 /\ Discloses(carried[x])) =>
      \/ carried[x] = Refusal
      \/ review[x].action \in {"ALLOW", "REDACT"} /\ ~carried[x].span

\* Operational records are read for a client or an operator with the OPS claim
\* only, and an execution that read them never asks the web or the model's own
\* knowledge (orchestration.py _customer_support_node, _route_after_knowledge).
OperationsStayInside ==
  \A x \in Executions :
    result[x].support \in SupportStatuses =>
      /\ ask[x].ops
      /\ ask[x].role # "ADMIN"
      /\ result[x].web = Nothing
      /\ result[x].general = Nothing

\* A turn of a conversation a person owns runs no specialist but the escalation
\* itself, and only the owner of record takes it out of human ownership
\* (orchestration.py _route_after_router, human_escalation.py transition).
HumanOwnedGetsNoAutomation ==
  \A x \in Executions : \A h \in ask[x].human :
    (h.state = "HUMAN" /\ stage[x] # "free") =>
      /\ result[x] = [NoResults EXCEPT !.human = result[x].human]
      /\ result[x].human = "TRANSITIONED" => h.owner = "self"

\* A provider that is unavailable does not leave the client without an answer
\* (what docs/specs/phase-11.1/03-security-and-conversational-spec.md says).
ProviderFailureIsExplained ==
  \A x \in Executions :
    (reply[x] = 200 /\ "PROVIDER_ERROR" \in {KnowledgeResult(x), result[x].general}) =>
      carried[x].answer # Nothing

=============================================================================
