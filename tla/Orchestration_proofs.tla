------------------------ MODULE Orchestration_proofs ------------------------
(***************************************************************************)
(* What holds of every request to the API, for any number of executions,   *)
(* requests and event types.  The inductive invariant speaks of one        *)
(* execution at a time: executions share nothing but the audit table, in   *)
(* which each has rows of its own.  The last section adds the portal's     *)
(* call of the API (ChatCall).                                             *)
(***************************************************************************)
EXTENDS ChatCall, FiniteSetTheorems, TLAPS

Blocked(x) == decision[x].route = "SECURITY_BLOCK"

Unrouted == {"free", "received", "screen", "classify"}
Over == {"replied", "killed"}

\* Nothing is known of a request that is not routed.
FreshUntilRouted(x) ==
  stage[x] \in Unrouted =>
    decision[x] = Undecided /\ result[x] = NoResults /\ status[x] = Nothing

\* The gate is the first to review, Respond the first to fill the response.
UnreviewedUntilGate(x) ==
  /\ stage[x] \notin Over \cup {"recording"} => review[x] = NoReview
  /\ (stage[x] = "recording" /\ Blocked(x)) => review[x] = NoReview
  /\ stage[x] \notin Over \cup {"recording", "gate"} => carried[x] = Empty
  /\ (stage[x] = "recording" /\ Blocked(x)) => carried[x] = Empty
  /\ reply[x] # 0 => stage[x] = "replied"

\* A recognised message is blocked, and a block stays on the block's path.
BlockedPath(x) ==
  /\ ask[x].protected # {} =>
       Blocked(x) \/ stage[x] \in {"free", "received", "screen"} \cup Over
  /\ Blocked(x) =>
       /\ stage[x] \in {"security", "recording", "assembly", "respond", "gate"} \cup Over
       /\ result[x] = NoResults
       /\ status[x] \in {Nothing, "SECURITY_BLOCKED", "SECURITY_AUDIT_UNAVAILABLE"}
       /\ stage[x] \in {"security", "recording"} => status[x] = Nothing
       /\ stage[x] \in {"assembly", "respond", "gate"} => status[x] # Nothing
       /\ carried[x].answer \in {Nothing, "refusal"} /\ carried[x].data = {}
       /\ (stage[x] = "gate" /\ status[x] = "SECURITY_AUDIT_UNAVAILABLE") =>
            carried[x].answer = Nothing
  /\ ~Blocked(x) =>
       /\ status[x] \notin {"SECURITY_BLOCKED", "SECURITY_AUDIT_UNAVAILABLE"}
       /\ stage[x] # "security"
  /\ (ask[x].protected # {} /\ ~Blocked(x)) =>
       result[x] = NoResults /\ carried[x] = Empty

\* Events are committed after they are all inserted, once.
AuditPath(x) ==
  /\ written[x] \subseteq Required(x)
  /\ stage[x] # "recording" => written[x] = {}
  /\ EventsOf(x) \in {{}, Required(x)}
  /\ stage[x] \in Stages \ ({"assembly", "respond", "gate"} \cup Over) => EventsOf(x) = {}
  /\ (stage[x] \notin Over /\ ~Blocked(x)) => EventsOf(x) = {}
  /\ (Blocked(x) /\ status[x] = "SECURITY_BLOCKED") => EventsOf(x) = Required(x)
  /\ reply[x] = 200 => EventsOf(x) = Required(x)

\* What the gate lets through.
Cleared(x) ==
  \/ carried[x] = Refusal
  \/ review[x].action \in {"ALLOW", "REDACT"} /\ ~carried[x].span

ReviewPath(x) ==
  /\ (stage[x] = "recording" /\ ~Blocked(x)) => Cleared(x)
  /\ (reply[x] = 200 /\ Discloses(carried[x])) => Cleared(x)

\* Operational records, and where the request may still go.
OperationsPath(x) ==
  /\ stage[x] \notin {"free", "received"} \cup Over => ask[x].role # "ADMIN"
  /\ stage[x] \in {"web", "general", "support"} => result[x].support = Nothing
  /\ (stage[x] = "knowledge" /\ ~Cooperative(x)) => result[x].support = Nothing
  /\ stage[x] \in {"support", "knowledge"} =>
       result[x].web = Nothing /\ result[x].general = Nothing
  /\ result[x].support \in SupportStatuses =>
       /\ ask[x].ops /\ ask[x].role # "ADMIN"
       /\ result[x].web = Nothing /\ result[x].general = Nothing

\* A person's conversation goes to the escalation, or is blocked.
OwnedPath(x) ==
  \A h \in ask[x].human :
    (h.state = "HUMAN" /\ stage[x] # "free") =>
      /\ stage[x] \notin {"knowledge", "support", "synthesis", "web", "general",
                         "conversational", "ambiguous"}
      /\ result[x] = [NoResults EXCEPT !.human = result[x].human]
      /\ result[x].human = "TRANSITIONED" => h.owner = "self"

ExecutionOK(x) ==
  /\ FreshUntilRouted(x)
  /\ UnreviewedUntilGate(x)
  /\ BlockedPath(x)
  /\ AuditPath(x)
  /\ ReviewPath(x)
  /\ OperationsPath(x)
  /\ OwnedPath(x)

APIInv == APITypeOK /\ \A x \in Executions : ExecutionOK(x)

-----------------------------------------------------------------------------
(* Types.                                                                  *)

LEMMA AfterRouterType ==
  ASSUME NEW a, NEW route \in Routes
  PROVE  AfterRouter(a, route) \in Nodes
  BY DEF AfterRouter, Routes, NodeOf, Nodes

LEMMA DecidedType ==
  ASSUME NEW route \in Routes, NEW semantics \in SUBSET EventTypes
  PROVE  Decided(route, semantics) \in Decisions
  BY DEF Decided, Decisions

LEMMA ScreenedType ==
  ASSUME NEW d \in Screened
  PROVE  d \in Decisions
  BY DecidedType DEF Screened, Undecided, Routes, NodeOf

LEMMA MappedType ==
  ASSUME NEW a, NEW d \in Mapped
  PROVE  FollowUp(a, d) \in Decisions
  <1>1. d \in Decisions
    <2>1. "KNOWLEDGE" \in Routes /\ "AMBIGUOUS" \in Routes
      BY DEF Routes, NodeOf
    <2>2. [Decided("KNOWLEDGE", {}) EXCEPT !.fallback = TRUE] \in Decisions
      BY <2>1, Zenon DEF Decided, Decisions
    <2>3. [Undecided EXCEPT !.clarify = TRUE] \in Decisions
      BY <2>1, Zenon DEF Undecided, Decided, Decisions
    <2> QED
      BY <2>2, <2>3, DecidedType DEF Mapped
  <1>2. Decided("CUSTOMER_SUPPORT", {}) \in Decisions
    BY DecidedType DEF Routes, NodeOf
  <1> QED
    BY <1>1, <1>2 DEF FollowUp

LEMMA ReturnsType ==
  ASSUME result \in [Executions -> Results], NEW x \in Executions,
         NEW who, NEW value, Returns(x, who, value),
         \/ who \in {"knowledge", "web"} /\ value \in KnowledgeStatuses
         \/ who = "support" /\ value \in SupportStatuses \cup {"UNAUTHORIZED"}
         \/ who = "general" /\ value \in GeneralStatuses
         \/ who = "conversation" /\ value = "ANSWERED"
         \/ who = "human" /\ value \in EscalationStatuses
  PROVE  result' \in [Executions -> Results]
  <1>1. CASE who = "knowledge"
    BY <1>1 DEF Returns, Results
  <1>2. CASE who = "web"
    BY <1>2 DEF Returns, Results
  <1>3. CASE who = "support"
    BY <1>3 DEF Returns, Results
  <1>4. CASE who = "general"
    BY <1>4 DEF Returns, Results
  <1>5. CASE who = "conversation"
    BY <1>5 DEF Returns, Results
  <1>6. CASE who = "human"
    BY <1>6 DEF Returns, Results
  <1> QED
    BY <1>1, <1>2, <1>3, <1>4, <1>5, <1>6

LEMMA ReturnsFields ==
  ASSUME result \in [Executions -> Results], NEW x \in Executions,
         NEW who, NEW value, Returns(x, who, value)
  PROVE  /\ \A y \in Executions : y # x => result'[y] = result[y]
         /\ who # "knowledge" => result'[x].knowledge = result[x].knowledge
         /\ who # "web" => result'[x].web = result[x].web
         /\ who # "support" => result'[x].support = result[x].support
         /\ who # "general" => result'[x].general = result[x].general
         /\ who = "support" => result'[x].support = value
  BY DEF Returns, Results

LEMMA ReturnsHuman ==
  ASSUME result \in [Executions -> Results], NEW x \in Executions, NEW value,
         Returns(x, "human", value)
  PROVE  result'[x] = [result[x] EXCEPT !.human = value]
  BY DEF Returns, Results
LEMMA TransitionType ==
  ASSUME NEW role, NEW h
  PROVE  Transition(role, h).status \in EscalationStatuses
  BY DEF Transition, EscalationStatuses

LEMMA AnswerType ==
  ASSUME NEW x \in Executions
  PROVE  Answer(x) \in Sources \cup {Nothing}
  <1>1. CASE Speakers(x) # {}
    <2>1. (CHOOSE w \in Speakers(x) : TRUE) \in Speakers(x)
      BY <1>1
    <2>2. Speakers(x) \subseteq Sources
      BY DEF Speakers, Sources
    <2> QED
      BY <1>1, <2>1, <2>2 DEF Answer
  <1>2. CASE Speakers(x) = {}
    BY <1>2 DEF Answer, Sources
  <1> QED
    BY <1>1, <1>2

LEMMA RefusalType == Refusal \in Contents
  BY DEF Refusal, Contents

LEMMA CandidatesType ==
  ASSUME NEW x \in Executions, NEW c \in Candidates(x)
  PROVE  c \in Contents
  <1>1. CASE status[x] = "SECURITY_BLOCKED"
    <2>1. PICK s \in BOOLEAN : c = [Refusal EXCEPT !.span = s]
      BY <1>1, Zenon DEF Candidates
    <2> QED
      BY <2>1, RefusalType, Zenon DEF Contents
  <1>2. CASE status[x] # "SECURITY_BLOCKED"
    <2>1. c \in [answer: {Answer(x)}, data: {Payload(x)}, span: BOOLEAN]
      BY <1>2, Zenon DEF Candidates
    <2>2. Payload(x) \subseteq {"knowledge", "support", "human"}
      BY DEF Payload
    <2> QED
      BY <2>1, <2>2, AnswerType DEF Contents
  <1> QED
    BY <1>1, <1>2

LEMMA VerdictsType ==
  ASSUME NEW c, NEW v \in Verdicts(c)
  PROVE  v \in Reviews
  BY DEF Verdicts, Reviews

LEMMA AfterVerdictType ==
  ASSUME NEW c \in Contents, NEW v
  PROVE  AfterVerdict(c, v) \in Contents
  BY RefusalType DEF AfterVerdict, Contents
LEMMA DecidesType ==
  ASSUME APITypeOK, NEW x \in Executions, NEW d \in Decisions, Decides(x, d)
  PROVE  decision' \in [Executions -> Decisions] /\ stage' \in [Executions -> Stages]
  <1>1. d.route \in Routes
    BY DEF Decisions
  <1>2. AfterRouter(ask[x], d.route) \in Nodes
    BY <1>1, AfterRouterType
  <1> QED
    BY <1>2 DEF Decides, APITypeOK, Goto, Stages, Working

LEMMA StepTypeOK ==
  ASSUME APITypeOK, NEW x \in Executions, Step(x)
  PROVE  APITypeOK'
  <1>1. CASE Admit(x)
    BY <1>1 DEF Admit, APITypeOK, Goto, Stages, Working, Answered, AdmissionCode
  <1>2. CASE Screen(x)
    <2>1. \A found \in SUBSET EventTypes : Decided("SECURITY_BLOCK", found) \in Decisions
      BY DecidedType DEF Routes, NodeOf
    <2>2. ask[x].protected \in SUBSET EventTypes
      BY AsksAssumption DEF APITypeOK
    <2> QED
      BY <1>2, <2>1, <2>2, ScreenedType, DecidesType
      DEF Screen, APITypeOK, Goto, Stages, Working
  <1>3. CASE Classify(x)
    <2>1. Undecided \in Decisions /\ Decided("CUSTOMER_SUPPORT", {}) \in Decisions
      BY DecidedType DEF Undecided, Routes, NodeOf
    <2> QED
      BY <1>3, <2>1, MappedType, DecidesType DEF Classify, APITypeOK, Goto
  <1>4. CASE GraphFails(x)
    BY <1>4 DEF GraphFails, APITypeOK, Goto, Stages, Working, Statuses, Unavailable
  <1>5. CASE Knowledge(x)
    BY <1>5, ReturnsType
    DEF Knowledge, APITypeOK, Goto, Stages, Working, Nodes, AfterKnowledge
  <1>6. CASE CustomerSupport(x)
    BY <1>6, ReturnsType
    DEF CustomerSupport, APITypeOK, Goto, Stages, Working, Nodes, AfterCustomerSupport
  <1>7. CASE CooperativeSynthesis(x)
    BY <1>7 DEF CooperativeSynthesis, APITypeOK, Goto, Stages, Working
  <1>8. CASE WebKnowledge(x)
    BY <1>8, ReturnsType DEF WebKnowledge, APITypeOK, Goto, Stages, Working, Statuses
  <1>9. CASE DirectGeneral(x)
    BY <1>9, ReturnsType DEF DirectGeneral, APITypeOK, Goto, Stages, Working, Nodes
  <1>10. CASE Conversational(x)
    BY <1>10, ReturnsType DEF Conversational, APITypeOK, Goto, Stages, Working
  <1>11. CASE AmbiguousTerminal(x)
    BY <1>11, ReturnsType
    DEF AmbiguousTerminal, APITypeOK, Goto, Stages, Working, Statuses
  <1>12. CASE EscalateToHuman(x)
    BY <1>12, ReturnsType, TransitionType
    DEF EscalateToHuman, APITypeOK, Goto, Stages, Working, Statuses
  <1>13. CASE SecurityTerminal(x)
    BY <1>13 DEF SecurityTerminal, APITypeOK, Goto, Stages, Working, Statuses
  <1>14. CASE Assembly(x)
    BY <1>14 DEF Assembly, APITypeOK, Goto, Stages, Working, Statuses, Settled
  <1>15. CASE Respond(x)
    BY <1>15, CandidatesType DEF Respond, APITypeOK, Goto, Stages, Working
  <1>16. CASE Gate(x)
    BY <1>16, VerdictsType, AfterVerdictType
    DEF Gate, APITypeOK, Goto, Stages, Working, Answered, FinalCode, AfterReview
  <1>17. CASE InsertEvent(x)
    BY <1>17 DEF InsertEvent, APITypeOK, Goto, Required, Decisions
  <1>18. CASE CommitEvents(x)
    BY <1>18
    DEF CommitEvents, APITypeOK, Goto, Stages, Working, AfterAudit, Answered, FinalCode,
      Statuses, Unavailable
  <1>19. CASE RecordingFails(x)
    BY <1>19
    DEF RecordingFails, APITypeOK, Goto, Stages, Working, AfterAudit, Answered,
      Statuses, Unavailable
  <1> QED
    BY <1>1, <1>2, <1>3, <1>4, <1>5, <1>6, <1>7, <1>8, <1>9, <1>10, <1>11, <1>12, <1>13,
      <1>14, <1>15, <1>16, <1>17, <1>18, <1>19
    DEF Step

\* What the prover must know of the values a step chooses.

LEMMA DecidesFields ==
  ASSUME APITypeOK, NEW x \in Executions, NEW d \in Decisions, Decides(x, d)
  PROVE  /\ decision'[x] = d
         /\ stage'[x] = AfterRouter(ask[x], d.route)
         /\ stage'[x] \in Nodes
         /\ stage'[x] = "security" <=> d.route = "SECURITY_BLOCK"
  <1>1. d.route \in Routes
    BY DEF Decisions
  <1>2. decision'[x] = d /\ stage'[x] = AfterRouter(ask[x], d.route)
    BY DEF Decides, Goto, APITypeOK
  <1>3. AfterRouter(ask[x], d.route) = "security" <=> d.route = "SECURITY_BLOCK"
    BY <1>1 DEF AfterRouter, Routes, NodeOf
  <1> QED
    BY <1>1, <1>2, <1>3, AfterRouterType

LEMMA ScreenedRoutes ==
  ASSUME NEW d \in Screened
  PROVE  d.route \in {"SECURITY_BLOCK", "AMBIGUOUS"}
  BY DEF Screened, Undecided, Decided

LEMMA MappedRoutes ==
  ASSUME NEW a, NEW d \in Mapped
  PROVE  FollowUp(a, d).route # "SECURITY_BLOCK"
  <1>1. d.route # "SECURITY_BLOCK"
    <2>1. [Decided("KNOWLEDGE", {}) EXCEPT !.fallback = TRUE].route = "KNOWLEDGE"
      BY Zenon DEF Decided
    <2>2. [Undecided EXCEPT !.clarify = TRUE].route = "AMBIGUOUS"
      BY Zenon DEF Undecided, Decided
    <2>3. \A r : Decided(r, {}).route = r
      BY DEF Decided
    <2>4. \/ \E r \in Routes \ {"SECURITY_BLOCK"} : d = Decided(r, {})
          \/ d = [Decided("KNOWLEDGE", {}) EXCEPT !.fallback = TRUE]
          \/ d = [Undecided EXCEPT !.clarify = TRUE]
      BY Zenon DEF Mapped
    <2>5. CASE \E r \in Routes \ {"SECURITY_BLOCK"} : d = Decided(r, {})
      BY <2>3, <2>5
    <2>6. CASE d = [Decided("KNOWLEDGE", {}) EXCEPT !.fallback = TRUE]
      <3>1. d.route = "KNOWLEDGE"
        BY <2>1, <2>6, Zenon
      <3> QED
        BY <3>1
    <2>7. CASE d = [Undecided EXCEPT !.clarify = TRUE]
      <3>1. d.route = "AMBIGUOUS"
        BY <2>2, <2>7, Zenon
      <3> QED
        BY <3>1
    <2> QED
      BY <2>4, <2>5, <2>6, <2>7
  <1> QED
    BY <1>1 DEF FollowUp, Decided

LEMMA VerdictCases ==
  ASSUME NEW c, NEW v \in Verdicts(c)
  PROVE  \/ v.action = "BLOCK" /\ v.category \in EventTypes \cup {Untyped}
         \/ v.action = "REDACT" /\ v.category \in EventTypes
         \/ v.action = "ALLOW" /\ v.category = Nothing
  BY DEF Verdicts

LEMMA AfterVerdictCases ==
  ASSUME NEW c \in Contents, NEW v
  PROVE  IF v.action = "BLOCK" THEN AfterVerdict(c, v) = Refusal
         ELSE /\ AfterVerdict(c, v).answer = c.answer
              /\ AfterVerdict(c, v).data = c.data
              /\ ~AfterVerdict(c, v).span
  BY DEF AfterVerdict, Contents

\* A blocked request has nothing to say but the refusal.
LEMMA BlockedCandidates ==
  ASSUME NEW x \in Executions, NEW c \in Candidates(x), result[x] = NoResults,
         status[x] \in {"SECURITY_BLOCKED", "SECURITY_AUDIT_UNAVAILABLE"}
  PROVE  /\ c.answer \in {Nothing, "refusal"} /\ c.data = {}
         /\ status[x] = "SECURITY_AUDIT_UNAVAILABLE" => c.answer = Nothing
  <1>1. CASE status[x] = "SECURITY_BLOCKED"
    <2>1. PICK s \in BOOLEAN : c = [Refusal EXCEPT !.span = s]
      BY <1>1, Zenon DEF Candidates
    <2>2. c.answer = "refusal" /\ c.data = {}
      BY <2>1, Zenon DEF Refusal
    <2> QED
      BY <1>1, <2>2
  <1>2. CASE status[x] = "SECURITY_AUDIT_UNAVAILABLE"
    <2>1. c \in [answer: {Answer(x)}, data: {Payload(x)}, span: BOOLEAN]
      BY <1>2 DEF Candidates
    <2>2. Payload(x) = {}
      BY DEF Payload, KnowledgeResult, NoResults, Nothing
    <2>3. Speakers(x) = {}
      BY DEF Speakers, KnowledgeResult, NoResults, Nothing
    <2>4. Answer(x) = Nothing
      BY <1>2, <2>3 DEF Answer, Recoverable, Unavailable
    <2> QED
      BY <1>2, <2>1, <2>2, <2>4
  <1> QED
    BY <1>1, <1>2

\* What the escalation answers for a conversation a person owns.
LEMMA OwnedTransition ==
  ASSUME APITypeOK, NEW x \in Executions, NEW h \in ask[x].human, h.state = "HUMAN",
         Transition(ask[x].role, HumanRequest(x)).status = "TRANSITIONED"
  PROVE  h.owner = "self"
  <1>1. HumanRequest(x) \in ask[x].human
    BY DEF HumanRequest
  <1>2. ask[x] \in Asks
    BY DEF APITypeOK
  <1>3. HumanRequest(x) = h
    BY <1>1, <1>2, AsksAssumption
  <1>4. Allowed(ask[x].role, h) /\ h.action # "NONE"
    BY <1>3 DEF Transition
  <1> QED
    BY <1>4 DEF Allowed

-----------------------------------------------------------------------------
(* Executions are independent.                                             *)

\* Nothing of an execution changes.
Same(y) ==
  /\ stage'[y] = stage[y]
  /\ ask'[y] = ask[y]
  /\ decision'[y] = decision[y]
  /\ result'[y] = result[y]
  /\ status'[y] = status[y]
  /\ review'[y] = review[y]
  /\ carried'[y] = carried[y]
  /\ written'[y] = written[y]
  /\ reply'[y] = reply[y]
  /\ EventsOf(y)' = EventsOf(y)

LEMMA SameKeeps ==
  ASSUME NEW y \in Executions, ExecutionOK(y), Same(y)
  PROVE  ExecutionOK(y)'
  <1>1. Blocked(y)' = Blocked(y) /\ Required(y)' = Required(y)
    BY DEF Same, Blocked, Required
  <1>2. Cleared(y)' = Cleared(y) /\ Cooperative(y)' = Cooperative(y)
    BY DEF Same, Cleared, Cooperative
  <1>3. FreshUntilRouted(y)' /\ UnreviewedUntilGate(y)' /\ OwnedPath(y)'
    BY <1>1 DEF Same, ExecutionOK, FreshUntilRouted, UnreviewedUntilGate, OwnedPath
  <1>4. BlockedPath(y)'
    BY <1>1 DEF Same, ExecutionOK, BlockedPath
  <1>5. AuditPath(y)'
    BY <1>1 DEF Same, ExecutionOK, AuditPath
  <1>6. ReviewPath(y)' /\ OperationsPath(y)'
    BY <1>1, <1>2 DEF Same, ExecutionOK, ReviewPath, OperationsPath
  <1> QED
    BY <1>3, <1>4, <1>5, <1>6 DEF ExecutionOK

LEMMA OthersAreTheSame ==
  ASSUME APITypeOK, NEW x \in Executions, NEW y \in Executions, y # x, Step(x)
  PROVE  Same(y)
  <1>1. CASE Admit(x)
    BY <1>1 DEF Admit, APITypeOK, Same, Goto, EventsOf, Answered
  <1>2. CASE Screen(x)
    BY <1>2 DEF Screen, APITypeOK, Same, Goto, EventsOf, Decides
  <1>3. CASE Classify(x)
    BY <1>3 DEF Classify, APITypeOK, Same, Goto, EventsOf, Decides
  <1>4. CASE GraphFails(x)
    BY <1>4 DEF GraphFails, APITypeOK, Same, Goto, EventsOf
  <1>5. CASE Knowledge(x)
    BY <1>5, ReturnsFields DEF Knowledge, APITypeOK, Same, Goto, EventsOf
  <1>6. CASE CustomerSupport(x)
    BY <1>6, ReturnsFields DEF CustomerSupport, APITypeOK, Same, Goto, EventsOf
  <1>7. CASE CooperativeSynthesis(x)
    BY <1>7 DEF CooperativeSynthesis, APITypeOK, Same, Goto, EventsOf
  <1>8. CASE WebKnowledge(x)
    BY <1>8, ReturnsFields DEF WebKnowledge, APITypeOK, Same, Goto, EventsOf
  <1>9. CASE DirectGeneral(x)
    BY <1>9, ReturnsFields DEF DirectGeneral, APITypeOK, Same, Goto, EventsOf
  <1>10. CASE Conversational(x)
    BY <1>10, ReturnsFields DEF Conversational, APITypeOK, Same, Goto, EventsOf
  <1>11. CASE AmbiguousTerminal(x)
    BY <1>11, ReturnsFields DEF AmbiguousTerminal, APITypeOK, Same, Goto, EventsOf
  <1>12. CASE EscalateToHuman(x)
    BY <1>12, ReturnsFields DEF EscalateToHuman, APITypeOK, Same, Goto, EventsOf
  <1>13. CASE SecurityTerminal(x)
    BY <1>13 DEF SecurityTerminal, APITypeOK, Same, Goto, EventsOf
  <1>14. CASE Assembly(x)
    BY <1>14 DEF Assembly, APITypeOK, Same, Goto, EventsOf
  <1>15. CASE Respond(x)
    BY <1>15 DEF Respond, APITypeOK, Same, Goto, EventsOf
  <1>16. CASE Gate(x)
    BY <1>16 DEF Gate, APITypeOK, Same, Goto, EventsOf, Answered, AfterReview
  <1>17. CASE InsertEvent(x)
    BY <1>17 DEF InsertEvent, APITypeOK, Same, Goto, EventsOf
  <1>18. CASE CommitEvents(x)
    BY <1>18 DEF CommitEvents, APITypeOK, Same, Goto, EventsOf, AfterAudit, Answered
  <1>19. CASE RecordingFails(x)
    BY <1>19 DEF RecordingFails, APITypeOK, Same, Goto, EventsOf, AfterAudit, Answered
  <1> QED
    BY <1>1, <1>2, <1>3, <1>4, <1>5, <1>6, <1>7, <1>8, <1>9, <1>10, <1>11, <1>12, <1>13,
      <1>14, <1>15, <1>16, <1>17, <1>18, <1>19
    DEF Step

-----------------------------------------------------------------------------
(* Each action keeps what is known of its execution.                       *)

LEMMA AdmitKeeps ==
  ASSUME APITypeOK, NEW x \in Executions, ExecutionOK(x), Admit(x)
  PROVE  ExecutionOK(x)'
  <1>1. FreshUntilRouted(x)'
    BY DEF Admit, APITypeOK, At, Goto, ExecutionOK, FreshUntilRouted, Unrouted
  <1>2. UnreviewedUntilGate(x)'
    BY DEF Admit, APITypeOK, At, Goto, ExecutionOK, UnreviewedUntilGate, Over, Answered
  <1>3. BlockedPath(x)'
    BY DEF Admit, APITypeOK, At, Goto, ExecutionOK, BlockedPath, Blocked, Over, Answered
  <1>4. AuditPath(x)'
    BY DEF Admit, APITypeOK, At, Goto, ExecutionOK, AuditPath, Blocked, Required,
      EventsOf, Over, Answered, AdmissionCode
  <1>5. ReviewPath(x)'
    BY DEF Admit, APITypeOK, Goto, ExecutionOK, ReviewPath, Cleared, Answered,
      AdmissionCode
  <1>6. OperationsPath(x)'
    BY DEF Admit, APITypeOK, Goto, ExecutionOK, OperationsPath, Over, Answered,
      AdmissionCode
  <1>7. OwnedPath(x)'
    BY DEF Admit, APITypeOK, At, Goto, ExecutionOK, OwnedPath, Answered
  <1> QED
    BY <1>1, <1>2, <1>3, <1>4, <1>5, <1>6, <1>7 DEF ExecutionOK

LEMMA ScreenKeeps ==
  ASSUME APITypeOK, NEW x \in Executions, ExecutionOK(x), Screen(x)
  PROVE  ExecutionOK(x)'
  <1>0. /\ \A found \in SUBSET EventTypes : Decided("SECURITY_BLOCK", found) \in Decisions
        /\ \A found : Decided("SECURITY_BLOCK", found).route = "SECURITY_BLOCK"
        /\ ask[x].protected \in SUBSET EventTypes
    <2>1. "SECURITY_BLOCK" \in Routes
      BY DEF Routes, NodeOf
    <2>2. ask[x] \in Asks
      BY DEF APITypeOK
    <2> QED
      BY <2>1, <2>2, DecidedType, AsksAssumption DEF Decided
  <1>1. FreshUntilRouted(x)'
    BY <1>0, ScreenedType, ScreenedRoutes, DecidesFields
    DEF Screen, APITypeOK, At, Goto, ExecutionOK, FreshUntilRouted, Unrouted, Nodes
  <1>2. UnreviewedUntilGate(x)'
    BY DEF Screen, APITypeOK, At, Goto, ExecutionOK, UnreviewedUntilGate, Over
  <1>3. BlockedPath(x)'
    BY <1>0, ScreenedType, ScreenedRoutes, DecidesFields
    DEF Screen, APITypeOK, At, Goto, ExecutionOK, FreshUntilRouted, Unrouted,
      UnreviewedUntilGate, BlockedPath, Blocked, Over, Empty
  <1>4. AuditPath(x)'
    BY DEF Screen, APITypeOK, At, Goto, ExecutionOK, UnreviewedUntilGate, AuditPath,
      EventsOf, Over, BlockedPath
  <1>5. ReviewPath(x)'
    BY <1>0, ScreenedType, ScreenedRoutes, DecidesFields
    DEF Screen, APITypeOK, Goto, ExecutionOK, Nodes, ReviewPath, Cleared
  <1>6. OperationsPath(x)'
    BY <1>0, ScreenedType, ScreenedRoutes, DecidesFields
    DEF Screen, APITypeOK, At, Goto, ExecutionOK, FreshUntilRouted, Unrouted,
      OperationsPath, Over, NoResults
  <1>7. OwnedPath(x)'
    BY DEF Screen, APITypeOK, At, Goto, ExecutionOK, OwnedPath, HumanFirst, Decides,
      AfterRouter, NodeOf
  <1> QED
    BY <1>1, <1>2, <1>3, <1>4, <1>5, <1>6, <1>7 DEF ExecutionOK

LEMMA ClassifyKeeps ==
  ASSUME APITypeOK, NEW x \in Executions, ExecutionOK(x), Classify(x)
  PROVE  ExecutionOK(x)'
  <1>0. /\ Undecided \in Decisions /\ Decided("CUSTOMER_SUPPORT", {}) \in Decisions
        /\ Undecided.route # "SECURITY_BLOCK"
        /\ Decided("CUSTOMER_SUPPORT", {}).route # "SECURITY_BLOCK"
    BY DecidedType DEF Undecided, Decided, Routes, NodeOf
  <1>1. FreshUntilRouted(x)'
    BY <1>0, MappedType, MappedRoutes, DecidesFields
    DEF Classify, APITypeOK, Goto, FreshUntilRouted, Unrouted, Nodes
  <1>2. UnreviewedUntilGate(x)'
    BY DEF Classify, APITypeOK, At, Goto, ExecutionOK, UnreviewedUntilGate, Over
  <1>3. BlockedPath(x)'
    BY <1>0, MappedType, MappedRoutes, DecidesFields
    DEF Classify, APITypeOK, At, Goto, ExecutionOK, BlockedPath, Blocked, Over
  <1>4. AuditPath(x)'
    BY DEF Classify, APITypeOK, At, Goto, ExecutionOK, AuditPath, Blocked, Required,
      EventsOf, Over, BlockedPath, Decides, Mapped, FollowUp, Decided, Undecided
  <1>5. ReviewPath(x)'
    BY <1>0, MappedType, MappedRoutes, DecidesFields
    DEF Classify, APITypeOK, Goto, ExecutionOK, Nodes, ReviewPath, Cleared
  <1>6. OperationsPath(x)'
    BY <1>0, MappedType, MappedRoutes, DecidesFields
    DEF Classify, APITypeOK, At, Goto, ExecutionOK, FreshUntilRouted, Unrouted,
      OperationsPath, Over, NoResults
  <1>7. OwnedPath(x)'
    BY DEF Classify, APITypeOK, At, Goto, ExecutionOK, OwnedPath, HumanFirst, Decides,
      AfterRouter, NodeOf
  <1> QED
    BY <1>1, <1>2, <1>3, <1>4, <1>5, <1>6, <1>7 DEF ExecutionOK

LEMMA GraphFailsKeeps ==
  ASSUME APITypeOK, NEW x \in Executions, ExecutionOK(x), GraphFails(x)
  PROVE  ExecutionOK(x)'
  <1>1. FreshUntilRouted(x)'
    BY DEF GraphFails, APITypeOK, Goto, FreshUntilRouted, Unrouted
  <1>2. UnreviewedUntilGate(x)'
    BY DEF GraphFails, APITypeOK, At, Goto, ExecutionOK, UnreviewedUntilGate, Over
  <1>3. BlockedPath(x)'
    BY DEF GraphFails, APITypeOK, At, Goto, ExecutionOK, BlockedPath, Blocked, Over
  <1>4. AuditPath(x)'
    BY DEF GraphFails, APITypeOK, At, Goto, ExecutionOK, AuditPath, Required, EventsOf,
      Over
  <1>5. ReviewPath(x)'
    BY DEF GraphFails, APITypeOK, Goto, ExecutionOK, ReviewPath, Cleared
  <1>6. OperationsPath(x)'
    BY DEF GraphFails, APITypeOK, At, Goto, ExecutionOK, OperationsPath, Over
  <1>7. OwnedPath(x)'
    BY DEF GraphFails, APITypeOK, At, Goto, ExecutionOK, OwnedPath
  <1> QED
    BY <1>1, <1>2, <1>3, <1>4, <1>5, <1>6, <1>7 DEF ExecutionOK

LEMMA KnowledgeKeeps ==
  ASSUME APITypeOK, NEW x \in Executions, ExecutionOK(x), Knowledge(x)
  PROVE  ExecutionOK(x)'
  <1>1. FreshUntilRouted(x)'
    BY ReturnsFields
    DEF Knowledge, APITypeOK, Goto, FreshUntilRouted, Unrouted, AfterKnowledge
  <1>2. UnreviewedUntilGate(x)'
    BY ReturnsFields
    DEF Knowledge, APITypeOK, At, Goto, ExecutionOK, UnreviewedUntilGate, Over
  <1>3. BlockedPath(x)'
    BY ReturnsFields
    DEF Knowledge, APITypeOK, At, Goto, ExecutionOK, BlockedPath, Blocked, Over,
      AfterKnowledge
  <1>4. AuditPath(x)'
    BY ReturnsFields
    DEF Knowledge, APITypeOK, At, Goto, ExecutionOK, AuditPath, Blocked, Required,
      EventsOf, Over
  <1>5. ReviewPath(x)'
    BY ReturnsFields
    DEF Knowledge, APITypeOK, Goto, ExecutionOK, ReviewPath, Cleared, AfterKnowledge
  <1>6. OperationsPath(x)'
    BY ReturnsFields
    DEF Knowledge, APITypeOK, At, Goto, ExecutionOK, OperationsPath, Over,
      AfterKnowledge
  <1>7. OwnedPath(x)'
    BY ReturnsFields DEF Knowledge, APITypeOK, At, Goto, ExecutionOK, OwnedPath
  <1> QED
    BY <1>1, <1>2, <1>3, <1>4, <1>5, <1>6, <1>7 DEF ExecutionOK

LEMMA CustomerSupportKeeps ==
  ASSUME APITypeOK, NEW x \in Executions, ExecutionOK(x), CustomerSupport(x)
  PROVE  ExecutionOK(x)'
  <1>1. FreshUntilRouted(x)'
    BY ReturnsFields
    DEF CustomerSupport, APITypeOK, Goto, FreshUntilRouted, Unrouted,
      AfterCustomerSupport
  <1>2. UnreviewedUntilGate(x)'
    BY ReturnsFields
    DEF CustomerSupport, APITypeOK, At, Goto, ExecutionOK, UnreviewedUntilGate, Over
  <1>3. BlockedPath(x)'
    BY ReturnsFields
    DEF CustomerSupport, APITypeOK, At, Goto, ExecutionOK, BlockedPath, Blocked, Over,
      AfterCustomerSupport
  <1>4. AuditPath(x)'
    BY ReturnsFields
    DEF CustomerSupport, APITypeOK, At, Goto, ExecutionOK, AuditPath, Blocked, Required,
      EventsOf, Over
  <1>5. ReviewPath(x)'
    BY ReturnsFields
    DEF CustomerSupport, APITypeOK, Goto, ExecutionOK, ReviewPath, Cleared,
      AfterCustomerSupport
  <1>6. OperationsPath(x)'
    BY ReturnsFields
    DEF CustomerSupport, APITypeOK, At, Goto, ExecutionOK, OperationsPath, Cooperative,
      Over, SupportStatuses, AfterCustomerSupport
  <1>7. OwnedPath(x)'
    BY ReturnsFields DEF CustomerSupport, APITypeOK, At, Goto, ExecutionOK, OwnedPath
  <1> QED
    BY <1>1, <1>2, <1>3, <1>4, <1>5, <1>6, <1>7 DEF ExecutionOK

LEMMA CooperativeSynthesisKeeps ==
  ASSUME APITypeOK, NEW x \in Executions, ExecutionOK(x), CooperativeSynthesis(x)
  PROVE  ExecutionOK(x)'
  <1>1. FreshUntilRouted(x)'
    BY DEF CooperativeSynthesis, APITypeOK, Goto, FreshUntilRouted, Unrouted
  <1>2. UnreviewedUntilGate(x)'
    BY DEF CooperativeSynthesis, APITypeOK, At, Goto, ExecutionOK, UnreviewedUntilGate,
      Over
  <1>3. BlockedPath(x)'
    BY DEF CooperativeSynthesis, APITypeOK, At, Goto, ExecutionOK, BlockedPath, Blocked,
      Over
  <1>4. AuditPath(x)'
    BY DEF CooperativeSynthesis, APITypeOK, At, Goto, ExecutionOK, AuditPath, Blocked,
      Required, EventsOf, Over
  <1>5. ReviewPath(x)'
    BY DEF CooperativeSynthesis, APITypeOK, Goto, ExecutionOK, ReviewPath, Cleared
  <1>6. OperationsPath(x)'
    BY DEF CooperativeSynthesis, APITypeOK, At, Goto, ExecutionOK, OperationsPath, Over
  <1>7. OwnedPath(x)'
    BY DEF CooperativeSynthesis, APITypeOK, At, Goto, ExecutionOK, OwnedPath
  <1> QED
    BY <1>1, <1>2, <1>3, <1>4, <1>5, <1>6, <1>7 DEF ExecutionOK

LEMMA WebKnowledgeKeeps ==
  ASSUME APITypeOK, NEW x \in Executions, ExecutionOK(x), WebKnowledge(x)
  PROVE  ExecutionOK(x)'
  <1>1. FreshUntilRouted(x)'
    BY ReturnsFields DEF WebKnowledge, APITypeOK, Goto, FreshUntilRouted, Unrouted
  <1>2. UnreviewedUntilGate(x)'
    BY ReturnsFields
    DEF WebKnowledge, APITypeOK, At, Goto, ExecutionOK, UnreviewedUntilGate, Over
  <1>3. BlockedPath(x)'
    BY ReturnsFields
    DEF WebKnowledge, APITypeOK, At, Goto, ExecutionOK, BlockedPath, Blocked, Over
  <1>4. AuditPath(x)'
    BY ReturnsFields
    DEF WebKnowledge, APITypeOK, At, Goto, ExecutionOK, AuditPath, Blocked, Required,
      EventsOf, Over
  <1>5. ReviewPath(x)'
    BY ReturnsFields DEF WebKnowledge, APITypeOK, Goto, ExecutionOK, ReviewPath, Cleared
  <1>6. OperationsPath(x)'
    BY ReturnsFields
    DEF WebKnowledge, APITypeOK, At, Goto, ExecutionOK, OperationsPath, Over, Nothing,
      SupportStatuses
  <1>7. OwnedPath(x)'
    BY ReturnsFields DEF WebKnowledge, APITypeOK, At, Goto, ExecutionOK, OwnedPath
  <1> QED
    BY <1>1, <1>2, <1>3, <1>4, <1>5, <1>6, <1>7 DEF ExecutionOK

LEMMA DirectGeneralKeeps ==
  ASSUME APITypeOK, NEW x \in Executions, ExecutionOK(x), DirectGeneral(x)
  PROVE  ExecutionOK(x)'
  <1>1. FreshUntilRouted(x)'
    BY ReturnsFields DEF DirectGeneral, APITypeOK, Goto, FreshUntilRouted, Unrouted
  <1>2. UnreviewedUntilGate(x)'
    BY ReturnsFields
    DEF DirectGeneral, APITypeOK, At, Goto, ExecutionOK, UnreviewedUntilGate, Over
  <1>3. BlockedPath(x)'
    BY ReturnsFields
    DEF DirectGeneral, APITypeOK, At, Goto, ExecutionOK, BlockedPath, Blocked, Over
  <1>4. AuditPath(x)'
    BY ReturnsFields
    DEF DirectGeneral, APITypeOK, At, Goto, ExecutionOK, AuditPath, Blocked, Required,
      EventsOf, Over
  <1>5. ReviewPath(x)'
    BY ReturnsFields
    DEF DirectGeneral, APITypeOK, Goto, ExecutionOK, ReviewPath, Cleared
  <1>6. OperationsPath(x)'
    BY ReturnsFields
    DEF DirectGeneral, APITypeOK, At, Goto, ExecutionOK, OperationsPath, Over, Nothing,
      SupportStatuses
  <1>7. OwnedPath(x)'
    BY ReturnsFields DEF DirectGeneral, APITypeOK, At, Goto, ExecutionOK, OwnedPath
  <1> QED
    BY <1>1, <1>2, <1>3, <1>4, <1>5, <1>6, <1>7 DEF ExecutionOK

LEMMA ConversationalKeeps ==
  ASSUME APITypeOK, NEW x \in Executions, ExecutionOK(x), Conversational(x)
  PROVE  ExecutionOK(x)'
  <1>1. FreshUntilRouted(x)'
    BY ReturnsFields DEF Conversational, APITypeOK, Goto, FreshUntilRouted, Unrouted
  <1>2. UnreviewedUntilGate(x)'
    BY ReturnsFields
    DEF Conversational, APITypeOK, At, Goto, ExecutionOK, UnreviewedUntilGate, Over
  <1>3. BlockedPath(x)'
    BY ReturnsFields
    DEF Conversational, APITypeOK, At, Goto, ExecutionOK, BlockedPath, Blocked, Over
  <1>4. AuditPath(x)'
    BY ReturnsFields
    DEF Conversational, APITypeOK, At, Goto, ExecutionOK, AuditPath, Blocked, Required,
      EventsOf, Over
  <1>5. ReviewPath(x)'
    BY ReturnsFields
    DEF Conversational, APITypeOK, Goto, ExecutionOK, ReviewPath, Cleared
  <1>6. OperationsPath(x)'
    BY ReturnsFields
    DEF Conversational, APITypeOK, At, Goto, ExecutionOK, OperationsPath, Over
  <1>7. OwnedPath(x)'
    BY ReturnsFields DEF Conversational, APITypeOK, At, Goto, ExecutionOK, OwnedPath
  <1> QED
    BY <1>1, <1>2, <1>3, <1>4, <1>5, <1>6, <1>7 DEF ExecutionOK

LEMMA AmbiguousTerminalKeeps ==
  ASSUME APITypeOK, NEW x \in Executions, ExecutionOK(x), AmbiguousTerminal(x)
  PROVE  ExecutionOK(x)'
  <1>1. FreshUntilRouted(x)'
    BY ReturnsFields DEF AmbiguousTerminal, APITypeOK, Goto, FreshUntilRouted, Unrouted
  <1>2. UnreviewedUntilGate(x)'
    BY ReturnsFields
    DEF AmbiguousTerminal, APITypeOK, At, Goto, ExecutionOK, UnreviewedUntilGate, Over
  <1>3. BlockedPath(x)'
    BY ReturnsFields
    DEF AmbiguousTerminal, APITypeOK, At, Goto, ExecutionOK, BlockedPath, Blocked, Over
  <1>4. AuditPath(x)'
    BY ReturnsFields
    DEF AmbiguousTerminal, APITypeOK, At, Goto, ExecutionOK, AuditPath, Required,
      EventsOf, Over
  <1>5. ReviewPath(x)'
    BY ReturnsFields
    DEF AmbiguousTerminal, APITypeOK, Goto, ExecutionOK, ReviewPath, Cleared
  <1>6. OperationsPath(x)'
    BY ReturnsFields
    DEF AmbiguousTerminal, APITypeOK, At, Goto, ExecutionOK, OperationsPath, Over
  <1>7. OwnedPath(x)'
    BY ReturnsFields DEF AmbiguousTerminal, APITypeOK, At, Goto, ExecutionOK, OwnedPath
  <1> QED
    BY <1>1, <1>2, <1>3, <1>4, <1>5, <1>6, <1>7 DEF ExecutionOK

LEMMA EscalateToHumanKeeps ==
  ASSUME APITypeOK, NEW x \in Executions, ExecutionOK(x), EscalateToHuman(x)
  PROVE  ExecutionOK(x)'
  <1>1. FreshUntilRouted(x)'
    BY ReturnsFields DEF EscalateToHuman, APITypeOK, Goto, FreshUntilRouted, Unrouted
  <1>2. UnreviewedUntilGate(x)'
    BY ReturnsFields
    DEF EscalateToHuman, APITypeOK, At, Goto, ExecutionOK, UnreviewedUntilGate, Over
  <1>3. BlockedPath(x)'
    BY ReturnsFields
    DEF EscalateToHuman, APITypeOK, At, Goto, ExecutionOK, BlockedPath, Blocked, Over
  <1>4. AuditPath(x)'
    BY ReturnsFields
    DEF EscalateToHuman, APITypeOK, At, Goto, ExecutionOK, AuditPath, Blocked, Required,
      EventsOf, Over
  <1>5. ReviewPath(x)'
    BY ReturnsFields
    DEF EscalateToHuman, APITypeOK, Goto, ExecutionOK, ReviewPath, Cleared
  <1>6. OperationsPath(x)'
    BY ReturnsFields
    DEF EscalateToHuman, APITypeOK, At, Goto, ExecutionOK, OperationsPath, Over
  <1>7. OwnedPath(x)'
    <2>1. /\ stage'[x] = "assembly" /\ ask'[x] = ask[x]
          /\ result'[x] = [result[x] EXCEPT !.human = Transition(ask[x].role, HumanRequest(x)).status]
      <3>1. Returns(x, "human", Transition(ask[x].role, HumanRequest(x)).status)
        BY Zenon DEF EscalateToHuman
      <3>2. stage'[x] = "assembly" /\ ask'[x] = ask[x]
        BY DEF EscalateToHuman, Goto, APITypeOK
      <3> QED
        BY <3>1, <3>2, ReturnsHuman DEF APITypeOK
    <2>2. ASSUME NEW h \in ask[x].human, h.state = "HUMAN"
          PROVE  /\ result'[x] = [NoResults EXCEPT !.human = result'[x].human]
                 /\ result'[x].human = "TRANSITIONED" => h.owner = "self"
      <3>1. result[x] = [NoResults EXCEPT !.human = result[x].human]
        BY <2>2 DEF EscalateToHuman, At, ExecutionOK, OwnedPath
      <3>2. result[x] \in Results
        BY DEF APITypeOK
      <3>3. result'[x].human = Transition(ask[x].role, HumanRequest(x)).status
        BY <2>1, <3>2 DEF Results
      <3>4. result'[x].human = "TRANSITIONED" => h.owner = "self"
        BY <2>2, <3>3, OwnedTransition
      <3>5. result'[x] = [NoResults EXCEPT !.human = result'[x].human]
        BY <2>1, <3>1, <3>2, <3>3 DEF Results, NoResults
      <3> QED
        BY <3>4, <3>5
    <2> QED
      BY <2>1, <2>2 DEF OwnedPath
  <1> QED
    BY <1>1, <1>2, <1>3, <1>4, <1>5, <1>6, <1>7 DEF ExecutionOK

LEMMA SecurityTerminalKeeps ==
  ASSUME APITypeOK, NEW x \in Executions, ExecutionOK(x), SecurityTerminal(x)
  PROVE  ExecutionOK(x)'
  <1>1. FreshUntilRouted(x)'
    BY DEF SecurityTerminal, APITypeOK, Goto, FreshUntilRouted, Unrouted
  <1>2. UnreviewedUntilGate(x)'
    BY DEF SecurityTerminal, APITypeOK, At, Goto, ExecutionOK, UnreviewedUntilGate, Over
  <1>3. BlockedPath(x)'
    BY DEF SecurityTerminal, APITypeOK, At, Goto, ExecutionOK, BlockedPath, Blocked,
      Nothing
  <1>4. AuditPath(x)'
    BY DEF SecurityTerminal, APITypeOK, At, Goto, ExecutionOK, AuditPath, Blocked,
      Required, EventsOf, Over
  <1>5. ReviewPath(x)'
    BY DEF SecurityTerminal, APITypeOK, At, Goto, ExecutionOK, ReviewPath, Blocked,
      Cleared, BlockedPath
  <1>6. OperationsPath(x)'
    BY DEF SecurityTerminal, APITypeOK, At, Goto, ExecutionOK, OperationsPath, Over
  <1>7. OwnedPath(x)'
    BY DEF SecurityTerminal, APITypeOK, At, Goto, ExecutionOK, OwnedPath
  <1> QED
    BY <1>1, <1>2, <1>3, <1>4, <1>5, <1>6, <1>7 DEF ExecutionOK

LEMMA AssemblyKeeps ==
  ASSUME APITypeOK, NEW x \in Executions, ExecutionOK(x), Assembly(x)
  PROVE  ExecutionOK(x)'
  <1>1. FreshUntilRouted(x)'
    BY DEF Assembly, APITypeOK, Goto, FreshUntilRouted, Unrouted
  <1>2. UnreviewedUntilGate(x)'
    BY DEF Assembly, APITypeOK, At, Goto, ExecutionOK, UnreviewedUntilGate, Over
  <1>3. BlockedPath(x)'
    BY DEF Assembly, APITypeOK, At, Goto, ExecutionOK, BlockedPath, Blocked, Over,
      Settled
  <1>4. AuditPath(x)'
    BY DEF Assembly, APITypeOK, At, Goto, ExecutionOK, AuditPath, Blocked, Required,
      EventsOf, Over, Settled
  <1>5. ReviewPath(x)'
    BY DEF Assembly, APITypeOK, Goto, ExecutionOK, ReviewPath, Cleared
  <1>6. OperationsPath(x)'
    BY DEF Assembly, APITypeOK, At, Goto, ExecutionOK, OperationsPath, Over
  <1>7. OwnedPath(x)'
    BY DEF Assembly, APITypeOK, At, Goto, ExecutionOK, OwnedPath
  <1> QED
    BY <1>1, <1>2, <1>3, <1>4, <1>5, <1>6, <1>7 DEF ExecutionOK

LEMMA RespondKeeps ==
  ASSUME APITypeOK, NEW x \in Executions, ExecutionOK(x), Respond(x)
  PROVE  ExecutionOK(x)'
  <1>1. FreshUntilRouted(x)'
    BY DEF Respond, APITypeOK, Goto, FreshUntilRouted, Unrouted
  <1>2. UnreviewedUntilGate(x)'
    BY DEF Respond, APITypeOK, At, Goto, ExecutionOK, UnreviewedUntilGate, Over
  <1>3. BlockedPath(x)'
    BY BlockedCandidates
    DEF Respond, APITypeOK, At, Goto, ExecutionOK, BlockedPath, Blocked, Over
  <1>4. AuditPath(x)'
    BY DEF Respond, APITypeOK, At, Goto, ExecutionOK, AuditPath, Blocked, Required,
      EventsOf, Over
  <1>5. ReviewPath(x)'
    BY DEF Respond, APITypeOK, At, Goto, ExecutionOK, UnreviewedUntilGate, ReviewPath
  <1>6. OperationsPath(x)'
    BY DEF Respond, APITypeOK, At, Goto, ExecutionOK, OperationsPath, Over
  <1>7. OwnedPath(x)'
    BY DEF Respond, APITypeOK, At, Goto, ExecutionOK, OwnedPath
  <1> QED
    BY <1>1, <1>2, <1>3, <1>4, <1>5, <1>6, <1>7 DEF ExecutionOK

\* What the gate leaves of a response.
LEMMA GateCases ==
  ASSUME APITypeOK, NEW x \in Executions, Gate(x)
  PROVE  /\ \/ /\ ~Discloses(carried[x])
               /\ carried'[x] = carried[x] /\ review'[x] = review[x]
               /\ Answered(x, FinalCode(x))
            \/ \E v \in Verdicts(carried[x]) :
                 /\ Discloses(carried[x])
                 /\ review'[x] = v /\ carried'[x] = AfterVerdict(carried[x], v)
                 /\ AfterReview(x, v)
         /\ stage[x] = "gate" /\ carried[x] \in Contents
         /\ UNCHANGED <<ask, decision, result, status, written, audit>>
  BY DEF Gate, At, APITypeOK

LEMMA AnsweredFields ==
  ASSUME APITypeOK, NEW x \in Executions, NEW code, Answered(x, code)
  PROVE  stage'[x] = "replied" /\ reply'[x] = code
  BY DEF APITypeOK, Answered, Goto

LEMMA AfterReviewFields ==
  ASSUME APITypeOK, NEW x \in Executions, NEW v, AfterReview(x, v), stage[x] = "gate",
         ExecutionOK(x)
  PROVE  \/ /\ v.action \in {"BLOCK", "REDACT"} /\ status[x] # "SECURITY_BLOCKED"
            /\ stage'[x] = "recording" /\ reply'[x] = 0
         \/ /\ v.action \in {"BLOCK", "REDACT"} /\ status[x] # "SECURITY_BLOCKED"
            /\ stage'[x] = "replied" /\ reply'[x] = 503
         \/ /\ v.action \notin {"BLOCK", "REDACT"} \/ status[x] = "SECURITY_BLOCKED"
            /\ stage'[x] = "replied" /\ reply'[x] = FinalCode(x)
  <1>1. reply[x] = 0
    BY DEF ExecutionOK, UnreviewedUntilGate
  <1> QED
    BY <1>1, AnsweredFields DEF AfterReview, APITypeOK, Goto

LEMMA GateKeeps ==
  ASSUME APITypeOK, NEW x \in Executions, ExecutionOK(x), Gate(x)
  PROVE  ExecutionOK(x)'
  <1>1. /\ stage[x] = "gate" /\ carried[x] \in Contents
        /\ stage'[x] \in {"recording", "replied"}
        /\ stage'[x] = "recording" =>
             reply'[x] = 0 /\ status[x] # "SECURITY_BLOCKED" /\ Discloses(carried[x])
        /\ ask'[x] = ask[x] /\ decision'[x] = decision[x] /\ result'[x] = result[x]
        /\ status'[x] = status[x] /\ written'[x] = written[x]
        /\ EventsOf(x)' = EventsOf(x) /\ written[x] = {}
    BY GateCases, AnsweredFields, AfterReviewFields DEF ExecutionOK, AuditPath, EventsOf
  <1>2. (Blocked(x) /\ stage'[x] = "recording") => FALSE
    BY <1>1 DEF ExecutionOK, BlockedPath, Blocked, Discloses
  <1>3. FreshUntilRouted(x)' /\ UnreviewedUntilGate(x)' /\ OperationsPath(x)' /\ OwnedPath(x)'
    BY <1>1, <1>2 DEF FreshUntilRouted, Unrouted, Over, UnreviewedUntilGate, Blocked,
      OperationsPath, OwnedPath, Cooperative, ExecutionOK
  <1>4. BlockedPath(x)'
    <2>1. Blocked(x) => carried'[x].answer \in {Nothing, "refusal"} /\ carried'[x].data = {}
      <3>1. Blocked(x) => carried[x].answer \in {Nothing, "refusal"} /\ carried[x].data = {}
        BY DEF ExecutionOK, BlockedPath
      <3>2. \/ carried'[x] = carried[x]
            \/ \E v : carried'[x] = AfterVerdict(carried[x], v)
        BY GateCases
      <3> QED
        <4>1. CASE carried'[x] = carried[x]
          BY <3>1, <4>1
        <4>2. CASE \E v : carried'[x] = AfterVerdict(carried[x], v)
          <5>1. PICK v : carried'[x] = AfterVerdict(carried[x], v)
            BY <4>2
          <5>2. CASE v.action = "BLOCK"
            BY <1>1, <5>1, <5>2, AfterVerdictCases DEF Refusal
          <5>3. CASE v.action # "BLOCK"
            BY <1>1, <3>1, <5>1, <5>3, AfterVerdictCases
          <5> QED
            BY <5>2, <5>3
        <4> QED
          BY <3>2, <4>1, <4>2
    <2>2. ~Discloses(carried[x]) => carried'[x] = carried[x]
      BY GateCases
    <2> QED
      BY <1>1, <1>2, <2>1, <2>2 DEF ExecutionOK, BlockedPath, Blocked, Over
  <1>5. AuditPath(x)'
    <2>1. CASE Blocked(x)
      <3>1. Required(x)' = Required(x)
        BY <1>1, <2>1 DEF Required, Blocked
      <3>2. status[x] \in {"SECURITY_BLOCKED", "SECURITY_AUDIT_UNAVAILABLE"}
        BY <1>1, <2>1 DEF ExecutionOK, BlockedPath, Nothing
      <3>3. reply'[x] = 200 => EventsOf(x) = Required(x)
        BY <1>1, <2>1, <3>2, GateCases, AnsweredFields, AfterReviewFields
        DEF ExecutionOK, AuditPath, FinalCode, Unavailable
      <3> QED
        BY <1>1, <1>2, <2>1, <3>1, <3>2, <3>3 DEF ExecutionOK, AuditPath, Blocked, Over
    <2>2. CASE ~Blocked(x)
      <3>1. EventsOf(x) = {} /\ status[x] # "SECURITY_BLOCKED"
        BY <1>1, <2>2 DEF ExecutionOK, AuditPath, BlockedPath, Over
      <3>2. Required(x)' = {review'[x].category} \cap EventTypes
        BY <1>1, <2>2 DEF Required, Blocked
      <3>3. reply'[x] = 200 => review'[x].category = Nothing
        BY <1>1, <3>1, GateCases, AnsweredFields, AfterReviewFields, VerdictCases
        DEF ExecutionOK, UnreviewedUntilGate, NoReview, Over
      <3>4. reply'[x] = 200 => Required(x)' = {}
        BY <3>2, <3>3, EventTypesAssumption
      <3> QED
        BY <1>1, <2>2, <3>1, <3>4 DEF ExecutionOK, AuditPath, Blocked, Over
    <2> QED
      BY <2>1, <2>2
  <1>6. ReviewPath(x)'
    <2>1. CASE ~Discloses(carried[x])
      BY <1>1, <2>1, GateCases DEF ReviewPath, Discloses
    <2>2. CASE Discloses(carried[x])
      <3>1. PICK v \in Verdicts(carried[x]) :
              review'[x] = v /\ carried'[x] = AfterVerdict(carried[x], v)
        BY <2>2, GateCases
      <3>2. CASE v.action = "BLOCK"
        BY <1>1, <3>1, <3>2, AfterVerdictCases DEF ReviewPath, Cleared
      <3>3. CASE v.action \in {"ALLOW", "REDACT"}
        BY <1>1, <3>1, <3>3, AfterVerdictCases DEF ReviewPath, Cleared
      <3> QED
        BY <3>2, <3>3, VerdictCases
    <2> QED
      BY <2>1, <2>2
  <1> QED
    BY <1>3, <1>4, <1>5, <1>6 DEF ExecutionOK

LEMMA InsertEventKeeps ==
  ASSUME APITypeOK, NEW x \in Executions, ExecutionOK(x), InsertEvent(x)
  PROVE  ExecutionOK(x)'
  <1>1. FreshUntilRouted(x)'
    BY DEF InsertEvent, APITypeOK, Goto, ExecutionOK, FreshUntilRouted
  <1>2. UnreviewedUntilGate(x)'
    BY DEF InsertEvent, APITypeOK, Goto, ExecutionOK, UnreviewedUntilGate, Blocked
  <1>3. BlockedPath(x)'
    BY DEF InsertEvent, APITypeOK, Goto, ExecutionOK, BlockedPath, Blocked
  <1>4. AuditPath(x)'
    BY DEF InsertEvent, APITypeOK, At, Goto, ExecutionOK, AuditPath, Blocked, Required,
      EventsOf
  <1>5. ReviewPath(x)'
    BY DEF InsertEvent, APITypeOK, Goto, ExecutionOK, ReviewPath, Blocked, Cleared
  <1>6. OperationsPath(x)'
    BY DEF InsertEvent, APITypeOK, Goto, ExecutionOK, OperationsPath, Cooperative
  <1>7. OwnedPath(x)'
    BY DEF InsertEvent, APITypeOK, Goto, ExecutionOK, OwnedPath
  <1> QED
    BY <1>1, <1>2, <1>3, <1>4, <1>5, <1>6, <1>7 DEF ExecutionOK

LEMMA CommitEventsKeeps ==
  ASSUME APITypeOK, NEW x \in Executions, ExecutionOK(x), CommitEvents(x)
  PROVE  ExecutionOK(x)'
  <1>1. FreshUntilRouted(x)'
    BY DEF CommitEvents, APITypeOK, Goto, FreshUntilRouted, Unrouted, AfterAudit,
      Answered
  <1>2. UnreviewedUntilGate(x)'
    BY DEF CommitEvents, APITypeOK, At, Goto, ExecutionOK, UnreviewedUntilGate, Blocked,
      Over, AfterAudit, Answered
  <1>3. BlockedPath(x)'
    BY DEF CommitEvents, APITypeOK, Goto, ExecutionOK, BlockedPath, Blocked, Over,
      Nothing, AfterAudit, Answered
  <1>4. AuditPath(x)'
    BY DEF CommitEvents, APITypeOK, Goto, ExecutionOK, AuditPath, Blocked, Required,
      EventsOf, Over, AfterAudit, Answered
  <1>5. ReviewPath(x)'
    BY DEF CommitEvents, APITypeOK, At, Goto, ExecutionOK, ReviewPath, Blocked, Cleared,
      AfterAudit
  <1>6. OperationsPath(x)'
    BY DEF CommitEvents, APITypeOK, At, Goto, ExecutionOK, OperationsPath, Over,
      AfterAudit, Answered
  <1>7. OwnedPath(x)'
    BY DEF CommitEvents, APITypeOK, At, Goto, ExecutionOK, OwnedPath, AfterAudit,
      Answered
  <1> QED
    BY <1>1, <1>2, <1>3, <1>4, <1>5, <1>6, <1>7 DEF ExecutionOK

LEMMA RecordingFailsKeeps ==
  ASSUME APITypeOK, NEW x \in Executions, ExecutionOK(x), RecordingFails(x)
  PROVE  ExecutionOK(x)'
  <1>1. FreshUntilRouted(x)'
    BY DEF RecordingFails, APITypeOK, Goto, FreshUntilRouted, Unrouted, AfterAudit,
      Answered
  <1>2. UnreviewedUntilGate(x)'
    BY DEF RecordingFails, APITypeOK, At, Goto, ExecutionOK, UnreviewedUntilGate,
      Blocked, Over, AfterAudit, Answered
  <1>3. BlockedPath(x)'
    BY DEF RecordingFails, APITypeOK, Goto, ExecutionOK, BlockedPath, Blocked, Over,
      Nothing, AfterAudit, Answered
  <1>4. AuditPath(x)'
    BY DEF RecordingFails, APITypeOK, Goto, ExecutionOK, AuditPath, Blocked, Required,
      EventsOf, Over, AfterAudit, Answered
  <1>5. ReviewPath(x)'
    BY DEF RecordingFails, APITypeOK, Goto, ExecutionOK, ReviewPath, Cleared,
      AfterAudit, Answered
  <1>6. OperationsPath(x)'
    BY DEF RecordingFails, APITypeOK, At, Goto, ExecutionOK, OperationsPath, Over,
      AfterAudit, Answered
  <1>7. OwnedPath(x)'
    BY DEF RecordingFails, APITypeOK, At, Goto, ExecutionOK, OwnedPath, AfterAudit,
      Answered
  <1> QED
    BY <1>1, <1>2, <1>3, <1>4, <1>5, <1>6, <1>7 DEF ExecutionOK

-----------------------------------------------------------------------------
(* The invariant of the API.                                               *)

LEMMA InitOK ==
  ASSUME APIInit
  PROVE  APIInv
  <1>1. (CHOOSE a \in Asks : TRUE) \in Asks
    BY AsksAssumption
  <1>2. Undecided \in Decisions
    BY DecidedType DEF Undecided, Routes, NodeOf
  <1>3. NoResults \in Results /\ NoReview \in Reviews /\ Empty \in Contents
    BY DEF NoResults, Results, NoReview, Reviews, Empty, Contents
  <1>4. APITypeOK
    BY <1>1, <1>2, <1>3 DEF APIInit, APITypeOK, Stages, Statuses
  <1>5. ASSUME NEW x \in Executions
        PROVE  ExecutionOK(x)
    <2>1. /\ stage[x] = "free" /\ decision[x] = Undecided /\ result[x] = NoResults
          /\ status[x] = Nothing /\ review[x] = NoReview /\ carried[x] = Empty
          /\ written[x] = {} /\ EventsOf(x) = {} /\ reply[x] = 0
      BY DEF APIInit, EventsOf
    <2>2. ~Blocked(x)
      BY <2>1 DEF Blocked, Undecided, Decided
    <2> QED
      BY <2>1, <2>2 DEF ExecutionOK, FreshUntilRouted, UnreviewedUntilGate, BlockedPath,
        AuditPath, ReviewPath, OperationsPath, OwnedPath, Over, Nothing, NoResults,
        SupportStatuses
  <1> QED
    BY <1>4, <1>5 DEF APIInv

LEMMA StepKeeps ==
  ASSUME APIInv, NEW x \in Executions, Step(x)
  PROVE  APIInv'
  <1>1. APITypeOK'
    BY StepTypeOK DEF APIInv
  <1>2. ExecutionOK(x)'
    BY AdmitKeeps, ScreenKeeps, ClassifyKeeps,
      GraphFailsKeeps, KnowledgeKeeps, CustomerSupportKeeps,
      CooperativeSynthesisKeeps, WebKnowledgeKeeps, DirectGeneralKeeps,
      ConversationalKeeps, AmbiguousTerminalKeeps, EscalateToHumanKeeps, SecurityTerminalKeeps,
      AssemblyKeeps, RespondKeeps, GateKeeps, InsertEventKeeps, CommitEventsKeeps, RecordingFailsKeeps
    DEF Step, APIInv
  <1>3. \A y \in Executions : y # x => ExecutionOK(y)'
    BY OthersAreTheSame, SameKeeps DEF APIInv
  <1> QED
    BY <1>1, <1>2, <1>3 DEF APIInv

LEMMA ArrivesKeeps ==
  ASSUME APIInv, NEW x \in Executions, NEW a \in Asks, Arrives(x, a)
  PROVE  APIInv'
  <1>1. APITypeOK'
    BY DEF APIInv, APITypeOK, Arrives, Goto, Stages, Working
  <1>2. \A y \in Executions : y # x => Same(y)
    BY DEF Arrives, Goto, Same, EventsOf, APITypeOK
  <1>3. ExecutionOK(x)'
    <2>1. /\ stage[x] = "free" /\ stage'[x] = "received" /\ decision'[x] = decision[x]
          /\ result'[x] = result[x] /\ status'[x] = status[x] /\ review'[x] = review[x]
          /\ carried'[x] = carried[x] /\ written'[x] = written[x] /\ reply'[x] = reply[x]
          /\ EventsOf(x)' = EventsOf(x)
      BY DEF Arrives, At, Goto, EventsOf, APIInv, APITypeOK
    <2>2. /\ Blocked(x)' = Blocked(x) /\ Required(x)' = Required(x)
          /\ decision[x] = Undecided /\ result[x] = NoResults
          /\ ~Blocked(x) /\ carried[x] = Empty
      BY <2>1 DEF Blocked, Required, APIInv, ExecutionOK, FreshUntilRouted, Unrouted,
        UnreviewedUntilGate, Over, Undecided, Decided
    <2>3. ExecutionOK(x)
      BY DEF APIInv
    <2>4. FreshUntilRouted(x)' /\ UnreviewedUntilGate(x)' /\ ReviewPath(x)'
      BY <2>1, <2>2, <2>3 DEF ExecutionOK, FreshUntilRouted, Unrouted,
        UnreviewedUntilGate, ReviewPath, Over
    <2>5. BlockedPath(x)' /\ AuditPath(x)'
      BY <2>1, <2>2, <2>3 DEF ExecutionOK, BlockedPath, AuditPath, Over
    <2>6. OperationsPath(x)' /\ OwnedPath(x)'
      BY <2>1, <2>2, <2>3 DEF OperationsPath, OwnedPath, NoResults, Nothing, Over,
        SupportStatuses
    <2> QED
      BY <2>4, <2>5, <2>6 DEF ExecutionOK
  <1> QED
    BY <1>1, <1>2, <1>3, SameKeeps DEF APIInv

LEMMA RestartKeeps ==
  ASSUME APIInv, Restart
  PROVE  APIInv'
  <1>1. APITypeOK'
    BY DEF APIInv, APITypeOK, Restart, Stages
  <1>2. ASSUME NEW x \in Executions
        PROVE  ExecutionOK(x)'
    <2>1. /\ stage'[x] = IF stage[x] \in Working THEN "killed" ELSE stage[x]
          /\ ask'[x] = ask[x] /\ decision'[x] = decision[x]
          /\ result'[x] = result[x] /\ status'[x] = status[x] /\ review'[x] = review[x]
          /\ carried'[x] = carried[x] /\ written'[x] = {} /\ reply'[x] = reply[x]
          /\ EventsOf(x)' = EventsOf(x)
      BY DEF Restart, Running, EventsOf
    <2>2. Blocked(x)' = Blocked(x) /\ Required(x)' = Required(x) /\ Cleared(x)' = Cleared(x)
      BY <2>1 DEF Blocked, Required, Cleared
    <2>3. ExecutionOK(x) /\ stage[x] \in Stages
      BY DEF APIInv, APITypeOK
    <2>4. stage'[x] = "replied" <=> stage[x] = "replied"
      BY <2>1 DEF Working, Nodes
    <2>5. reply[x] # 0 => stage[x] = "replied"
      BY <2>3 DEF ExecutionOK, UnreviewedUntilGate
    <2>6. FreshUntilRouted(x)' /\ UnreviewedUntilGate(x)'
      BY <2>1, <2>2, <2>3, <2>4, <2>5 DEF ExecutionOK, FreshUntilRouted, Unrouted,
        UnreviewedUntilGate, Over, Stages, Working
    <2>7. BlockedPath(x)'
      BY <2>1, <2>2, <2>3 DEF ExecutionOK, BlockedPath, Over
    <2>8. AuditPath(x)'
      BY <2>1, <2>2, <2>3 DEF ExecutionOK, AuditPath, Over
    <2>9. ReviewPath(x)'
      BY <2>1, <2>2, <2>3 DEF ExecutionOK, ReviewPath
    <2>10. OperationsPath(x)'
      BY <2>1, <2>3 DEF ExecutionOK, OperationsPath, Cooperative, Over
    <2>11. OwnedPath(x)'
      BY <2>1, <2>3 DEF ExecutionOK, OwnedPath, Working, Nodes
    <2> QED
      BY <2>6, <2>7, <2>8, <2>9, <2>10, <2>11 DEF ExecutionOK
  <1> QED
    BY <1>1, <1>2 DEF APIInv

LEMMA UnchangedKeeps ==
  ASSUME APIInv, UNCHANGED apiVars
  PROVE  APIInv'
  <1>1. APITypeOK'
    BY DEF APIInv, APITypeOK, apiVars
  <1>2. \A y \in Executions : Same(y)
    BY DEF Same, apiVars, EventsOf
  <1> QED
    BY <1>1, <1>2, SameKeeps DEF APIInv

LEMMA APIInvariant == APISpec => []APIInv
  <1>1. APIInit => APIInv
    BY InitOK
  <1>2. APIInv /\ [APINext]_apiVars => APIInv'
    BY StepKeeps, ArrivesKeeps, RestartKeeps, UnchangedKeeps DEF APINext
  <1> QED
    BY <1>1, <1>2, PTL DEF APISpec

-----------------------------------------------------------------------------
(* What it implies.                                                        *)

\* Every variable of the API keeps its type, with any number of requests.
THEOREM APIHasTypes == APISpec => []APITypeOK
  <1>1. APIInv => APITypeOK
    BY DEF APIInv
  <1> QED
    BY <1>1, APIInvariant, PTL

\* A blocked or redacted request is answered with a 200 only when all its events
\* are committed, whatever fails, restarts or is not acknowledged.
THEOREM AuditedBeforeReplyHolds == APISpec => []AuditedBeforeReply
  <1>1. APIInv => AuditedBeforeReply
    BY DEF APIInv, ExecutionOK, AuditedBeforeReply, AuditPath
  <1> QED
    BY <1>1, APIInvariant, PTL

\* The events of a request are all committed or none is.
THEOREM AuditIsWholeHolds == APISpec => []AuditIsWhole
  <1>1. APIInv => AuditIsWhole
    BY DEF APIInv, ExecutionOK, AuditIsWhole, AuditPath
  <1> QED
    BY <1>1, APIInvariant, PTL

\* A blocked request runs no specialist and its response is a refusal.
THEOREM BlockedTouchesNothingHolds == APISpec => []BlockedTouchesNothing
  <1>1. APIInv => BlockedTouchesNothing
    BY DEF APIInv, ExecutionOK, BlockedTouchesNothing, BlockedPath, Blocked, Empty
  <1> QED
    BY <1>1, APIInvariant, PTL

\* What a client receives passed the reviewer, without recognised spans.
THEOREM NothingUnreviewedHolds == APISpec => []NothingUnreviewed
  <1>1. APIInv => NothingUnreviewed
    BY DEF APIInv, ExecutionOK, NothingUnreviewed, ReviewPath, Cleared
  <1> QED
    BY <1>1, APIInvariant, PTL

\* Operational records stay with those entitled to them and away from the web.
THEOREM OperationsStayInsideHolds == APISpec => []OperationsStayInside
  <1>1. APIInv => OperationsStayInside
    BY DEF APIInv, ExecutionOK, OperationsStayInside, OperationsPath
  <1> QED
    BY <1>1, APIInvariant, PTL

\* A turn of a conversation a person owns runs no specialist.
THEOREM HumanOwnedHolds == APISpec => []HumanOwnedGetsNoAutomation
  <1>1. APIInv => HumanOwnedGetsNoAutomation
    BY DEF APIInv, ExecutionOK, HumanOwnedGetsNoAutomation, OwnedPath
  <1> QED
    BY <1>1, APIInvariant, PTL

-----------------------------------------------------------------------------
(* The portal's call (ChatCall).                                           *)

\* An execution the call started comes before those still free, and only the
\* one it waits for may be answered with something else than a 503.
CallShape ==
  /\ IsFiniteSet(mine)
  /\ phase = "sending" => attempt # 0 /\ Cardinality(mine) <= attempt - 1
  /\ phase = "sending" => \A y \in mine : reply[y] = 503
  /\ phase = "waiting" =>
       /\ attempt # 0
       /\ \A y \in mine : y <= waitsFor
       /\ \A y \in mine : y # waitsFor => reply[y] = 503
  /\ \A y \in mine, z \in Free : y < z

CallInv == APIInv /\ TypeOK /\ CallShape /\ ResendsOnlyAfterRefusal

LEMMA NeverFreeAgain ==
  ASSUME APITypeOK, NEW x \in Executions, Step(x)
  PROVE  stage'[x] # "free"
  <1>1. CASE Screen(x)
    <2>1. \A found \in SUBSET EventTypes : Decided("SECURITY_BLOCK", found) \in Decisions
      BY DecidedType DEF Routes, NodeOf
    <2>2. ask[x].protected \in SUBSET EventTypes
      BY AsksAssumption DEF APITypeOK
    <2> QED
      BY <1>1, <2>1, <2>2, ScreenedType, DecidesFields
      DEF Screen, APITypeOK, Goto, Nodes
  <1>2. CASE Classify(x)
    <2>1. Undecided \in Decisions /\ Decided("CUSTOMER_SUPPORT", {}) \in Decisions
      BY DecidedType DEF Undecided, Routes, NodeOf
    <2> QED
      BY <1>2, <2>1, MappedType, DecidesFields DEF Classify, APITypeOK, Nodes
  <1>3. CASE Admit(x) \/ GraphFails(x) \/ Knowledge(x) \/ CustomerSupport(x)
    BY <1>3 DEF Admit, GraphFails, Knowledge, CustomerSupport, AfterKnowledge,
      AfterCustomerSupport, Answered, Goto, APITypeOK
  <1>4. CASE \/ CooperativeSynthesis(x) \/ WebKnowledge(x) \/ DirectGeneral(x)
             \/ Conversational(x) \/ AmbiguousTerminal(x) \/ EscalateToHuman(x)
    BY <1>4 DEF CooperativeSynthesis, WebKnowledge, DirectGeneral, Conversational,
      AmbiguousTerminal, EscalateToHuman, Goto, APITypeOK
  <1>5. CASE SecurityTerminal(x) \/ Assembly(x) \/ Respond(x) \/ Gate(x)
    BY <1>5 DEF SecurityTerminal, Assembly, Respond, Gate, AfterReview, Answered, Goto,
      APITypeOK
  <1>6. CASE InsertEvent(x) \/ CommitEvents(x) \/ RecordingFails(x)
    BY <1>6
    DEF InsertEvent, CommitEvents, RecordingFails, AfterAudit, Answered, At, Goto,
      APITypeOK
  <1> QED
    BY <1>1, <1>2, <1>3, <1>4, <1>5, <1>6 DEF Step

LEMMA RepliesStay ==
  ASSUME APIInv, \/ Restart
                 \/ \E x \in Executions : Step(x)
                 \/ \E x \in Executions, a \in Asks : Arrives(x, a)
  PROVE  /\ \A y \in Executions : reply[y] = 503 => reply'[y] = 503
         /\ Free' \subseteq Free
  <1>1. CASE Restart
    BY <1>1 DEF Restart, Free, At
  <1>2. ASSUME NEW x \in Executions, Step(x)
        PROVE  /\ \A y \in Executions : reply[y] = 503 => reply'[y] = 503
               /\ Free' \subseteq Free
    <2>1. stage[x] \in Working
      BY <1>2 DEF Step, At, Admit, Screen, Classify, GraphFails, Knowledge,
        CustomerSupport, CooperativeSynthesis, WebKnowledge, DirectGeneral,
        Conversational, AmbiguousTerminal, EscalateToHuman, SecurityTerminal,
        Assembly, Respond, Gate, InsertEvent, CommitEvents, RecordingFails,
        Working, Nodes
    <2>2. stage[x] # "free" /\ reply[x] = 0
      BY <2>1 DEF APIInv, ExecutionOK, UnreviewedUntilGate, Working, Nodes
    <2>3. \A y \in Executions : y # x => stage'[y] = stage[y] /\ reply'[y] = reply[y]
      BY <1>2, OthersAreTheSame DEF APIInv, Same
    <2>4. stage'[x] # "free"
      BY <1>2, NeverFreeAgain DEF APIInv
    <2> QED
      BY <2>2, <2>3, <2>4 DEF Free, At
  <1>3. CASE \E x \in Executions, a \in Asks : Arrives(x, a)
    BY <1>3 DEF Arrives, Goto, Free, At, APIInv, APITypeOK
  <1> QED
    BY <1>1, <1>2, <1>3

LEMMA APIMovesOn ==
  ASSUME APIInv, [APINext]_apiVars
  PROVE  /\ APIInv'
         /\ \A y \in Executions : reply[y] = 503 => reply'[y] = 503
         /\ Free' \subseteq Free
  BY StepKeeps, ArrivesKeeps, RestartKeeps, UnchangedKeeps, RepliesStay
  DEF APINext, apiVars, Free, At

\* Whatever the callers do, the API takes its own steps.
LEMMA NextIsOfAPI ==
  ASSUME TypeOK, [Next]_vars
  PROVE  [APINext]_apiVars
  <1>1. CASE Begin \/ NotConfigured \/ ConnectFails \/ StopsWaiting \/ Hear
    BY <1>1 DEF Begin, NotConfigured, ConnectFails, StopsWaiting, Hear
  <1>2. CASE Deliver
    BY <1>2 DEF Deliver, Free, TypeOK, APINext
  <1>3. CASE Other
    BY <1>3, CallersAssumption DEF Other, APINext
  <1>4. CASE API \/ UNCHANGED vars
    BY <1>4 DEF API, APINext, vars, apiVars
  <1> QED
    BY <1>1, <1>2, <1>3, <1>4 DEF Next, Call

LEMMA CallInit == Init => CallInv
  <1> SUFFICES ASSUME Init PROVE CallInv
    OBVIOUS
  <1>1. APIInv
    BY InitOK DEF Init
  <1>2. turn \in Asks /\ waitsFor \in Executions
    BY AsksAssumption, ExecutionsAssumption DEF Init
  <1>3. IsFiniteSet(mine) /\ Cardinality(mine) = 0 /\ mine = {}
    BY FS_EmptySet DEF Init
  <1>4. TypeOK
    BY <1>1, <1>2, <1>3 DEF Init, TypeOK, APIInv, Outcomes
  <1>5. CallShape /\ ResendsOnlyAfterRefusal
    BY <1>3 DEF Init, CallShape, ResendsOnlyAfterRefusal
  <1> QED
    BY <1>1, <1>4, <1>5 DEF CallInv

LEMMA CallNext ==
  ASSUME CallInv, [Next]_vars
  PROVE  CallInv'
  <1>1. /\ APIInv'
        /\ \A y \in Executions : reply[y] = 503 => reply'[y] = 503
        /\ Free' \subseteq Free
    BY NextIsOfAPI, APIMovesOn DEF CallInv
  <1>2. Free \subseteq Executions /\ Executions \subseteq Nat
    BY ExecutionsAssumption DEF Free
  <1>3. APITypeOK'
    BY <1>1 DEF APIInv
  <1>4. mine \subseteq Executions /\ Cardinality(mine) \in Nat
    BY FS_CardinalityType DEF CallInv, TypeOK, CallShape
  <1>5. CASE UNCHANGED callVars
    <2>1. TypeOK'
      BY <1>3, <1>5 DEF CallInv, TypeOK, callVars
    <2>2. CallShape' /\ ResendsOnlyAfterRefusal'
      BY <1>1, <1>2, <1>4, <1>5
      DEF CallInv, CallShape, ResendsOnlyAfterRefusal, callVars
    <2> QED
      BY <1>1, <2>1, <2>2 DEF CallInv
  <1>6. CASE Begin
    <2>1. IsFiniteSet(mine') /\ Cardinality(mine') = 0 /\ mine' = {}
      BY <1>6, FS_EmptySet DEF Begin
    <2>2. turn' \in Asks
      BY <1>6, CallersAssumption DEF Begin, CallInv, TypeOK
    <2>3. TypeOK'
      BY <1>3, <1>6, <2>1, <2>2 DEF Begin, CallInv, TypeOK, Outcomes
    <2>4. CallShape' /\ ResendsOnlyAfterRefusal'
      BY <1>6, <2>1 DEF Begin, CallShape, ResendsOnlyAfterRefusal
    <2> QED
      BY <1>1, <2>3, <2>4 DEF CallInv
  <1>7. CASE Deliver
    <2>1. PICK x \in Free : /\ \A y \in Free : x <= y
                            /\ Arrives(x, turn)
                            /\ waitsFor' = x
                            /\ mine' = mine \cup {x}
      BY <1>7 DEF Deliver
    <2>2. /\ x \notin mine /\ x \notin Free'
          /\ \A y \in mine : y < x
      BY <1>2, <2>1 DEF CallInv, CallShape, Arrives, Goto, Free, At, APIInv, APITypeOK
    <2>3. IsFiniteSet(mine') /\ Cardinality(mine') = Cardinality(mine) + 1
      BY <2>1, <2>2, FS_AddElement DEF CallInv, CallShape
    <2>4. phase = "sending" /\ phase' = "waiting" /\ UNCHANGED <<attempt, turn, outcome>>
      BY <1>7 DEF Deliver
    <2>5. TypeOK'
      BY <1>2, <1>3, <1>4, <2>1, <2>3, <2>4 DEF CallInv, CallShape, TypeOK
    <2>6. \A y \in mine : reply'[y] = 503
      BY <1>1, <1>4, <2>4 DEF CallInv, CallShape
    <2>7. \A y \in mine', z \in Free' : y < z
      <3>1. \A z \in Free' : z # x /\ z \in Free
        BY <1>1, <2>2
      <3>2. \A z \in Free : x <= z /\ x \in Nat /\ z \in Nat
        BY <1>2, <2>1
      <3>3. \A z \in Free' : x < z
        BY <3>1, <3>2
      <3> QED
        BY <2>1, <3>1, <3>3 DEF CallInv, CallShape
    <2>8. CallShape'
      BY <1>2, <1>4, <2>1, <2>2, <2>3, <2>4, <2>6, <2>7 DEF CallInv, CallShape
    <2>9. ResendsOnlyAfterRefusal'
      BY <1>2, <1>4, <2>1, <2>2, <2>6 DEF ResendsOnlyAfterRefusal
    <2> QED
      BY <1>1, <2>5, <2>8, <2>9 DEF CallInv
  <1>8. CASE NotConfigured \/ ConnectFails \/ StopsWaiting
    <2>1. UNCHANGED <<apiVars, turn, mine, waitsFor>>
      BY <1>8 DEF NotConfigured, ConnectFails, StopsWaiting, Ends
    <2>2. TypeOK'
      BY <1>3, <1>4, <1>8, <2>1
      DEF NotConfigured, ConnectFails, StopsWaiting, Ends, CallInv,
        CallShape, TypeOK, Outcomes
    <2>3. CallShape' /\ ResendsOnlyAfterRefusal'
      BY <1>1, <1>2, <1>4, <1>8, <2>1
      DEF NotConfigured, ConnectFails, StopsWaiting, Ends,
        CallInv, CallShape, TypeOK, ResendsOnlyAfterRefusal
    <2> QED
      BY <1>1, <2>2, <2>3 DEF CallInv
  <1>9. CASE Hear
    <2>1. UNCHANGED <<apiVars, turn, mine, waitsFor>>
      BY <1>9 DEF Hear, Ends
    <2>2. \/ /\ phase' = "sending" /\ attempt = 1 /\ attempt' = 2 /\ outcome' = outcome
             /\ reply[waitsFor] = 503
          \/ phase' = "idle" /\ attempt' = attempt /\ outcome' \in Outcomes
      BY <1>9 DEF Hear, Ends, Heard, Outcomes
    <2>3. TypeOK'
      BY <1>3, <1>4, <2>1, <2>2 DEF CallInv, TypeOK
    <2>4. phase = "waiting"
      BY <1>9 DEF Hear
    <2>5. CallShape' /\ ResendsOnlyAfterRefusal'
      BY <1>1, <1>2, <1>4, <2>1, <2>2, <2>4 DEF CallInv, CallShape, TypeOK,
        ResendsOnlyAfterRefusal
    <2> QED
      BY <1>1, <2>3, <2>5 DEF CallInv
  <1> QED
    BY <1>5, <1>6, <1>7, <1>8, <1>9 DEF Next, Call, Other, vars, callVars

LEMMA CallInvariant == Spec => []CallInv
  BY CallInit, CallNext, PTL DEF Spec

\* The portal and the other callers use the API as APISpec lets them.
THEOREM CallersUseAPI == Spec => APISpec
  <1>1. Init => APIInit
    BY DEF Init
  <1>2. CallInv /\ [Next]_vars => [APINext]_apiVars
    BY NextIsOfAPI DEF CallInv
  <1> QED
    BY <1>1, <1>2, CallInvariant, PTL DEF Spec, APISpec

\* Every variable of the call keeps its type, and it makes at most two attempts.
THEOREM CallTypeOK == Spec => []TypeOK
  <1>1. CallInv => TypeOK
    BY DEF CallInv
  <1> QED
    BY <1>1, CallInvariant, PTL

\* A call repeats a request only after the first one was refused with a 503.
THEOREM CallResendsOnlyAfterRefusal == Spec => []ResendsOnlyAfterRefusal
  <1>1. CallInv => ResendsOnlyAfterRefusal
    BY DEF CallInv
  <1> QED
    BY <1>1, CallInvariant, PTL

=============================================================================
