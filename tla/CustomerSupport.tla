-------------------------- MODULE CustomerSupport --------------------------
(***************************************************************************)
(* CustomerSupportAgent over OperationalTools: an authorised question is   *)
(* planned by the model, answered from reads of the OPS tables, and put    *)
(* into words by the model, while seed runners add cases.  A case never    *)
(* changes once it is committed, so the reads of one tool call are one     *)
(* step.  Protocols are numbers; 0 is none.                                *)
(***************************************************************************)
EXTENDS OpsTables, OperationalTime

CONSTANTS
  Questions,      \* what may be asked: see QuestionOK
  Replies,        \* plans the model may return, valid or not
  Clocks,         \* moments at which a question may be asked
  SeededFrom      \* the moment the seeding began

Needs == {"SERVICE_REQUEST", "ORIGIN_EMAIL", "EMAIL_ATTACHMENTS", "AUTOMATION_RUNS",
          "ESTABLISHMENTS", "EXECUTION_TIMELINE", "FAILURE_EVIDENCE"}

QuestionOK(q) ==
  /\ q.named \subseteq Nat /\ q.selector \in Nat /\ q.run \in {"any", "R1", "R2"}
  /\ q.operation \in {"none", "PROTOCOL_STATUS", "EXECUTION_FAILURE"}
  /\ q.operation # "none" => q.selector # 0
  /\ {q.latest, q.scoped, q.vague, q.allowed} \subseteq BOOLEAN
  /\ q.month \in 0 .. 12 /\ q.year \in Nat

ASSUME SupportAssumption == Questions # {} /\ \A q \in Questions : QuestionOK(q)

VARIABLE inquiry  \* the question being answered

supportVars == <<opsVars, inquiry>>

-----------------------------------------------------------------------------
(* Analytics (ops_analytics.py, _analytics_query, query_operational_...).  *)

NoAnalytics == [grain |-> "none"]

AllTime == [kind |-> "ALL_TIME", days |-> 0, month |-> 0, year |-> 0, from |-> None, to |-> None]

StatusesOf == [PROTOCOL |-> {"CREATED", "PROCESSING", "WAITING_RESULT", "COMPLETED", "FAILED"},
               EXECUTION |-> {"RUNNING", "SUCCESS", "PARTIAL", "ERROR"},
               EVENT |-> {"SUCCESS", "ERROR", "EXCEPTION"}]
BasesOf == [PROTOCOL |-> {"PROTOCOL_CREATED", "PROTOCOL_OUTCOME_AT", "FIRST_EXECUTION", "LAST_EXECUTION"},
            EXECUTION |-> {"EXECUTION_STARTED", "EXECUTION_FINISHED"},
            EVENT |-> {"EVENT_OCCURRED"}]

\* normalize_empty_grouping: FIRST and LAST imply their order.
Ordering(a) ==
  IF a.ordering # "none" THEN a.ordering
  ELSE IF a.metric = "FIRST" THEN "EARLIEST" ELSE IF a.metric = "LAST" THEN "LATEST" ELSE "none"

\* OperationalAnalyticsPlan.validate_analytics_semantics.
AnalyticsValid(a) ==
  /\ ExpressionValid(a.time)
  /\ a.grain = "PROTOCOL" => "ROBOT" \notin a.groups /\ a.robot = "any"
  /\ a.status = "any" \/ a.status \in StatusesOf[a.grain]
  /\ Ordering(a) # "none" => a.metric \in {"LIST", "FIRST", "LAST"}
  /\ a.metric = "FIRST" => Ordering(a) = "EARLIEST"
  /\ a.metric = "LAST" => Ordering(a) = "LATEST"
  /\ a.basis = "none" \/ a.basis \in BasesOf[a.grain]
  /\ a.limit \in 1 .. 50

\* The time basis of a plan that names none.
Basis(a) ==
  IF a.basis # "none" THEN a.basis
  ELSE CASE a.grain = "EVENT" -> "EVENT_OCCURRED"
         [] a.grain = "EXECUTION" -> "EXECUTION_STARTED"
         [] a.grain = "PROTOCOL" ->
              IF (a.outcome # "any" \/ a.groups # {}) /\ a.time.kind # "ALL_TIME" THEN "PROTOCOL_OUTCOME_AT"
              ELSE IF Ordering(a) = "EARLIEST" THEN "FIRST_EXECUTION"
              ELSE IF Ordering(a) = "LATEST" THEN "LAST_EXECUTION" ELSE "PROTOCOL_CREATED"

Limited(a) == IF a.metric \in {"FIRST", "LAST"} THEN 1 ELSE a.limit

Least(S) == CHOOSE x \in S : \A y \in S : x <= y
Greatest(S) == CHOOSE x \in S : \A y \in S : x >= y

\* Log rows correlated to a request by any of its entities, and their runs.
Linked(c) == {i \in DOMAIN c.log : c.log[i].refs # {}}
Failing(c) == {i \in Linked(c) : c.log[i].status \in {"ERROR", "EXCEPTION"}}
Correlated(c) ==
  {r \in c.runs : r.robot = "R1" \/ \E i \in Linked(c) : c.log[i].robot = r.robot}

DomainCreated(c) ==
  {c.log[i].at : i \in {k \in DOMAIN c.log : c.log[k].event = "PROTOCOLO_CRIADO" /\ "request" \in c.log[k].refs}}
CreatedAt(c) == IF DomainCreated(c) = {} THEN SeededFrom + c.created ELSE Least(DomainCreated(c))

\* When a protocol counts; 0 where the column is null.
ProtocolTime(c, basis) ==
  CASE basis = "PROTOCOL_CREATED" -> CreatedAt(c)
    [] basis = "FIRST_EXECUTION" -> Least({r.at : r \in Correlated(c)})
    [] basis = "LAST_EXECUTION" -> Greatest({r.at : r \in Correlated(c)})
    [] basis = "PROTOCOL_OUTCOME_AT" ->
         IF c.status = "COMPLETED" THEN c.completed
         ELSE IF c.status = "FAILED" THEN IF Failing(c) = {} THEN 0 ELSE Greatest({c.log[i].at : i \in Failing(c)})
         ELSE CreatedAt(c)

OutcomeOf(status) ==
  IF status \in {"SUCCESS", "COMPLETED"} THEN "SUCCESS"
  ELSE IF status \in {"ERROR", "EXCEPTION", "FAILED"} THEN "FAILURE" ELSE "OTHER"

\* The rows of a grain, each with the time its basis gives it.
BaseRows(stored, a) ==
  CASE a.grain = "PROTOCOL" ->
         {[protocol |-> c.protocol, part |-> <<"case">>, robot |-> "any", status |-> c.status,
           at |-> ProtocolTime(c, Basis(a))] : c \in stored}
    [] a.grain = "EXECUTION" ->
         {[protocol |-> x[1].protocol, part |-> <<"run", x[2].robot>>, robot |-> x[2].robot,
           status |-> x[2].status, at |-> IF Basis(a) = "EXECUTION_STARTED" THEN x[2].at ELSE x[2].end] :
            x \in {y \in stored \X UNION {c.runs : c \in stored} : y[2] \in y[1].runs}}
    [] a.grain = "EVENT" ->
         UNION {{[protocol |-> c.protocol, part |-> <<"event", i>>, robot |-> c.log[i].robot,
                  status |-> c.log[i].status, at |-> c.log[i].at] : i \in DOMAIN c.log} : c \in stored}

Selects(a, row) ==
  /\ row.at # 0
  /\ a.outcome = "any" \/ OutcomeOf(row.status) = a.outcome
  /\ a.status = "any" \/ row.status = a.status
  /\ a.robot = "any" \/ row.robot = a.robot

Matching(stored, a, now) ==
  {row \in BaseRows(stored, a) : Selects(a, row) /\ InWindow(Resolve(a.time, now), row.at)}

\* The row a list begins with.
First(a, rows) ==
  LET key(r) == r.at * 10 + r.protocol
  IN CHOOSE r \in rows : \A o \in rows :
       IF Ordering(a) = "EARLIEST" THEN key(r) <= key(o) ELSE key(r) >= key(o)

Listing(a) == a.metric \in {"LIST", "FIRST", "LAST"}

\* A list of protocols that came down to one selects it; the first or the last
\* is then looked at in detail.
SelectedBy(a, rows) ==
  IF a.grain = "PROTOCOL" /\ Listing(a) /\ rows # {} /\ (Limited(a) = 1 \/ Cardinality(rows) = 1)
  THEN First(a, rows).protocol ELSE 0

Enriches(a) ==
  a.metric \in {"FIRST", "LAST"} \/ (a.metric = "LIST" /\ Ordering(a) = "LATEST" /\ a.limit = 1)

-----------------------------------------------------------------------------
(* Plans.                                                                  *)

Discovery == {"LATEST_PROTOCOL", "RECENT_PROTOCOLS"}
Review == Needs \ {"ORIGIN_EMAIL", "EMAIL_ATTACHMENTS"}

Plan(intent, protocol, needs) ==
  [intent |-> intent, protocol |-> protocol, run |-> "any", limit |-> 3, needs |-> needs,
   order |-> "REQUEST_CREATED_AT", analytics |-> NoAnalytics]

AnalyticsPlan(a) == [Plan("ANALYTICS", 0, {}) EXCEPT !.analytics = a]

\* What the schemas of a reply let through.
Intents == Discovery \cup {"PROTOCOL_SUMMARY", "PROTOCOL_STATUS", "PROTOCOL_EXECUTION_RESULT",
                           "PROTOCOL_TIMELINE", "EXECUTION_FAILURE", "EXPECTED_VS_OBSERVED",
                           "ANALYTICS", "CLARIFICATION_REQUIRED"}

Analyses ==
  [grain : DOMAIN StatusesOf, metric : {"EXISTS", "COUNT", "LIST", "FIRST", "LAST", "SUMMARY"},
   time : TimeExpressions, basis : UNION {BasesOf[g] : g \in DOMAIN BasesOf} \cup {"none"},
   outcome : {"any", "SUCCESS", "FAILURE", "OTHER"},
   status : UNION {StatusesOf[g] : g \in DOMAIN StatusesOf} \cup {"any"},
   robot : {"any", "R1", "R2"}, ordering : {"none", "EARLIEST", "LATEST"},
   groups : SUBSET {"OUTCOME", "ROBOT"}, limit : Nat]

Plans ==
  [intent : Intents, protocol : Nat, run : {"any", "R1", "R2"}, limit : 1 .. 5,
   needs : SUBSET Needs, order : {"REQUEST_CREATED_AT", "REQUEST_UPDATED_AT", "LAST_EXECUTION_AT"},
   analytics : Analyses \cup {NoAnalytics}]

ASSUME RepliesAssumption == Replies \subseteq Plans

\* OperationalInvestigationPlan.selectors_match_intent.
PlanValid(p) ==
  IF p.intent = "ANALYTICS"
  THEN /\ p.analytics # NoAnalytics /\ AnalyticsValid(p.analytics)
       /\ p.protocol = 0 /\ p.run = "any" /\ p.needs = {}
  ELSE /\ p.analytics = NoAnalytics
       /\ p.intent \in Discovery => p.protocol = 0 /\ p.run = "any"
       /\ p.intent \notin Discovery \cup {"CLARIFICATION_REQUIRED"} => p.protocol # 0
       /\ p.run # "any" => p.intent \in {"EXECUTION_FAILURE", "PROTOCOL_TIMELINE", "PROTOCOL_EXECUTION_RESULT"}

LatestOf(grain, time, basis) ==
  [grain |-> grain, metric |-> "LAST", time |-> time, basis |-> basis, outcome |-> "any", status |-> "any",
   robot |-> "any", ordering |-> "LATEST", groups |-> {}, limit |-> 1]

\* _normalize_latest_protocol_plan before the model is asked: the words "latest
\* protocol" are a plan of their own, unless they come with another period.
PlannedByWords(q) == q.latest /\ (q.month # 0 \/ ~q.scoped)

WordsPlan(q) ==
  IF q.month = 0 THEN Plan("LATEST_PROTOCOL", 0, {})
  ELSE AnalyticsPlan(LatestOf("PROTOCOL", [AllTime EXCEPT !.kind = "CALENDAR_MONTH", !.month = q.month,
                                                         !.year = q.year], "PROTOCOL_CREATED"))

\* The months that may be asked for.
MonthExpressions ==
  {e \in {p.analytics.time : p \in {r \in Replies : r.analytics # NoAnalytics}} :
     e.kind = "CALENDAR_MONTH" /\ e.month # 0}
    \cup {WordsPlan(q).analytics.time : q \in {x \in Questions : x.month # 0}}

\* Environment: a scenario tells of what is over when a question is asked, and the
\* calendar reaches to every question and to the months that it may name.
ASSUME ClocksAssumption ==
  /\ SeededFrom \in Nat
  /\ \A now \in Clocks :
       /\ now \in Nat /\ Day(now) < MonthStart[12 * Years] /\ SeededFrom + MaxSeeds < now
       /\ \A files \in Directories : \A i \in DOMAIN files :
            files[i].r1.end < now /\ files[i].r2.end < now /\ files[i].completed < now
       /\ \A e \in MonthExpressions : NamedMonth(e, Day(now)) \in 0 .. 12 * Years - 1

\* ... and after it, when they came with another period.
Normalized(q, p) ==
  IF q.latest /\ p.analytics.grain = "PROTOCOL"
  THEN [p EXCEPT !.analytics = [@ EXCEPT !.metric = "LAST", !.basis = "PROTOCOL_CREATED",
                                         !.ordering = "LATEST", !.limit = 1, !.groups = {}]]
  ELSE p

Explicit(q) == IF q.selector # 0 THEN {q.selector} ELSE q.named
TheOne(S) == CHOOSE x \in S : TRUE

\* Mutated form: the model's choice stands.
DirectedByModel(q, p) == p

\* A protocol that the question names replaces the one the model chose.
Directed(q, p) ==
  IF Cardinality(Explicit(q)) = 1 /\ p.intent \notin Discovery
  THEN [p EXCEPT !.protocol = TheOne(Explicit(q))] ELSE p

\* A discovery by execution is an analytics plan.
ByExecution(p) ==
  IF p.intent \in Discovery /\ p.order = "LAST_EXECUTION_AT"
  THEN LET a == LatestOf("PROTOCOL", AllTime, "LAST_EXECUTION")
       IN AnalyticsPlan(IF p.intent = "LATEST_PROTOCOL" THEN a
                        ELSE [a EXCEPT !.metric = "LIST", !.limit = p.limit])
  ELSE p

\* An unclear plan for a protocol that is known is a review of its case.
Clarified(q, p) ==
  LET known == IF q.selector # 0 THEN q.selector ELSE p.protocol
  IN IF p.intent = "CLARIFICATION_REQUIRED" /\ known # 0
     THEN Plan("PROTOCOL_EXECUTION_RESULT", known, Review) ELSE p

-----------------------------------------------------------------------------
NoInquiry ==
  [pc |-> "free", q |-> CHOOSE q \in Questions : TRUE, now |-> 0, attempt |-> 1,
   plan |-> Plan("CLARIFICATION_REQUIRED", 0, {}), round |-> 0, needs |-> {}, loaded |-> {}, facts |-> {},
   selected |-> 0, total |-> None, seen |-> {}, status |-> "none", words |-> "none",
   calls |-> 0, reads |-> 0]

SupportInit == OpsInit /\ inquiry = NoInquiry

\* The words ask for a protocol without saying which: the subject of a
\* cancellation, or the business scope.  A protocol that is named needs neither.
NeedsClarification(q) == q.vague /\ q.named = {}

MAX_INVESTIGATION_ROUNDS == 3

Is(pc) == inquiry.pc = pc
Moves(new) == inquiry' = new /\ UNCHANGED opsVars
Called == [inquiry EXCEPT !.calls = @ + 1]
Ended(i, status) == [NoInquiry EXCEPT !.status = status]

\* The protocol a case investigation is about.
CaseOf(i) == IF i.q.selector # 0 THEN i.q.selector ELSE i.plan.protocol

\* Where an accepted plan leads.
Acts(i, p) ==
  [i EXCEPT !.plan = p,
            !.pc = IF p.intent = "ANALYTICS" THEN "analyse"
                   ELSE IF p.intent \in Discovery THEN "discover"
                   ELSE IF p.intent = "CLARIFICATION_REQUIRED" THEN "unclear" ELSE "investigate",
            !.needs = IF p.needs = {} THEN {"SERVICE_REQUEST"} ELSE p.needs]

\* answer: what is decided before the model is asked.
Ask ==
  /\ Is("free")
  /\ \E q \in Questions :
       LET new == [NoInquiry EXCEPT !.q = q]
       IN Moves(IF ~q.allowed THEN Ended(new, "UNAUTHORIZED")
                ELSE IF q.operation # "none"
                THEN [new EXCEPT !.pc = "lookup", !.plan = Plan(q.operation, q.selector, {})]
                ELSE IF NeedsClarification(q) THEN Ended(new, "CLARIFICATION_REQUIRED")
                ELSE IF PlannedByWords(q) THEN Acts(new, WordsPlan(q))
                ELSE [new EXCEPT !.pc = "plan"])

\* What the investigation does with the plan of a later round: only evidence it
\* does not have, and the protocol it began with.
Deepens(i, p) ==
  LET more == p.needs \ i.loaded
  IN IF more = {} THEN [i EXCEPT !.pc = "synthesize"]
     ELSE [i EXCEPT !.pc = "investigate", !.needs = more]

Takes(i, p) == IF i.round = 0 THEN Acts(i, Clarified(i.q, p)) ELSE Deepens(i, p)

\* No plan: an error of the provider, or no valid reply for a question that names
\* no single protocol.  Evidence that is already there is used.
NoPlan(i) == IF i.round = 0 THEN Ended(i, "PROVIDER_ERROR") ELSE [i EXCEPT !.pc = "synthesize"]

\* Mutated form: the repetition is not remembered.
AsksAlways(i) == i

\* An invalid reply is asked for once more.
AsksAgain(i) == [i EXCEPT !.attempt = 2]

PlanReplies ==
  /\ Is("plan")
  /\ \/ Moves(NoPlan(Called))
     \/ \E p \in Replies :
          LET q == inquiry.q
          IN Moves(IF PlanValid(p)
                   THEN Takes([Called EXCEPT !.attempt = 1], ByExecution(Directed(q, Normalized(q, p))))
                   ELSE IF inquiry.attempt = 1 THEN AsksAgain(Called)
                   ELSE IF Cardinality(Explicit(q)) = 1
                   THEN Takes([Called EXCEPT !.attempt = 1],
                              Plan("PROTOCOL_EXECUTION_RESULT", TheOne(Explicit(q)), Review))
                   ELSE NoPlan(Called))

Unclear == Is("unclear") /\ Moves(Ended(inquiry, "CLARIFICATION_REQUIRED"))

-----------------------------------------------------------------------------
(* The tools: each read may fail (ToolFails).                              *)

Read == [inquiry EXCEPT !.reads = @ + 1]
Fact(protocol, category) == [protocol |-> protocol, category |-> category]

Case(p) == {c \in cases : c.protocol = p}

\* investigate_protocol; the origin of attachments comes with them.
CaseFacts(c, needs) ==
  {Fact(c.protocol, n) : n \in needs \cup {"SERVICE_REQUEST"}
     \cup (IF "EMAIL_ATTACHMENTS" \in needs THEN {"ORIGIN_EMAIL"} ELSE {})}

Investigate ==
  /\ Is("investigate")
  /\ IF Case(CaseOf(inquiry)) = {} THEN Moves(Ended(Read, "NOT_FOUND"))
     ELSE LET c == TheOne(Case(CaseOf(inquiry)))
              i == [Read EXCEPT !.facts = @ \cup CaseFacts(c, inquiry.needs),
                                !.loaded = @ \cup inquiry.needs, !.round = @ + 1]
          IN Moves([i EXCEPT !.pc = IF i.loaded = Needs \/ i.round = MAX_INVESTIGATION_ROUNDS
                                    THEN "synthesize" ELSE "plan"])

\* The failures of a case, of one run if the question names it.
FailureFacts(c, run) == {k \in Failing(c) : run \in {"any", c.log[k].robot}}

StatusFacts(c) == CaseFacts(c, {"ESTABLISHMENTS", "EXECUTION_TIMELINE"})

\* The two operations a caller may fix: lookup_protocol_status, and then
\* inspect_execution_failure, which must find a failure.
LookUp ==
  /\ Is("lookup")
  /\ LET found == Case(CaseOf(inquiry))
         inspects == inquiry.q.operation = "EXECUTION_FAILURE"
         failures(c) == {Fact(c.protocol, "FAILURE_EVIDENCE") : k \in FailureFacts(c, inquiry.q.run)}
     IN Moves(IF found = {} \/ (inspects /\ failures(TheOne(found)) = {})
              THEN Ended(Read, "NOT_FOUND")
              ELSE [Read EXCEPT !.pc = "synthesize",
                      !.facts = StatusFacts(TheOne(found)) \cup
                                (IF inspects THEN failures(TheOne(found)) ELSE {})])

\* list_recent_protocols: by the time the row was created.
Recent(n) == {c \in cases : Cardinality({o \in cases : o.created > c.created}) < n}

Discover ==
  /\ Is("discover")
  /\ LET one == inquiry.plan.intent = "LATEST_PROTOCOL"
         found == Recent(IF one THEN 1 ELSE inquiry.plan.limit)
     IN Moves(IF found = {} THEN Ended(Read, "NOT_FOUND")
              ELSE [Read EXCEPT !.facts = {Fact(c.protocol, "SERVICE_REQUEST") : c \in found},
                                !.selected = IF one THEN TheOne(found).protocol ELSE 0,
                                !.pc = IF one THEN "detail" ELSE "synthesize"])

\* query_analytics, unless the interval is refused.
Analyse ==
  /\ Is("analyse")
  /\ \E now \in Clocks :
     LET a == inquiry.plan.analytics
         rows == Matching(cases, a, now)
         chosen == SelectedBy(a, rows)
     IN Moves(IF ~WindowValid(Resolve(a.time, now))
              THEN [Ended(inquiry, "INVALID_INPUT") EXCEPT !.plan = inquiry.plan, !.now = now, !.seen = cases]
              ELSE [Read EXCEPT !.total = Cardinality(rows), !.now = now, !.seen = cases,
                                !.facts = {Fact(0, "ANALYTICS")}, !.selected = chosen,
                                !.pc = IF chosen # 0 /\ Enriches(a) THEN "detail" ELSE "synthesize"])

\* The linked case of the protocol that was found; a failure leaves what is known.
Detail ==
  /\ Is("detail")
  /\ \/ Moves([Read EXCEPT !.pc = "synthesize"])
     \/ \E c \in Case(inquiry.selected) :
          Moves([Read EXCEPT !.pc = "synthesize", !.facts = @ \cup CaseFacts(c, Needs)])

ToolFails ==
  /\ inquiry.pc \in {"investigate", "lookup", "discover", "analyse"}
  /\ Moves(Ended(Read, "OPERATIONAL_UNAVAILABLE"))

-----------------------------------------------------------------------------
(* The words: one repetition for a reply that is not of its form.          *)

Synthesize ==
  /\ inquiry.pc \in {"synthesize", "resynthesize"}
  /\ \/ Moves([Called EXCEPT !.pc = "answered", !.status = "ANSWERED", !.words = "observed"])
     \/ Is("synthesize") /\ Moves([Called EXCEPT !.pc = "resynthesize"])
     \/ Moves(Ended(Called, "PROVIDER_ERROR"))

\* synthesize_cooperative: words that also cite procedure, or the same as before.
Cooperate ==
  /\ Is("answered")
  /\ \/ Moves(Ended(inquiry, "ANSWERED"))
     \/ \E words \in {"combined", "observed"} :
          Moves([Ended(Called, "ANSWERED") EXCEPT !.words = words])

Supporting ==
  \/ Ask \/ PlanReplies \/ Unclear \/ Investigate \/ LookUp \/ Discover \/ Analyse
  \/ Detail \/ ToolFails \/ Synthesize \/ Cooperate

SupportNext == Supporting \/ (OpsNext /\ UNCHANGED inquiry)

SupportSpec == SupportInit /\ [][SupportNext]_supportVars

-----------------------------------------------------------------------------
(* Properties.                                                             *)

\* Every variable has a value of its type; an answer costs at most nine calls of
\* the model and three reads of a case.
SupportTypeOK ==
  /\ OpsTypeOK
  /\ inquiry.pc \in {"free", "plan", "unclear", "investigate", "lookup", "discover", "analyse",
                     "detail", "synthesize", "resynthesize", "answered"}
  /\ inquiry.q \in Questions
  /\ inquiry.round \in 0 .. MAX_INVESTIGATION_ROUNDS
  /\ inquiry.calls \in 0 .. 9 /\ inquiry.reads \in 0 .. 3
  /\ inquiry.loaded \subseteq Needs /\ inquiry.needs \subseteq Needs

\* An investigation of a case stays with the protocol its question names, whatever
\* protocols the model's plan and the plans of its later rounds name, and an
\* analysis or a discovery brings no detail but of what it selected
\* (customer_support.py _plan and the rounds of answer).
NamedCaseOnly ==
  \A f \in inquiry.facts :
    IF inquiry.plan.intent \in Discovery \cup {"ANALYTICS"}
    THEN f.category \notin {"ANALYTICS", "SERVICE_REQUEST"} => f.protocol = inquiry.selected
    ELSE Cardinality(Explicit(inquiry.q)) = 1 => f.protocol \in Explicit(inquiry.q)

\* What an analysis counted is what its time expression says in words, of the rows
\* the filters of its plan select, and an interval that is refused is one in which
\* nothing can have happened (ops_analytics.py resolve, repository's half-open
\* interval, customer_support.py INVALID_ANALYTICS_TIME_WINDOW).
SaidIn(a, now, stored) ==
  {row \in BaseRows(stored, a) : Selects(a, row) /\ Means(a.time, now, row.at)}

TotalsMeanTheirWords ==
  inquiry.plan.intent = "ANALYTICS" /\ inquiry.pc # "analyse" =>
    LET said == SaidIn(inquiry.plan.analytics, inquiry.now, inquiry.seen)
    IN IF inquiry.status = "INVALID_INPUT" THEN said = {}
       ELSE inquiry.total # None => inquiry.total = Cardinality(said)

=============================================================================
