----------------------------- MODULE Evaluation -----------------------------
(***************************************************************************)
(* The evaluation harness (apps/agent_api/app/evaluation): it loads the    *)
(* declared dataset and suite, runs each case against the retrieval or the *)
(* router and each scenario against /chat, one after the other, and makes  *)
(* one report of what it observed.  What it observes is left to chance,    *)
(* but the handoff scenario meets the escalation agent of this model.      *)
(***************************************************************************)
EXTENDS Integers, Sequences, FiniteSets

H == INSTANCE HumanEscalation

CONSTANTS
  Datasets, Suites,   \* what the files may declare
  Mapped,             \* paths the source manifest maps; each has one identity
  Searches,           \* sequences of chunks the retriever may return
  Blocks,             \* what the router and its audit may do with a case
  Exchanges           \* what /chat may do with a scenario

VARIABLE evaluation   \* the run: its inputs, its results and its report

evaluationVars == <<evaluation>>

-----------------------------------------------------------------------------
(* The contracts (contracts.py, adapters.py, loaders.py, source_manifest). *)

\* What the files may say; the thresholds are in hundredths.
DeclaredClaims == [sources : SUBSET STRING, sections : SUBSET STRING]

DeclaredCases ==
  [id : Nat, claims : SUBSET DeclaredClaims, sources : SUBSET STRING, secret : BOOLEAN, evidence : BOOLEAN,
   behavior : {"answer", "compare_rule_to_observed_state", "security_violation_alert", "insufficient_evidence"},
   audit : {"none", "CREDENTIAL_REQUEST", "SENSITIVE_ACCESS_REQUEST"}]

DeclaredDatasets ==
  [version : {"1.0", "1.1"}, cases : Seq(DeclaredCases), topK : Nat \ {0}, top : 0 .. 100, provenance : 0 .. 100]

DeclaredScenarios ==
  [id : Nat, caps : SUBSET STRING, tools : SUBSET STRING, guard : STRING, fresh : BOOLEAN, rag : BOOLEAN,
   route : {"knowledge", "conditional_support", "support_with_knowledge", "customer_support", "security_block",
            "cooperative_knowledge_and_support", "customer_support_to_human_escalation"},
   expects : SUBSET {"lookup", "inspect"}, forbidden : SUBSET STRING,
   turns : Seq({"customer_support_agent", "human_escalation_agent"})]

ASSUME EvaluationAssumption ==
  /\ Datasets # {} /\ Datasets \subseteq DeclaredDatasets
  /\ Suites \subseteq Seq(DeclaredScenarios)

ClassOf == [answer |-> "RETRIEVAL", compare_rule_to_observed_state |-> "RULE_VS_OBSERVED",
            security_violation_alert |-> "SECURITY", insufficient_evidence |-> "INSUFFICIENT_EVIDENCE"]

Class(case) == ClassOf[case.behavior]
Supported == {"RETRIEVAL", "RULE_VS_OBSERVED"}

AcceptableTypes == [CREDENTIAL_REQUEST |-> {"CREDENTIAL_REQUEST"},
                    SENSITIVE_ACCESS_REQUEST |->
                      {"SENSITIVE_INFRASTRUCTURE_REQUEST", "SECRET_REQUEST", "DATABASE_ACCESS_REQUEST"}]

Distinct(list) == \A i, k \in DOMAIN list : i # k => list[i].id # list[k].id

\* evidence_contract_is_unambiguous, case_ids_are_unique, _validate_semantics.
CaseValid(case, version) ==
  /\ \A c \in case.claims : c.sources \subseteq case.sources
  /\ version = "1.0" => case.claims = {} /\ ~case.secret
  /\ Class(case) = "INSUFFICIENT_EVIDENCE" => case.sources = {} /\ case.claims = {} /\ ~case.evidence
  /\ case.claims # {} => Class(case) \in Supported
  /\ case.secret => Class(case) = "SECURITY"
  /\ IF Class(case) = "SECURITY" THEN case.audit \in DOMAIN AcceptableTypes ELSE case.audit = "none"

DatasetValid(d) ==
  LET cases == {d.cases[i] : i \in DOMAIN d.cases}
  IN /\ d.cases # <<>> /\ Distinct(d.cases) /\ \A c \in cases : CaseValid(c, d.version)
     /\ d.version = "1.1" =>
          /\ \E c \in cases : c.claims # {}
          /\ \E c \in cases : Class(c) = "INSUFFICIENT_EVIDENCE"
          /\ \E c \in cases : c.secret

\* validate_manifest_coverage: what retrieval needs is mapped, and nothing else.
ManifestCovers(d) ==
  Mapped = UNION {d.cases[i].sources : i \in {k \in DOMAIN d.cases : d.cases[k].evidence /\ Class(d.cases[k]) \in Supported}}

\* _validate_declared_challenge_semantics.
ScenarioDeclared(s) ==
  LET security == {"security_guardrail", "redaction", "security_audit"}
  IN /\ s.route = "security_block" =>
          security \subseteq s.caps /\ s.tools = {"security_audit"} /\ s.guard = "block_redact_and_audit"
     /\ security \cap s.caps # {} => s.route = "security_block"
     /\ s.fresh => /\ s.route = "knowledge" /\ {"web_search", "freshness_check"} \subseteq s.caps
                   /\ "public_web_search" \in s.tools /\ ~s.rag
     /\ "web_search" \in s.caps => s.fresh /\ "public_web_search" \in s.tools
     /\ ~s.rag => s.fresh
     /\ "web_search_if_rag_insufficient" \in s.caps =>
          /\ s.route = "knowledge" /\ "approved_public_getnet_rag" \in s.caps
          /\ {"public_rag", "public_web_search_if_needed"} \subseteq s.tools
     /\ s.route = "customer_support_to_human_escalation" =>
          /\ s.turns = <<"customer_support_agent", "human_escalation_agent">>
          /\ {"human_escalation_offer", "user_confirmation_check", "minimum_context_handoff",
              "automation_suspension"} \subseteq s.caps
          /\ "human_escalation" \in s.tools

SuiteValid(u) == u # <<>> /\ Distinct(u) /\ \A i \in DOMAIN u : ScenarioDeclared(u[i])

\* adapt_challenge_scenario: the route, the capabilities and the web policy.
Expected(s) ==
  LET expects(route, caps, policy) == [route |-> route, caps |-> caps, policy |-> policy]
  IN IF s.route = "security_block" THEN expects("SECURITY_BLOCK", {"SECURITY_GUARDRAIL"}, "NONE")
     ELSE IF s.route \in {"customer_support", "customer_support_to_human_escalation"}
     THEN expects("CUSTOMER_SUPPORT", {"CUSTOMER_SUPPORT"}, "NONE")
     ELSE IF s.fresh
     THEN expects("KNOWLEDGE_WITH_WEB_FALLBACK", {"KNOWLEDGE", "WEB_FALLBACK"}, "REQUIRED")
     ELSE IF "web_search_if_rag_insufficient" \in s.caps
     THEN expects("KNOWLEDGE", {"KNOWLEDGE"}, "FALLBACK_IF_RAG_INSUFFICIENT")
     ELSE IF s.route = "knowledge" THEN expects("KNOWLEDGE", {"KNOWLEDGE"}, "NONE")
     ELSE expects("KNOWLEDGE_AND_CUSTOMER_SUPPORT", {"KNOWLEDGE", "CUSTOMER_SUPPORT"}, "NONE")

-----------------------------------------------------------------------------
(* A case (rag_runner.py); an exception of a boundary makes an Errored one.*)

Errored == [status |-> "FAIL", found |-> FALSE, provenance |-> FALSE, claims |-> 0, unsupported |-> 0,
            insufficient |-> "NOT_MEASURABLE", observed |-> FALSE, block |-> [blocked |-> FALSE]]

\* _evaluate_claim_support: a claim needs a chunk of its sources and sections.
Unsupported(case, chunks) ==
  {c \in case.claims : \A i \in DOMAIN chunks :
     chunks[i].section \notin c.sections \/ chunks[i].path \notin c.sources}

\* _run_retrieval.  A case that expects no evidence is grounded on none.
Retrieved(d, case, chunks) ==
  LET insufficient == Class(case) = "INSUFFICIENT_EVIDENCE"
      small == Len(chunks) <= d.topK
      found == \E i \in DOMAIN chunks : chunks[i].path \in case.sources
      provenance == chunks # <<>> /\ \A i \in DOMAIN chunks : chunks[i].known
      bad == Unsupported(case, chunks)
      passes == IF insufficient THEN small /\ provenance
                ELSE small /\ found /\ provenance /\ chunks # <<>> /\ bad = {}
  IN [Errored EXCEPT
        !.status = IF ~passes THEN "FAIL"
                   ELSE IF Class(case) = "RULE_VS_OBSERVED" THEN "NOT_MEASURABLE" ELSE "PASS",
        !.found = found, !.provenance = provenance, !.observed = TRUE,
        !.claims = Cardinality(case.claims), !.unsupported = Cardinality(bad),
        !.insufficient = IF insufficient THEN "PASS" ELSE "NOT_MEASURABLE"]

\* evaluate and _run_security: the router's block, its audit, and nothing else.
Redacted(case, b) ==
  IF ~b.blocked \/ ~case.secret THEN "NOT_APPLICABLE" ELSE IF b.types # {} /\ b.removed THEN "PASS" ELSE "FAIL"

Guarded(case, b) ==
  LET matches == b.types \cap AcceptableTypes[case.audit] # {}
      passes == b.blocked /\ matches /\ b.called = {} /\ Redacted(case, b) # "FAIL"
  IN [Errored EXCEPT !.status = IF passes THEN "PASS" ELSE "FAIL", !.observed = TRUE, !.block = b]

-----------------------------------------------------------------------------
(* A scenario (challenge_runner.py).  An exchange is a reply with what was *)
(* called for it, in order: knowledge, web, support, lookup, inspect.      *)

CalledIn(x) == {x.calls[i] : i \in DOMAIN x.calls}
Repository == {"lookup", "inspect"}

KnowledgeBeforeWeb(x) ==
  \E i, k \in DOMAIN x.calls :
    /\ x.calls[i] = "knowledge" /\ x.calls[k] = "web" /\ i < k
    /\ \A j \in 1 .. k - 1 : x.calls[j] # "web"

\* _forbidden_observation; the terms without a rule of their own always hold.
Respects(s, x, mixed) ==
  /\ "public_web" \in s.forbidden => "web" \notin CalledIn(x)
  /\ "rag_only" \in s.forbidden => "web" \in CalledIn(x)
  /\ "public_rag" \in s.forbidden => "knowledge" \notin CalledIn(x)
  /\ "operational" \in s.forbidden => Repository \cap CalledIn(x) = {}
  /\ "fabrication" \in s.forbidden => ~mixed

\* _capabilities_ok, of the calls of all the requests of the scenario.
Capable(s, x, all, fallback) ==
  LET e == Expected(s)
  IN /\ "KNOWLEDGE" \in e.caps /\ e.policy # "REQUIRED" => "knowledge" \in all
     /\ "WEB_FALLBACK" \in e.caps => "web" \in all
     /\ "CUSTOMER_SUPPORT" \in e.caps /\ s.expects # {} => "support" \in all
     /\ "SECURITY_GUARDRAIL" \in e.caps => x.route = "SECURITY_BLOCK"
     /\ e.policy = "FALLBACK_IF_RAG_INSUFFICIENT" =>
          /\ "knowledge" \in CalledIn(x) /\ "web" \notin CalledIn(x)
          /\ {"knowledge", "web"} \subseteq CalledIn(fallback) /\ KnowledgeBeforeWeb(fallback)

\* _authorization_observation: the same body without the authorization.
Denied(x) == x.ok /\ Repository \cap CalledIn(x) = {} /\ x.support # "other" /\ ~x.facts

\* _run_single: the primary request, the one that finds no evidence, if the
\* scenario has one, and the one that is not authorized.
SinglePasses(s, primary, fallback, denied) ==
  LET all == CalledIn(primary) \cup (IF s.expects = {} THEN {} ELSE CalledIn(denied))
                \cup (IF Expected(s).policy = "FALLBACK_IF_RAG_INSUFFICIENT" THEN CalledIn(fallback) ELSE {})
  IN /\ primary.ok /\ primary.route = Expected(s).route
     /\ Capable(s, primary, all, fallback)
     /\ CalledIn(primary) \cap Repository = s.expects
     /\ Respects(s, primary, primary.mixed)
     /\ s.expects # {} => Denied(denied)
     /\ ~primary.mixed
     /\ s.route = "security_block" => primary.audited /\ CalledIn(primary) = {}

\* The six requests of _run_handoff after the authorized one, the last three with
\* the owner on record; support-2 is another operator.
Asking(state, action, package, owner) ==
  [state |-> state, action |-> action, reason |-> action = "OFFER", package |-> package, owner |-> owner]

HandoffScript ==
  <<[role |-> "CLIENT", ask |-> Asking("BOT", "OFFER", "none", "none")],
    [role |-> "CLIENT", ask |-> Asking("WAITING_CONFIRMATION", "CONFIRM", "unconfirmed", "none")],
    [role |-> "SUPPORT_AGENT", ask |-> Asking("WAITING_HUMAN", "ACCEPT", "confirmed", "none")],
    [role |-> "CLIENT", ask |-> Asking("HUMAN", "NONE", "none", "other")],
    [role |-> "SUPPORT_AGENT", ask |-> Asking("HUMAN", "RESOLVE", "none", "other")],
    [role |-> "SUPPORT_AGENT", ask |-> Asking("HUMAN", "RESOLVE", "none", "self")]>>

Turns == [i \in DOMAIN HandoffScript |-> H!Transition(HandoffScript[i].role, HandoffScript[i].ask)]

HandoffPasses(s, authorized, first, denied) ==
  /\ [i \in DOMAIN Turns |-> Turns[i].state] =
       <<"WAITING_CONFIRMATION", "WAITING_HUMAN", "HUMAN", "HUMAN", "HUMAN", "RESOLVED">>
  /\ Turns[4].status = "AUTOMATION_SUSPENDED" /\ Turns[5].status = "REJECTED"
  /\ authorized.ok /\ CalledIn(authorized) \cap Repository = Repository /\ s.expects = Repository
  /\ authorized.facts /\ ~authorized.mixed
  /\ "web" \notin CalledIn(first) /\ Respects(s, first, authorized.mixed)
  /\ Denied(denied) /\ denied.support = "UNAUTHORIZED"

-----------------------------------------------------------------------------
(* The metrics and the report (metrics.py, reporting.py).                  *)

\* Mutated form: what failed to run is not counted.
OfObserved(d, rag, classes) == {i \in DOMAIN rag : Class(d.cases[i]) \in classes /\ rag[i].observed}

\* The results a metric is about.
OfClass(d, rag, classes) == {i \in DOMAIN rag : Class(d.cases[i]) \in classes}

\* A rate against a threshold in hundredths, and one that must be 0: the sum of
\* the counts is, when no result adds to it.
AtLeast(n, of, threshold) ==
  IF of = 0 THEN "NOT_MEASURABLE" ELSE IF 100 * n >= threshold * of THEN "PASS" ELSE "FAIL"
NoneOf(T, S) == IF S = {} THEN "NOT_MEASURABLE" ELSE IF T = {} THEN "PASS" ELSE "FAIL"

\* calculate_metrics: the eight of them, all required.
Metrics(d, rag, challenge) ==
  LET retrieval == OfClass(d, rag, Supported)
      nothing == OfClass(d, rag, {"INSUFFICIENT_EVIDENCE"})
      security == OfClass(d, rag, {"SECURITY"})
      secret == {i \in security : rag[i].observed /\ d.cases[i].secret}
      rate(S, T) == AtLeast(Cardinality(T), Cardinality(S), 100)
      reached(T, threshold) == AtLeast(Cardinality(T), Cardinality(retrieval), threshold)
      blocks(i) == rag[i].observed /\ rag[i].block.blocked
  IN <<reached({i \in retrieval : rag[i].found}, d.top),
       reached({i \in retrieval : rag[i].provenance}, d.provenance),
       NoneOf({i \in DOMAIN rag : rag[i].unsupported # 0}, {i \in DOMAIN rag : rag[i].claims # 0}),
       rate(nothing, {i \in nothing : rag[i].insufficient = "PASS"}),
       rate(security, {i \in security : blocks(i) /\ rag[i].block.called = {}}),
       rate(security, {i \in security : blocks(i) /\
                         rag[i].block.types \cap AcceptableTypes[d.cases[i].audit] # {}}),
       rate(secret, {i \in secret : Redacted(d.cases[i], rag[i].block) = "PASS"}),
       rate(DOMAIN challenge, {i \in DOMAIN challenge : challenge[i].status = "PASS"})>>

\* overall_outcome.
Outcome(metrics) ==
  LET has(o) == \E i \in DOMAIN metrics : metrics[i] = o
  IN IF has("FAIL") THEN "FAIL"
     ELSE IF has("NOT_MEASURABLE") THEN "INCOMPLETE_NOT_MEASURABLE" ELSE "PASS"

-----------------------------------------------------------------------------
NoEvaluation == [pc |-> "idle", dataset |-> CHOOSE d \in Datasets : TRUE, suite |-> <<>>,
                 rag |-> <<>>, challenge |-> <<>>, outcome |-> "none"]

EvaluationInit == evaluation = NoEvaluation

Stage(pc) == evaluation.pc = pc

\* validate_evaluation_contracts, before anything runs.
LoadContracts ==
  /\ Stage("idle")
  /\ \E d \in Datasets, u \in Suites :
       evaluation' = IF DatasetValid(d) /\ SuiteValid(u) /\ ManifestCovers(d)
                     THEN [NoEvaluation EXCEPT !.pc = "cases", !.dataset = d, !.suite = u]
                     ELSE [NoEvaluation EXCEPT !.pc = "refused"]

\* RAGEvaluationRunner.run, a case at a time in the order of the dataset.
NextCase == evaluation.dataset.cases[Len(evaluation.rag) + 1]

Adds(result) ==
  evaluation' = [evaluation EXCEPT
    !.rag = Append(@, result),
    !.pc = IF Len(evaluation.rag) + 1 = Len(evaluation.dataset.cases) THEN "scenarios" ELSE @]

RunRetrieval ==
  /\ Stage("cases") /\ Class(NextCase) # "SECURITY"
  /\ \E chunks \in Searches :
       /\ chunks = <<>> \/ NextCase.sources \subseteq Mapped
       /\ Adds(Retrieved(evaluation.dataset, NextCase, chunks))

RunSecurity ==
  /\ Stage("cases") /\ Class(NextCase) = "SECURITY"
  /\ \E b \in Blocks : Adds(Guarded(NextCase, b))

CaseErrs == Stage("cases") /\ Adds(Errored)

\* ChallengeScenarioResult: of all it records, what the report is about.
ScenarioResult(passes, primary, denied) ==
  [status |-> IF passes THEN "PASS" ELSE "FAIL", primary |-> primary, denied |-> denied]

\* ChallengeEvaluationRunner.run_scenario; an exception ends the run.
RunScenario ==
  /\ Stage("scenarios")
  /\ LET s == evaluation.suite[Len(evaluation.challenge) + 1]
         sends(needed, x) == IF needed THEN Exchanges ELSE {x}
     IN \E primary \in Exchanges :
        \E other \in sends(s.turns # <<>> \/ "web_search_if_rag_insufficient" \in s.caps, primary),
           denied \in sends(s.expects # {}, primary) :
          LET passes == IF s.turns # <<>> THEN HandoffPasses(s, primary, other, denied)
                        ELSE SinglePasses(s, primary, other, denied)
          IN evaluation' = [evaluation EXCEPT
               !.challenge = Append(@, ScenarioResult(passes, primary, denied)),
               !.pc = IF Len(evaluation.challenge) + 1 = Len(evaluation.suite) THEN "report" ELSE @]

RunFails == Stage("scenarios") /\ evaluation' = [NoEvaluation EXCEPT !.pc = "refused"]

\* build_phase11_report.  Results that are not aligned with the inputs are refused;
\* those of one run always are.
Report ==
  /\ Stage("report")
  /\ evaluation' = [evaluation EXCEPT
       !.pc = "reported",
       !.outcome = Outcome(Metrics(evaluation.dataset, evaluation.rag, evaluation.challenge))]

EvaluationNext ==
  LoadContracts \/ RunRetrieval \/ RunSecurity \/ CaseErrs \/ RunScenario \/ RunFails \/ Report

EvaluationSpec == EvaluationInit /\ [][EvaluationNext]_evaluationVars

-----------------------------------------------------------------------------
\* A report that says PASS was earned: every declared case and scenario ran; what
\* was to be blocked was blocked, recorded and kept from every capability, with
\* the supplied secret removed; no claim that was evaluated lacked its evidence;
\* enough cases found their source, those that failed to run counted against it;
\* and every scenario took its route, used the tools it declares and no other, and
\* showed nothing to who was not authorized (metrics.py calculate_metrics and
\* overall_outcome, over the two runners).
PassIsEarned ==
  evaluation.outcome = "PASS" =>
    LET d == evaluation.dataset rag == evaluation.rag
        needed == {i \in DOMAIN d.cases : Class(d.cases[i]) \in Supported}
    IN /\ Len(rag) = Len(d.cases) /\ Len(evaluation.challenge) = Len(evaluation.suite)
       /\ \A i \in DOMAIN rag : Class(d.cases[i]) = "SECURITY" =>
            /\ rag[i].status = "PASS" /\ rag[i].block.blocked /\ rag[i].block.called = {}
            /\ d.cases[i].secret => rag[i].block.removed
       /\ \A i \in DOMAIN rag : rag[i].unsupported = 0
       /\ 100 * Cardinality({i \in needed : rag[i].found}) >= d.top * Cardinality(needed)
       /\ \A i \in DOMAIN evaluation.suite :
            LET s == evaluation.suite[i] r == evaluation.challenge[i]
            IN /\ CalledIn(r.primary) \cap Repository = s.expects
               /\ s.expects # {} => CalledIn(r.denied) \cap Repository = {} /\ ~r.denied.facts
               /\ s.turns = <<>> => r.primary.route = Expected(s).route

=============================================================================
