---------------------------- MODULE MCServices ----------------------------
(***************************************************************************)
(* A small instance of each service beside the chat and the portal.  They  *)
(* share no state with one another, so a behaviour runs one of them, which *)
(* `subject' names, and the others stay in one initial state.              *)
(***************************************************************************)
EXTENDS RagAnswers, CustomerSupport, Sessions, Evaluation

VARIABLE subject

CONSTANTS p1, p2, r1, r2, t1, t2

-----------------------------------------------------------------------------
(* The knowledge base: two documents of a robot and a public page.         *)

Heading(n) == [heading |-> TRUE, size |-> n]
Para(n) == [heading |-> FALSE, size |-> n]

MCSourceOf == [d \in {"pdd", "sdd", "page"} |-> IF d = "page" THEN "site" ELSE "robot"]
MCCorpus == [s \in {"robot", "site"} |-> IF s = "site" THEN "PUBLIC" ELSE "R1"]
MCDescribed == [d \in {"pdd", "sdd", "page"} |->
  [class |-> IF d = "pdd" THEN "PDD" ELSE "none", mentions |-> IF d = "sdd" THEN {"technical"} ELSE {}]]
Sectioned == <<Para(0), Heading(1), Para(1), Para(2)>>
MCContents == {<<Para(1)>>, Sectioned, <<Para(0)>>}
MCJobs == {<<"pdd", "sdd">>, <<"page">>}
PageEntry(valid, approved) ==
  [id |-> "page", url |-> "u", valid |-> valid, approved |-> approved, active |-> TRUE, enabled |-> TRUE]
MCRegistries ==
  {[policy |-> TRUE, entries |-> <<PageEntry(TRUE, TRUE)>>], [policy |-> TRUE, entries |-> <<PageEntry(TRUE, FALSE)>>],
   [policy |-> FALSE, entries |-> <<PageEntry(TRUE, TRUE)>>],
   [policy |-> TRUE, entries |-> <<PageEntry(TRUE, TRUE), PageEntry(TRUE, TRUE)>>]}
MCPages == {[url |-> "u", registered |-> TRUE, host |-> TRUE], [url |-> "v", registered |-> FALSE, host |-> TRUE],
            [url |-> "w", registered |-> FALSE, host |-> FALSE]}

-----------------------------------------------------------------------------
(* Operations: a case that completes, one that R1 fails; hours are half    *)
(* days, from Monday the first of January 2024.                            *)

Happened(n, at, last, bad) ==
  [i \in 1 .. n |-> [event |-> IF i = 5 THEN "PROTOCOLO_CRIADO" ELSE "STEP",
                     at |-> IF i < n THEN at ELSE last,
                     status |-> IF bad /\ i = n - 1 THEN "ERROR" ELSE "SUCCESS",
                     refs |-> IF i <= 2 THEN {"email"} ELSE IF i <= 4 THEN {"attachment"} ELSE {"request"}]]

Lasting(n, at, end, bad) ==
  [at |-> at, end |-> end, status |-> IF bad THEN "ERROR" ELSE "SUCCESS", events |-> Happened(n, at, end, bad)]

Completing ==
  [id |-> 1, protocol |-> 1, r1 |-> Lasting(10, 110, 111, FALSE), r2 |-> Lasting(6, 112, 113, FALSE),
   r1Request |-> "WAITING_RESULT", r1Processing |-> "WAITING_RESULT", r1Upload |-> "SUCCESS", r1UploadAt |-> TRUE,
   request |-> "COMPLETED", failure |-> FALSE, completed |-> 113, processing |-> "COMPLETED",
   download |-> "DOWNLOADED", downloadAt |-> TRUE, returned |-> TRUE]

FailingInR1 ==
  [Completing EXCEPT !.id = 2, !.protocol = 2, !.r1 = Lasting(11, 117, 119, TRUE), !.r2 = NoRun,
     !.r1Request = "FAILED", !.r1Processing = "ERROR", !.r1Upload = "ERROR", !.r1UploadAt = FALSE,
     !.request = "FAILED", !.failure = TRUE, !.completed = 0, !.processing = "ERROR",
     !.download = "NOT_AVAILABLE", !.downloadAt = FALSE, !.returned = FALSE]

MCDirectories == {<<Completing, FailingInR1>>, <<FailingInR1, FailingInR1>>}

MCClocks == {121, 126, 732}

Asked(named, selector, operation) ==
  [named |-> named, selector |-> selector, operation |-> operation, run |-> "any", latest |-> FALSE,
   month |-> 0, year |-> 0, scoped |-> FALSE, vague |-> FALSE, allowed |-> TRUE]

MCQuestions ==
  {Asked({}, 0, "none"), Asked({1}, 0, "none"), Asked({}, 2, "PROTOCOL_STATUS"),
   [Asked({}, 2, "EXECUTION_FAILURE") EXCEPT !.run = "R1"],
   [Asked({}, 0, "none") EXCEPT !.latest = TRUE], [Asked({}, 0, "none") EXCEPT !.latest = TRUE, !.month = 2],
   [Asked({}, 0, "none") EXCEPT !.latest = TRUE, !.scoped = TRUE],
   [Asked({}, 0, "none") EXCEPT !.vague = TRUE], [Asked({}, 0, "none") EXCEPT !.allowed = FALSE]}

Counting(grain, time) ==
  [grain |-> grain, metric |-> "COUNT", time |-> time, basis |-> "none", outcome |-> "any", status |-> "any",
   robot |-> "any", ordering |-> "none", groups |-> {}, limit |-> 5]

Expressions ==
  {[AllTime EXCEPT !.kind = k] : k \in {"ALL_TIME", "TODAY", "YESTERDAY", "THIS_WEEK", "LAST_WEEK", "THIS_MONTH", "LAST_MONTH"}}
    \cup {[AllTime EXCEPT !.kind = "LAST_N_DAYS", !.days = 4],
          [AllTime EXCEPT !.kind = "CALENDAR_MONTH", !.month = 2],
          [AllTime EXCEPT !.kind = "CALENDAR_MONTH", !.month = 12, !.year = 2024],
          [AllTime EXCEPT !.kind = "BETWEEN_DATES", !.from = 55, !.to = 56],
          [AllTime EXCEPT !.kind = "BEFORE_DATE", !.from = 56],
          [AllTime EXCEPT !.kind = "AFTER_DATE", !.from = 56]}

MCReplies ==
  {AnalyticsPlan(Counting("EXECUTION", e)) : e \in Expressions}
    \cup {AnalyticsPlan([Counting("PROTOCOL", [AllTime EXCEPT !.kind = "THIS_WEEK"]) EXCEPT !.groups = {"OUTCOME"}]),
          AnalyticsPlan([Counting("EVENT", AllTime) EXCEPT !.status = "ERROR"]),
          AnalyticsPlan([Counting("PROTOCOL", AllTime) EXCEPT !.metric = "LAST"]),
          AnalyticsPlan([Counting("PROTOCOL", AllTime) EXCEPT !.metric = "COUNT", !.robot = "R1"]),
          Plan("CLARIFICATION_REQUIRED", 0, {}),
          Plan("PROTOCOL_STATUS", 2, {}), Plan("PROTOCOL_TIMELINE", 2, {"EXECUTION_TIMELINE", "EMAIL_ATTACHMENTS"}),
          Plan("RECENT_PROTOCOLS", 0, {}), [Plan("LATEST_PROTOCOL", 0, {}) EXCEPT !.order = "LAST_EXECUTION_AT"]}

-----------------------------------------------------------------------------
(* Evaluation: a dataset with a case of each class, an older one, one that *)
(* repeats a case; a suite of each kind of scenario, and one not declared. *)

Judged(n, behavior, paths, claims) ==
  [id |-> n, behavior |-> behavior, sources |-> paths, claims |-> claims, secret |-> FALSE,
   evidence |-> paths # {}, audit |-> "none"]

Fetched(path, section, known) == [path |-> path, section |-> section, known |-> known]

MCDatasets ==
  LET rule == Judged(1, "answer", {"pdd"}, {[sources |-> {"pdd"}, sections |-> {"rules"}]})
      compared == Judged(2, "compare_rule_to_observed_state", {"pdd"}, {})
      secret == [Judged(3, "security_violation_alert", {}, {}) EXCEPT !.secret = TRUE, !.audit = "SENSITIVE_ACCESS_REQUEST"]
      nothing == Judged(4, "insufficient_evidence", {}, {})
      all == [version |-> "1.1", cases |-> <<rule, compared, secret, nothing>>, topK |-> 1, top |-> 90, provenance |-> 90]
  IN {all, [all EXCEPT !.version = "1.0", !.cases = <<compared, [secret EXCEPT !.secret = FALSE]>>],
      [all EXCEPT !.cases = <<rule, rule, secret, nothing>>]}

MCSearches ==
  {<<>>, <<Fetched("pdd", "rules", TRUE)>>, <<Fetched("pdd", "other", TRUE)>>,
   <<Fetched("sdd", "rules", FALSE), Fetched("pdd", "rules", TRUE)>>}

MCBlocks ==
  {[blocked |-> TRUE, types |-> {"SECRET_REQUEST"}, removed |-> r, called |-> c] : r \in BOOLEAN, c \in {{}, {"retrieval"}}}
    \cup {[blocked |-> FALSE, types |-> {}, removed |-> FALSE, called |-> {"retrieval"}],
          [blocked |-> TRUE, types |-> {}, removed |-> FALSE, called |-> {}]}

Exchanged(route, calls) ==
  [ok |-> TRUE, route |-> route, calls |-> calls, support |-> "none", facts |-> FALSE, mixed |-> FALSE, audited |-> FALSE]

MCExchanges ==
  {Exchanged("KNOWLEDGE", <<"knowledge">>), Exchanged("KNOWLEDGE", <<"knowledge", "web">>),
   [Exchanged("CUSTOMER_SUPPORT", <<"support", "lookup", "inspect">>) EXCEPT !.support = "other", !.facts = TRUE],
   [Exchanged("CUSTOMER_SUPPORT", <<"support">>) EXCEPT !.support = "UNAUTHORIZED"],
   [Exchanged("SECURITY_BLOCK", <<>>) EXCEPT !.audited = TRUE]}

Declared(n, route, caps, tools) ==
  [id |-> n, route |-> route, caps |-> caps, tools |-> tools, guard |-> "normal", fresh |-> FALSE, rag |-> TRUE,
   expects |-> {}, forbidden |-> {}, turns |-> <<>>]

MCSuites ==
  LET fallback == [Declared(1, "knowledge", {"web_search_if_rag_insufficient", "approved_public_getnet_rag"},
                            {"public_rag", "public_web_search_if_needed"}) EXCEPT !.forbidden = {"operational"}]
      records == [Declared(2, "customer_support", {}, {}) EXCEPT
                    !.expects = {"lookup", "inspect"}, !.forbidden = {"public_web", "public_rag", "fabrication"}]
      block == [Declared(3, "security_block", {"security_guardrail", "redaction", "security_audit"}, {"security_audit"})
                  EXCEPT !.guard = "block_redact_and_audit"]
      handoff == [Declared(4, "customer_support_to_human_escalation",
                           {"human_escalation_offer", "user_confirmation_check", "minimum_context_handoff",
                            "automation_suspension"}, {"human_escalation"}) EXCEPT
                    !.expects = {"lookup", "inspect"}, !.turns = <<"customer_support_agent", "human_escalation_agent">>]
  IN {<<fallback, block>>, <<records>>, <<handoff>>, <<[fallback EXCEPT !.tools = {}]>>}

-----------------------------------------------------------------------------
(* The subjects: two publishers, or one and a question; two runners of the *)
(* seed, or one and an inquiry; the sessions of a browser; an evaluation.  *)

\* Files differ in one document and the page, and not where the registry is refused.
FewFiles ==
  /\ file["sdd"] = <<Para(1)>>
  /\ Eligible = {} => file["pdd"] = Sectioned /\ file["page"] = <<Para(1)>>

\* One file of each kind, so that a scope holds more chunks than a channel's limit.
EmptyBase ==
  /\ registry = [policy |-> TRUE, entries |-> <<PageEntry(TRUE, TRUE)>>]
  /\ file = [d \in Docs |-> IF d = "pdd" THEN Sectioned ELSE <<Para(1)>>]
  /\ source = [s \in Sources |-> "absent"] /\ document = [d \in Docs |-> Absent]
  /\ chunk = [d \in Docs |-> {}] /\ runs = {} /\ job = [p \in Publishers |-> Idle]
  /\ jobs = 0 /\ edits = 0 /\ question = NoQuestion

Init ==
  /\ SupportInit /\ SessionsInit /\ EvaluationInit
  /\ \/ subject = "publishing" /\ AnswersInit /\ FewFiles
     \/ subject \in {"knowledge", "seeding", "operations", "sessions", "evaluation"} /\ EmptyBase

Beside == <<sessionsVars, evaluationVars>>

Next ==
  /\ UNCHANGED subject
  /\ \/ subject = "publishing" /\ RagNext /\ UNCHANGED <<question, supportVars, Beside>>
     \/ /\ subject = "knowledge"
        /\ Answering \/ ((Edit \/ PublisherStep(p1)) /\ UNCHANGED question)
        /\ UNCHANGED <<supportVars, Beside>>
     \/ subject = "seeding" /\ OpsNext /\ UNCHANGED <<answersVars, inquiry, Beside>>
     \/ /\ subject = "operations"
        /\ Supporting \/ (RunnerStep(r1) /\ UNCHANGED inquiry)
        /\ UNCHANGED <<answersVars, Beside>>
     \/ subject = "sessions" /\ SessionsNext /\ UNCHANGED <<answersVars, supportVars, evaluationVars>>
     \/ subject = "evaluation" /\ EvaluationNext /\ UNCHANGED <<answersVars, supportVars, sessionsVars>>

Spec == Init /\ [][Next]_<<subject, answersVars, supportVars, Beside>>

ServicesTypeOK == AnswersTypeOK /\ SupportTypeOK /\ SessionsTypeOK

=============================================================================
