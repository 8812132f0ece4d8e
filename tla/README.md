# Getnet Support: a verification project

The repository is a customer-support product: a Django portal
(`src/apps/web_portal`) in which clients chat, operators answer and
administrators supervise, and a FastAPI agent (`src/apps/agent_api`) that
answers a client's turn with retrieval, tools and a language model.  This
directory holds TLA+ models of the parts whose correctness depends on order and
concurrency, the TLC runs that check them on small instances, and theorems that
TLAPS proves for every instance.

`tlc -config <run>.cfg <MC module>` repeats a run and `tlapm <module>_proofs.tla`
a proof; `PROJECT.json` lists both, with the source lines each definition stands
for.

## 1. Inventory

| Component | State it keeps | Operations | Talks to |
|---|---|---|---|
| Client chat (`conversations/`) | `conversations`, `messages` rows; retry offers and debug turn in the session | new thread, message, retry, views | agent API by HTTP; human support |
| Human support (`support/`) | `support_handoffs` row of a conversation, its status, `SYSTEM` and `SUPPORT_AGENT` messages | request, claim, post, finalize, queue reads | escalation endpoint of the agent, inside the transaction |
| Administration of conversations (`admin_portal/conversation_services.py`) | conversation status, saved status, tombstone | block, unblock, soft delete | rows of human support and accounts |
| Accounts (`accounts/services.py`) | `users` rows, Django sessions | create, activate, deactivate, change role, set password, bootstrap | advisory lock; reads support assignments |
| Password reset (`accounts/password_reset_services.py`) | `password_reset_requests` | request, resolve, reject | accounts |
| Session policy (`accounts/session_policy.py`) | activity and authentication clocks in the session | revalidate, expire, touch | every browser request |
| Agent transport (`integrations/`) | none | at most two attempts a call | agent API |
| Escalation agent (`agents/human_escalation.py`) | none: the state is in the request | offer, confirm, accept, return, resolve | portal |
| Orchestration (`agents/orchestration.py`, `chat.py`, `main.py`) | one workflow state per request | audit, route, specialist, output gate | specialists, audit database |
| Specialists (`agents/*`) | one state per request | knowledge, OPS analytics, customer support, web | repositories, providers |
| RAG publication (`rag/publication`, `rag/ingestion`) | documents, versions, chunks | fetch, validate, chunk, prepare, publish | PostgreSQL, embedding model |
| RAG retrieval (`rag/retrieval`, `ranking`, `grounding`) | none | hybrid search, fusion, context building | PostgreSQL in one snapshot |
| Audit and telemetry (`security/`, `telemetry*.py`) | audit rows; a bounded event list | record, collect, present | orchestration, dashboards |
| OPS repositories and tools (`database/repositories/operational.py`, `tools/operational.py`) | `ops` schema: requests, e-mails, attachments, establishments, runs, log | read a case, its failures, recent ones, an analysis | PostgreSQL |
| OPS seed (`database/seed/ops`) | the rows it inserts | discover and validate scenarios, execute each in one transaction | OPS repositories |
| Evaluation (`evaluation/`) | the report of a run | load contracts, run cases and scenarios, measure, decide | retrieval, router, API |
| Command line (`scripts/`) | none, but for the text client's context | publish, inspect, chat, evaluate | all of the above |

**How they interact.** Requests of many users run in parallel processes against
one PostgreSQL database at READ COMMITTED.  Conversation services lock the
conversation row, then the handoff row.  Administrative services lock the
administrator's row first and, to restore a HUMAN conversation, the operator's
row last.  Identity services take one advisory lock and then the target's row.
An inserted or updated foreign key takes a share lock on the referenced user at
commit, because Django declares its foreign keys deferred.  Human support calls
the escalation endpoint with the conversation locked; an automated turn calls
the agent with nothing locked.

**What is hard, and which properties answer it.**

* *Checks across a remote call or an unlocked read*: claim, finalize and request
  check, call, then write; the role of the actor is read once without a lock.
  `CheckStillHolds`, `NoDemotionDuringAssignment`, `HumanOwnerIsActiveAgent`.
* *Two rows that must agree*: conversation and handoff change together in seven
  services. `RowsAgree`, `ImplementsLifecycle`.
* *Lock order*: user rows are locked first by some services and last by others.
  `CyclesNeedPromotedOperator`, `EveryRequestEnds`.
* *Removing administrators concurrently*: `SomeActiveAdmin`.
* *A turn answered late, twice, or by competing attempts*: `ImplementsPromise`,
  `CompletedIffAnswered`, `TurnIsSettled`.
* *A session loaded early and written back late*: `AdvisedRetryIsOffered`,
  `RevokedStaysRevoked`.
* *Reset requests submitted and decided concurrently*: `OneOpenPerAccount`,
  `ResolvedOnce`, `CreatedForActive`, `ResolverIsAdmin`, `NoWaitCycle`.
* *Accounts created and logged in while roles change*: `AdminsMakeAdmins`,
  `FlagsFollowRole`.
* *Audit written before the reply, with commits that may not be acknowledged*:
  `AuditedBeforeReply`, `AuditIsWhole`.
* *A request that takes an unusual way through the workflow graph*:
  `BlockedTouchesNothing`, `NothingUnreviewed`, `OperationsStayInside`,
  `HumanOwnedGetsNoAutomation`, `ProviderFailureIsExplained`.
* *A call repeated while its first attempt still runs*: `ResendsOnlyAfterRefusal`,
  `EverythingEnds`.

* *A document published by several processes, edited between load and write, or
  left half way by one that dies*: `WholeDocuments`.
* *A retrieval of two statements with a publication between them*:
  `OneVersionOfEach`.
* *Two seed runners that find the same protocol missing*: `CasesAreWhole`.
* *Rounds of investigation in which the model may name another protocol, and
  repetitions that must end*: `NamedCaseOnly`, `ServicesTypeOK`.
* *Calendar intervals at midnight, at the turn of a month or a year*:
  `TotalsMeanTheirWords`.
* *Deadlines of a session whose requests overlap and write all of it back*:
  `LetInInTime`.
* *A report of an evaluation in which cases failed, or measured nothing*:
  `PassIsEarned`.

The complete list, each at its line, is `hazards` in `PROJECT.json`.

## 2. Plan

1. **Done.** `PortalTypes`, `ConversationLifecycle` (abstract), `SupportDesk`
   (detailed, implements it) and their proofs.
2. **Done.** `TurnPromise` (abstract), `AgentTurns` (detailed, composed with the
   actions of `ConversationLifecycle` as its environment) and `AgentTurns_proofs`.
3. **Done.** `Accounts`: identity services, bootstrap, the reset desk, logins and
   sessions, and `Accounts_proofs`.
4. **Done.** `HumanEscalation` (the typed transition table), `Orchestration` (one
   request to the agent API), `ChatCall` (the portal's bounded retry around it)
   and `Orchestration_proofs`.
5. **Done.** `Sessions`: the two deadlines of a session on a clock.
6. **Done.** `RagPublication` (publishers of the knowledge base) and `RagAnswers`,
   which composes it with retrieval, fusion, grounding and generation, and
   `Knowledge_proofs`.
7. **Done.** `OperationalTime` (the calendar of an analysis), `OpsTables` (the OPS
   rows and the seed runners) and `CustomerSupport`, which composes both with the
   investigation of a question.
8. **Done.** `Evaluation`, over the transition table of `HumanEscalation`.
9. **Done.** `Services_proofs`: the theorems of 5, 7 and 8.
10. **Done.** Every invariant that a run checks is also a theorem, from an inductive
   invariant of its own.
11. **Next.** The part of the liveness claims that is safety: that a step of a
   request brings it nearer its end (a rank that decreases), and that where no wait
   cycle is, some worker is not waiting.  The claims themselves stay with TLC.

Each component is an abstract promise where there is one worth stating, a
detailed module with one action per operation, an MC module, and proofs in a
module of its own.

## 3. The support desk

### What is modelled

`ConversationLifecycle` says what may happen to a conversation and its handoff
as single committed steps: `Confirm`, `Accept`, `Resolve`, `Block`, `Unblock`,
`SoftDelete`.  There is no way from HUMAN back to ACTIVE and no second handoff.

`SupportDesk` models the services as transactions.  A *worker* runs one request
at a time; `pc` is the next lock or call of the service and `job` its arguments.

| Stage | Code |
|---|---|
| `StartPersonal` | `_current_user` of `support/services.py`: actor read without a lock |
| `StartControl`, `LockAdmin` | `_current_admin(actor, lock=True)` |
| `LockConversation` | `select_for_update` and every check up to the remote call or write; a replay, refusal or conflict ends the transaction |
| `Transition` | `transition_human_escalation`: allowed, or any failure |
| `LockAssignee` | the operator's row in `_assert_valid_restoration` |
| `TakeIdentityLock`, `LockTarget` | `_identity_transaction`, `_load_target` and the checks of activate, deactivate, change role |
| `Commit...` | all writes of the service and the release of its locks |
| `AbortDeadlocked`, `Fail` | PostgreSQL breaks a wait cycle; an error, a lost connection or the end of the process rolls back |

The handoff row is locked only under its conversation's lock, so `convLock`
stands for both.  Writes become visible at commit (READ COMMITTED).  A foreign
key to the actor makes `claim`, `post` and `finalize` wait at commit for whoever
holds the actor's row (`ReadyToCommit`); `delete` refers to the administrator it
already holds.

A request by a user whose *session* is older than a role change is represented
by the first step of `Start...`: the model starts a request in any state in which
the role is right and lets anything happen before the next step.

### Runs

| Run | Instance | Shows | Distinct states |
|---|---|---|---|
| `SupportDeskTrio` | 3 workers; client, operator who may be promoted, administrator; 1 conversation, all operations | types, rows agree, checks survive, one decision at a time, only the owner posts, shape of deadlocks, refinement, demotion and restoration rules | 232,663 |
| `SupportDeskDuo` | 2 workers, no symmetry, fairness; identity operations on the operator and the administrators | an active administrator remains; every request ends | 240,066 |
| `SupportDeskRace` | 2 workers | **violated**: finding 1 | - |

*Bounds.* `Workers`: three requests are the fewest in which a wait cycle of two
can be observed by a third and in which two claimants meet an administrator; two
are enough for two administrators to remove each other.  One conversation is
enough for the per-conversation properties, since a transaction touches one
conversation; the theorems below cover any number.  `Targets` and `NewRoles`
limit identity operations to the accounts the question is about.  Workers are
symmetric in the safety runs only.

*Fairness.* `FairSpec` asks strong fairness of each worker's own steps: a step
waiting for a lock is enabled again and again, PostgreSQL queues lock waiters,
HTTP calls have timeouts, and the deadlock detector always runs.  Nothing is
assumed about new requests or failures.

### What is proved

For any number of users, workers and conversations (`SupportDesk_proofs`,
`SupportDeskAccounts_proofs`, `ConversationLifecycle_proofs`):

* `DeskTypeOK`, `DeskCheckStillHolds`, `DeskOneDecision`: from the inductive
  invariant `IInv == TypeOK /\ JobShape /\ Exclusive /\ CheckStillHolds`.
  `CheckStillHolds` alone is not inductive: another worker could commit to the
  same conversation.  `Exclusive` adds that a worker past its checks holds that
  conversation's lock, so whoever commits holds another one.
* `DeskImplementsLifecycle`: every step is a step of `ConversationLifecycle` or
  leaves its variables alone; a commit's abstract guard is its earlier check.
* `DeskPostsOnlyByOwner`: the only commit that adds a message still has its check.
* `DeskRowsAgree`: inherited from `LifecycleRowsAgree` through the refinement, so
  the agreement is proved on the small abstract module only.
* `DeskNoDemotionDuringAssignment`, `DeskRestoredOwnerIsEligible`,
  `DeskSomeActiveAdmin`: from `AInv`.  An identity operation about to commit
  holds its target's row and the advisory lock (`TargetHeld`); whoever makes a
  conversation HUMAN for that target needs that row, the claim for its foreign
  key and the unblock explicitly (`AssignmentNeedsOperator`); so what the
  operation found stays true (`TargetUnassigned`, `AdminRemains`).
  `DeskSomeActiveAdmin` assumes that somebody is an administrator initially.

* `DeskCyclesNeedPromotedOperator`: from `LInv`, which says which locks each stage
  explains (`Explained`).  Each worker of a cycle waits at a stage that the locks
  held by the others allow (`StagesOfCycle`): an identity operation that waits
  holds at most the advisory lock, and a conversation's transaction at most its
  conversation, so somebody in the cycle holds a user row and waits.  That is a
  control operation, and its row is wanted as an operator's.

Assumptions: `LifecycleAssumption` and `DeskAssumption` (the null value is none of
the users, workers, conversations, roles or statuses, and the constants have
their types).  TLC evaluates both in every run.

Only model-checked: `EveryRequestEnds`; liveness under fairness is beyond the
prover.

*What the proof corrected.*  `CyclesNeedPromotedOperator` once said that every
worker of a cycle waits for a promoted operator, or is such an operator's control
operation.  On the instance of `SupportDeskTrio` it is so; with three workers and
two conversations there is a cycle through two promoted operators of whom one is
needed.  It now says that some pair of the cycle is as described.

## 4. Automated turns

`TurnPromise` says what a client may rely on: a kept message gets at most one
automated answer, the answer never changes, and no message is answered after its
conversation was handed over.

`AgentTurns` models the client's requests through the portal: the session is
loaded when a request arrives (`Arrive`), the thread or message is persisted in
one transaction (`Create`, `Persist`), the turn is prepared in another
(`Prepare`), the agent is called with no transaction open (`Call`), and the
outcome is recorded in a third (`AppendAnswer`, `MarkFailed`); `SaveSession` writes
the session back.  The view decides on the conversation status it read before
(`seen`).  A message recognised as a wish for a person goes to `HandToHuman`
instead.  `Elsewhere` lets operators and administrators take any step of
`ConversationLifecycle`; that the real services take only those steps is the
refinement proved for the desk.  With `Faults`, any statement may fail and any
process die between two transactions.

| Run | Instance | Shows | Distinct states |
|---|---|---|---|
| `AgentTurnsThread` | a thread of 2 messages, the second a wish for a person; 2 requests, 2 possible answers, `RetryCap` 1 | types and the bound on offers; COMPLETED exactly with an answer; implements `TurnPromise` | 252,144 |
| `AgentTurnsLive` | 1 message, 2 requests, no faults, fairness | attempts settle their turn | 71,039 |
| `AgentTurnsTabs` | 2 threads of one client, no faults | **violated**: finding 2 | - |

*Bounds.* Two requests allow two attempts to race, and an attempt to race a view
or a replay that writes the session; two answers tell a changed answer from a
repeated one; `RetryCap` is 20 in the code and 1 in the run in which the cap must
be reached.  The finding's run keeps 20, so the cap is not what loses the offer.

*Fairness.* Weak fairness of each request's steps: no step needs anything from
another request, and the call has a timeout.  `TurnIsSettled` is about attempts
that are running and a conversation that stays ACTIVE.  A crash leaves a turn
PENDING for good, since nothing in the code takes up a PENDING turn again without
the client; so does a conversation that was blocked when the turn was prepared.

### What is proved

`AgentTurns_proofs` proves every safety property of these runs for any number of
conversations, messages, answers, clients' pages and requests, any `RetryCap`,
with faults or without:

* `TurnsTypeOK`: of the list of retry offers a request carries (`Short`), that
  withdrawing and offering keep it short and without repetition (`WithdrawIsShort`,
  `OfferIsShort`).
* `TurnsCompletedIffAnswered`, from the invariant `TInv`: what a request works on
  was kept, and it carries an answer when it appends one (`Standing`).
* `TurnsImplementPromise`: every step is a step of `TurnPromise` or leaves its
  variables alone.  An answer is appended to an ACTIVE conversation, which by the
  agreement of its rows (`RowsAgree` of `ConversationLifecycle_proofs`) was never
  handed over.

Only model-checked: `TurnIsSettled`, which is liveness.

## 5. Accounts, sessions and the reset desk

`Accounts` models the identity services, the password-reset services and the
requests that open, use and end a session, with the same conventions as the desk:
a worker runs one request, `pc` is its next statement.

| Stage | Code |
|---|---|
| `StartForgot`, `LockRequester`, `LookUpOpenRequest`, `CommitForgot` | `request_password_reset`: the requester's row is locked, the OPEN request is looked up without a lock |
| `StartDecide`, `LockRequest` | `_current_admin` unlocked, `_locked_request`; the item must still be OPEN |
| `StartIdentity`, `StartCreate`, `StartBootstrap`, `TakeIdentityLock` | `_identity_transaction`: the advisory lock, then the actor is read again (a bootstrap looks for any ADMIN) |
| `LockTarget` | `_load_target` and the checks of each service; the sessions that will be deleted are collected here |
| `Commit...` | all writes of the service |
| `StartLogin`, `Stamp`, `OpenSession` | `authenticate`, the `last_login` save, the save of the new session: three separate transactions |
| `StartVisit`, `Verify`, `SavePage`, `Logout` | a request with a session cookie: load, check the account and the password hash, serve, write back |

A resolution holds the request's row, then the advisory lock, then the account's
row, and at commit it refers to the resolving administrator by a foreign key.
A rejection never reads its actor again; only resolutions do, so
`ResolverIsAdmin` is about those.

*Left out.* That a deactivation or role change refuses for an open support
assignment is modelled in `SupportDesk`; here it is one of the failures.  The two
deadlines of a session are the subject of `Sessions` (section 7).  Password validation may
refuse anything, which `MaxVersion` and `Fail` stand for.

| Run | Instance | Shows | Distinct states |
|---|---|---|---|
| `AccountsDesk` | 2 accounts from an empty table, 2 workers, 2 reset requests, 1 session key, all operations | types; one OPEN request per account; one outcome per request; no wait cycle; who makes administrators; revoked sessions stay revoked | 764,150 |
| `AccountsFlags` | 2 administrators, 2 workers, no resets | **violated**: finding 3 | - |

*Bounds.* Two requests in progress are what every one of these properties is
about; two reset rows are the fewest with which an account can have two OPEN ones
or a second request after a decision.  One password change (`MaxVersion`) tells a
session opened before it from one opened after.  `Targets` limits resets and
identity operations to one account, while both can be created, log in and act.
Workers, reset rows and keys are symmetric in every property.

### What is proved

`Accounts_proofs` proves every property of `AccountsDesk` for any number of users,
reset requests, session keys, workers and password changes, assuming only
`AccountsAssumption` (the null value is none of the others; the constants have
their types).

The inductive invariant `IInv` says of each worker (`Settled`): its request names
what its operation works on and fits its stage (`Shaped`); the rows it named are
still there, or still new (`Known`); whatever it checked is still true and its
locks are still held (`Secured`); and it holds a lock only at the stages that
follow taking it (`Owns`).  Globally, two requests never insert the same row
(`Distinct`), an active account exists, and two OPEN requests of an account are
the same one (`SameOpen`).  `OneOpenPerAccount` alone is not inductive: a
submission that is about to insert must still find none, which holds because any
other submission for the account needs the row it has locked.  `Entitled` and
`AdmitsIdentity` stay true because roles, activations and passwords change only
under the advisory lock (`Effects`).

* `AccountsOneOpen`, `AccountsCreatedForActive`, `AccountsResolvedOnce`,
  `AccountsResolverIsAdmin`, `AccountsAdminsMakeAdmins`,
  `AccountsRevokedStaysRevoked`: each from `Secured` or `Known` of the worker that
  commits.
* `AccountsNoWaitCycle`: a worker that holds a lock and waits is further in the
  order request row, advisory lock, account row, foreign key of a resolution than
  who waits for it (`HolderIsFurther`); a cycle would be an endless climb through
  four ranks.

A case no property claims: a login that accepted the password before a
deactivation stores its session afterwards (`accounts/views.py:46`).  The next
request with it flushes it while the account is inactive, but it is served if the
account has been activated again first.

## 6. A request to the agent

### What is modelled

`Orchestration` follows one POST /chat from its authentication to its reply.  An
*execution* is one request inside the process; `stage` is the dependency, graph
node or step of `ChatApplicationService.handle` it is at, and a step ends where
the code awaits something.  What a pattern, a classifier, a search or a model
answers is left to chance within the typed values the code admits; what the code
does with the answer is translated.

| State | Code |
|---|---|
| `ready` | what `composition.py` composed at the start: everything, no web provider, no chat service, no service token |
| `ask` | the principal and body of the request; of its message, what the patterns find in it and whether it is a protocol lookup |
| `decision`, `result`, `status` | `RouterDecision`, the specialists' results in `OrchestrationState`, `OrchestrationStatus` |
| `carried`, `review` | whose answer and which typed results the `ChatResponse` holds, and what `_apply_output_security` did with it |
| `written`, `audit` | the rows inserted by the open transaction, and the table `security_events` |
| `reply` | the HTTP status |

| Stage | Code |
|---|---|
| `Admit` | `authenticate_internal_service`, `_execute_chat`, `_human_context` |
| `Screen`, `Classify`, `GraphFails` | `route_async`: patterns, semantic screen, intent; an exception ends the graph |
| one action per node | the nodes of `_build_graph`; the `After...` operators are its conditional edges |
| `SecurityTerminal`, `InsertEvent`, `CommitEvents`, `RecordingFails` | `record_many` in one transaction; a commit may happen without being acknowledged |
| `Respond` | `_response` and `_recovery_kind` |
| `Gate` | `_apply_output_security`, then the audit of its intervention, then the reply |
| `Restart` | the process dies between any two steps and composes again |

`HumanEscalation` is the table of transitions the `human` node applies.
`ChatCall` adds the portal's client: `Deliver` starts an execution, `Hear` takes
its reply, `StopsWaiting` is a timeout or a lost connection, after which the
execution goes on.  A 503 and a refused connection are retried once; a client
may send the turn again after a retryable outcome.  Other callers send requests
of any kind (`Other`).

### Runs

| Run | Instance | Shows | Distinct states |
|---|---|---|---|
| `ChatRoutes` | 1 execution, 16 kinds of request of the portal and of other callers, 2 event types, restarts, fairness | types; audit before reply; blocked requests; review of the output; operational records; conversations a person owns; every execution and every call ends | 427,354 |
| `ChatTurn` | 2 executions, 3 kinds of turn, restarts | events are whole; a call resends only after a refusal | 1,332,055 |
| `ChatEmptyAnswer` | 1 execution | **violated**: finding 4 | - |

*Bounds.* Executions share nothing but the audit table, where each has rows of
its own, so one execution shows what a request does; two are what a call can
start, and the theorems cover any number.  Two event types are the fewest whose
transaction can be cut in half.  One turn is sent, again after each retryable
outcome until `Executions` deliveries were made.  The requests (`AnyRequest` in
`MCChatCall`) cover every refusal of admission, every owner and action of the
escalation that reaches the graph differently, and every deterministic branch of
the router.

*Fairness.* `FairSpec` asks weak fairness of each execution's steps and of the
call: the HTTP client, the providers and the database have timeouts, and the
graph has no cycle.  Nothing is assumed of arrivals or restarts.

### What is proved

`Orchestration_proofs` proves every safety property of these runs for any number
of requests, executions and event types, any caller, and with restarts allowed or
not, assuming that requests are well formed (`AsksAssumption`), the two null
values are not event types, and for the call that executions are numbered.

The invariant `APIInv` is one conjunction per execution (`ExecutionOK`), since a
step of one leaves all of another as it was (`OthersAreTheSame`, `SameKeeps`).
It says what has not happened yet at each stage (`FreshUntilRouted`,
`UnreviewedUntilGate`), that a block never leaves its path (`BlockedPath`), that
events appear at once and where (`AuditPath`), what the gate has cleared while
the intervention is recorded (`ReviewPath`), from which nodes operational results
may be present (`OperationsPath`), and where a conversation a person owns may go
(`OwnedPath`).  None of the properties is inductive alone: that a 200 follows its
events, for instance, needs that a block reaches the gate only with
`SECURITY_BLOCKED` and its events or with `SECURITY_AUDIT_UNAVAILABLE`.

`CallersUseAPI` shows that the composition takes only the API's steps, so the
theorems about `APISpec` hold of it; `CallResendsOnlyAfterRefusal` adds that
executions are started in order (`CallShape`).

Only model-checked: `EverythingEnds`.

*Left out.* Bodies that fail validation (422) and replies of 200 whose body does
not parse; the debug endpoint and its fallback; the transition endpoint and the
dashboards; how patterns recognise a message; that the reviewer sees the first
12,000 characters of a response.  A 503 that is sent again may repeat what a
provider already did, which `docs/specs/phase-12/09-django-fastapi-integration-spec.md` accepts.

## 7. The services beside the chat

Four services share no state with the chat or with one another.  `MCServices`
checks them in one run: `subject` names the one that a behaviour runs, and the
others keep one initial state.  A service may stop where it is, with its bounds
used up, so the run does not check deadlock.

### The knowledge base

`RagPublication` is the schema `rag` and the processes of the command line that
publish into it.

| Action | Code |
|---|---|
| `Publish` | `publish_curated_corpus`, `publish_r2_curated_corpus`, the loop of `publish-public-registry` over the eligible entries of the registry it loaded |
| `Redirected`, `Acquired` | `PublicSourceFetcher.fetch`: two redirects at most, a page that is usable |
| `FindSource`, `Register` | the lookup by reference, and `register_source` |
| `Load`, `Prepare` | the loader; `IngestionPreparationService.prepare`: INGEST, REINGEST or SKIPPED_UNCHANGED from the rows stored *now* |
| `Skip`, `OpenRun`, `Save`, `Commit` | `RAGPublicationService.publish`: another transaction, up to the first row it locks and up to its commit |
| `Fails` | any refusal, error or the end of the process |
| `Edit`, `Withdraw` | hands outside the program: a file or page changes, a row is made INACTIVE |

A paragraph is a record of whether it is a heading and how long it is; `Parts` is
the chunker, `ResolveDocumentType` the type given to the document.

`RagAnswers` adds the reader.  `Lexical` is the first statement of the retrieval
and fixes its snapshot; `Semantic` is the second, after which `Fuse` (reciprocal
ranks, exact fractions) and `Ground` (tiers) are applied to what both found.  A
channel may list its candidates in any order.  `Generate` is a model that may cite
anything, and the validation of its citations.  `AskWeb` and `Search` are the
public-page path of `WebKnowledgeAgent`, which reads no tables.

### Operations

`OpsTables` keeps committed cases: a row of `service_requests` with the rows that
belong to it.  A runner discovers and validates a directory (`Seed`, `Loads`),
looks its protocol up (`Find`), inserts the unique number (`OpenRequest`, which
waits for another that inserted it) and finishes and commits (`FinishCase`); or
anything fails (`Abandon`).  `Received`, `AfterR1` and `Finished` are the writes
of `execute_ops_scenario`, in order.

`CustomerSupport` answers one question.  `Ask` is everything decided before the
model is asked; `PlanReplies` is one call of the planner with the validation,
repetition and fallback around it and the plan's rewriting (`Normalized`,
`Directed`, `ByExecution`, `Clarified`); `Investigate`, `LookUp`, `Discover`,
`Analyse`, `Detail` are the tool calls and `ToolFails` their failure;
`Synthesize` and `Cooperate` are the words.  An investigation returns to the
planner for at most three rounds.  `OperationalTime` has the twelve time
expressions twice: `Resolve`, as the resolver computes half-open intervals, and
`Means`, what the expression says of a day, which the code never computes.

### Sessions

`Sessions` is the clock of one browser.  `Login`, `Expire`, `Admit`, `Respond`,
`WriteBack` and `Logout` are the steps of a request through the framework's
session middleware and `session_policy.py`: load, compare, serve, move the
activity clock of a reply that is no error, and write all of the session back.
`stored.expires` is the expiry of the row.  The technical AdminSite logs in
without the clocks, which start at its first page.

### Evaluation

`Evaluation` loads and validates the contracts (`LoadContracts`), runs each case
(`RunRetrieval`, `RunSecurity`, or `CaseErrs`), each scenario (`RunScenario`;
`RunFails` when it raises) and makes the report (`Report`).  What retrieval, the
router and /chat do is left to chance.  The scenario that hands over to a person
calls `Transition` of `HumanEscalation`, the module `Orchestration` also uses.

### The run

`Services`: 861,814 distinct states.

| Subject | Instance | Shows | Distinct states |
|---|---|---|---|
| publishing | 2 publishers, two documents of a robot and a public page, 4 registries; 2 publications, 1 edit | `WholeDocuments` | 108,284 |
| knowledge | 1 publisher and a question; `Limit` 2, `TopK` 4 | `OneVersionOfEach` | 71,218 |
| seeding | 2 runners, a scenario that completes and one that R1 fails; 3 executions | `CasesAreWhole` | 1,216 |
| operations | 1 runner and a question; 9 questions, 22 replies of the planner, 3 moments | `NamedCaseOnly`, `TotalsMeanTheirWords`, bounded calls and reads | 233,325 |
| sessions | 2 requests, limits 2 and 3, clock to 7, 1 login | `LetInInTime` | 370,648 |
| evaluation | 3 datasets, 4 suites, 1 document in the manifest | `PassIsEarned` | 77,123 |

*Bounds.* Two publications of one document are the fewest that can overlap, and
one edit tells the version loaded from the one stored; `MaxChars` 2 makes a
document of several chunks.  `Limit` 2 is below the number of chunks in scope, so
the two channels can differ.  `MaxSeeds` 3 lets two runners meet and one go on.
The three moments (`MCClocks`) are a midnight, a later one in the same first
months, and the first of January after a leap year, with half days (`Hours` 2) in
a calendar of two years.  `Inactivity` 2 and `Absolute` 3 are the smallest limits
that can be reached separately; 7 ticks are twice the absolute limit and one.
The datasets and suites hold a case of each class and a scenario of each kind,
and one of each that must be refused.

*What the properties rest on.*  `WholeDocuments`: the upsert of the document row
comes before its chunks are replaced, so the second publication waits and then
replaces what the first wrote.  `OneVersionOfEach`: the retrieval opens a read-only
REPEATABLE READ transaction.  `CasesAreWhole`: the unique protocol number.
`NamedCaseOnly`: a protocol the question names is put back in every plan.
`TotalsMeanTheirWords`: intervals are half-open in the business zone.
`LetInInTime`: a late write-back can only move the activity clock to a time at
which a page was really sent.  `PassIsEarned`: a rate counts those that failed to
run, and an empty one cannot be measured.

### What is proved

`Knowledge_proofs` and `Services_proofs` prove the properties of this run for any
number of publishers, documents, runners and requests, any files, scenarios,
questions, replies of the model and datasets, and any bounds.

* `RagWholeDocuments`, from `RagInv`: each document is one whole preparation, or
  absent without chunks (`IsWhole`), and a process that is about to write a content has
  the one it loaded (`Carries`), cut into chunks by `Parts`.  The serials of the
  documents have a bound (`SerialsBounded`), so their maximum exists and the next
  one is new.
* `AnswersOneVersionOfEach`, from `AnswersInv`: what the two statements found comes
  from one snapshot, which holds one version of each document (`Reads`).  Fusion,
  tiers and grounding select and reorder: the chunks of a content have the numbers
  0 to n - 1 once each (`OrdersNumber`), and ranks by a key number a finite set
  without gap or repetition (`RanksNumber`).
* `SessionsLetInInTime`, from `SessionsInv`: the clocks of a session began with its
  login, or with its first page (`Genuine`), and only a request that ends with a
  page has moved the activity clock past what the browser was served
  (`StoredClocks`, `HeldClocks`).  A session that was replaced may be written back,
  so the clocks are compared only of the latest (`Latest`).
* `OpsCasesAreWhole`, from `OpsInv`: a valid scenario makes a whole case
  (`WholeCase`, over the rows of its log one after the other), and whoever has
  inserted its protocol is the only one with it (`KeyIsHeld`).
* `SupportNamedCaseOnly`: an inquiry stays `Sound`: its plan names what its question
  names (`Named`, `Directs`), and each stage has spent no more calls and reads than
  lead to it (`Spent`), which bounds them.
* `EvaluationPassIsEarned`, from `EvaluationInv`: each stage follows the other when
  every case, and every scenario, has a result (`Progress`), each of the kind its
  case allows (`Observed`).  A rate of one over a finite set leaves nobody out
  (`RateOfOne`), so `OutcomeMeans` reads the report back into its results.
* `ServicesTypes`: the types of all of them, from the same invariants.
* `SupportTotalsMeanTheirWords`, from `TotalsInv`, for a calendar of any first year
  and length.  `MonthStartRule` shows that the recursive function of the calendar
  has a solution, built month by month; from it months are in order and every day is
  in exactly one.  `WindowsMeanTheirWords`: each of the twelve intervals holds a
  moment before the question exactly when the words mean it, and one that is
  refused means no such moment.  `StoredBefore`: every time that is stored is over
  when a question is asked; `Counted`: an inquiry's total is that of its words, from
  the moment the analysis is read until the answer.

Assumptions: the constants have the types the contracts, schemas and migrations
give them (`RagAssumption`, `OpsAssumption`, `TimeAssumption`, `SupportAssumption`,
`RepliesAssumption`, `SessionsAssumption`, `EvaluationAssumption`).
`ClocksAssumption` is of another kind: scenarios tell of the past (their times, and
those the seed gives, are before every question), and the calendar, which is
unbounded in the code, reaches to every question and to the months it may name.
`TotalsMeanTheirWords` needs it: the code ends "this month" at the moment of the
question, and would leave out a row dated later in it.  TLC evaluates all of them in
the run.

*What the proofs corrected.*  The bound on evidence in `AnswersTypeOK` is that of
the knowledge base only: public pages are cut by their own rule, and with `TopK` 1
an answer from two pages broke it.  `Fuse`, `Ground` and `GroundLive` are now
relations, sets of the lists their ordering rules allow; in every case the run
reaches they have one element.  A dataset and a suite have an entry each, as the
contracts say: without one, a report would come before any result.  The sessions
need no relation between the two limits.

*Noted while modelling; no property claims otherwise.*

* "latest status of protocol POC-OPS-0001" is planned as the latest protocol and
  the explicit one is not put back: `_normalize_latest_protocol_plan` decides first,
  while the comment at `customer_support.py:1049-1051` ("an authoritative selector")
  is about case investigations.
  `NamedCaseOnly` is about investigations of a case.
* The time basis of a protocol analysis that names none depends on its metric and
  grouping (`Basis`), so a count and a list of one period may differ; the latest
  protocol by creation is that of the row, not of its PROTOCOLO_CRIADO event.
* TODAY, THIS_WEEK and THIS_MONTH asked exactly at the midnight they begin at are
  empty intervals and answered as invalid input.
* A scenario that fails in R1 needs no ERROR event, and then has no time of
  outcome.  An event may name an entity that does not exist yet and is refused by
  a foreign key (`Resolvable`).
* A runner that loses the race for a protocol fails, and its remaining scenarios
  are not executed.
* `docs/project-context.md:1070` says that a failed ingestion records a run with
  ERROR.  The transaction that would hold the run is rolled back, and no other
  records it.  The run of a first ingestion names no document.
* A session of the AdminSite may last twice the absolute limit.
* With thresholds below 1, a case that raises takes its claims out of the rate of
  unsupported ones and the report may still say PASS; the insufficient-evidence
  rate is about a context built from nothing, so only an exception lowers it.

## 8. Findings

1. **A claim can outrun a demotion.**  `claim_handoff` reads its actor without a
   lock and commits after a remote call.  An administrator may deactivate or
   demote that operator in between: the check of assignments finds none yet.
   The conversation is then HUMAN with an owner who may neither post nor
   finalize, and `activate_user` refuses to bring the owner back because the
   assignment is open; block, activate, unblock recovers it.  The demotion never
   commits *while* the assignment exists (proved), only before it.
2. **A page view can erase a retry offer.**  Offers are edited in the copy of the
   session a request loaded, and every successful response writes its whole copy
   back.  A view of another page that was loading when the turn failed removes
   the offer, after the client was told to try again.
3. **A login can undo the flags of a role change.**  `User.save` derives
   `is_staff` from the role of the object it saves, and adds it to whatever fields
   are updated.  A login saves `last_login` on the object it loaded when it
   accepted the password, so a role change in between keeps its role and gets the
   flag of the old one back, until the row is saved again.
4. **A general answer that fails is an empty one.**  When the provider of a
   DIRECT_GENERAL request fails, the workflow is PARTIAL and no specialist has a
   result `_recovery_kind` knows (`chat.py:527-549`), so the API sends a 200 with
   no answer and the command line client prints a placeholder.  A
   provider-unavailable outcome "must not render an empty-answer placeholder"
   (`docs/specs/phase-11.1/03-security-and-conversational-spec.md:45-46`).

## 9. Not modelled

Forms, templates, filters, dashboards and the debugger (presentation over the
services); queue and history reads (no state); the context window a turn sends;
message bodies, titles and validation; SQL and row mapping, beyond which rows a
statement reads and writes; how text is extracted, embedded and ranked within a
channel; prompts, facts and answers as texts; the external providers, which may
answer anything of their type or fail; `list_recent_protocols_by_execution`, which
`answer` never reaches because such plans are analyses (`ByExecution`).

The command line's text client keeps the authorization and protocol of its user
between messages; it is a tool for testers and holds no state of the product.  A
reader should know that its `/clear-ops` and `/role CLIENT` leave
`protocol_context_transient` set, so that a protocol selected afterwards may be
forgotten after one message.
