----------------------------- MODULE OpsTables -----------------------------
(***************************************************************************)
(* The OPS schema, as OperationalRepository reads and writes it, and the   *)
(* runners of the seed scenarios that fill it, each scenario in one        *)
(* transaction.  A case is a row of ops.service_requests with the e-mail,  *)
(* attachment, establishment, runs and log rows that belong to it.  The    *)
(* rows of a transaction are seen by nobody before it commits, and only    *)
(* the unique protocol number makes one wait for another.                  *)
(***************************************************************************)
EXTENDS Integers, Sequences, FiniteSets

CONSTANTS
  Runners,        \* processes of the seed command
  Directories,    \* what the directory of scenarios may hold: sequences of them
  MaxSeeds        \* bound on scenarios begun

NoRun == [at |-> 0, end |-> 0, status |-> "none", events |-> <<>>]

\* What a file of the directory may say, before its lifecycle is validated; 0 is
\* a moment that was not given.
SeedEvents ==
  [event : STRING, at : Nat, status : {"SUCCESS", "ERROR", "EXCEPTION"},
   refs : SUBSET {"email", "attachment", "request", "establishment"}]
RobotRuns ==
  [at : Nat, end : Nat, status : {"SUCCESS", "PARTIAL", "ERROR"},
   events : Seq(SeedEvents) \ {<<>>}]
Scenarios ==
  [id : Nat, protocol : Nat, r1 : RobotRuns, r2 : RobotRuns \cup {NoRun},
   r1Request : {"WAITING_RESULT", "FAILED"}, r1Processing : {"WAITING_RESULT", "ERROR"},
   r1Upload : {"SUCCESS", "ERROR"}, r1UploadAt : BOOLEAN,
   request : {"WAITING_RESULT", "COMPLETED", "FAILED"}, failure : BOOLEAN, completed : Nat,
   processing : {"WAITING_RESULT", "RESULT_AVAILABLE", "COMPLETED", "ERROR"},
   download : {"NOT_AVAILABLE", "AVAILABLE", "DOWNLOADED", "ERROR"},
   downloadAt : BOOLEAN, returned : BOOLEAN]

ASSUME OpsAssumption == MaxSeeds \in Nat /\ Directories \subseteq Seq(Scenarios)

VARIABLES
  cases,          \* the committed rows: a set of cases
  runner,         \* [Runners -> what the process is doing]
  seeds           \* scenarios begun, also the clock of the transactions

opsVars == <<cases, runner, seeds>>

-----------------------------------------------------------------------------
(* A scenario and its validation (seed/ops/models.py, loader.py).          *)

EventTimes(r) == <<r.at>> \o [i \in DOMAIN r.events |-> r.events[i].at] \o <<r.end>>

\* RobotRunDefinition.lifecycle_is_ordered.
Ordered(r) ==
  LET t == EventTimes(r) IN \A i \in 2 .. Len(t) : t[i - 1] <= t[i]

\* OpsSeedScenario.lifecycle_is_consistent.
FailsInR1(s) ==
  /\ s.r1.status = "ERROR" /\ Len(s.r1.events) = 11
  /\ s.r1Request = "FAILED" /\ s.r1Processing = "ERROR"
  /\ s.r1Upload = "ERROR" => ~s.r1UploadAt
  /\ s.r2 = NoRun /\ s.request = "FAILED"

SucceedsInR2(s) ==
  /\ s.r2.status = "SUCCESS" /\ Len(s.r2.events) = 6
  /\ s.request = "COMPLETED" /\ ~s.failure
  /\ s.processing = "COMPLETED" /\ s.download = "DOWNLOADED"
  /\ s.downloadAt /\ s.returned /\ s.completed # 0

FailsInR2(s) ==
  /\ s.r2.status = "ERROR" /\ Len(s.r2.events) >= 5
  /\ s.request = "FAILED" /\ s.failure /\ s.completed = 0 /\ s.processing = "ERROR"
  /\ \/ s.download = "ERROR" /\ ~s.downloadAt
     \/ s.download = "DOWNLOADED" /\ s.downloadAt
  /\ \E i \in DOMAIN s.r2.events : s.r2.events[i].status = "ERROR"

ScenarioValid(s) ==
  /\ Ordered(s.r1) /\ (s.r2 # NoRun => Ordered(s.r2))
  /\ \/ FailsInR1(s)
     \/ /\ s.r1.status = "SUCCESS" /\ Len(s.r1.events) = 10
        /\ SucceedsInR2(s) \/ FailsInR2(s)

\* load_scenarios refuses the whole directory, for one file or for a repetition.
Loads(files) ==
  /\ \A i \in DOMAIN files : ScenarioValid(files[i])
  /\ \A i, k \in DOMAIN files :
       i # k => files[i].id # files[k].id /\ files[i].protocol # files[k].protocol

-----------------------------------------------------------------------------
(* execute_ops_scenario.                                                   *)

Entry(r, robot, first, last) ==
  [i \in 1 .. last - first + 1 |->
     [robot |-> robot, event |-> r.events[first + i - 1].event, at |-> r.events[first + i - 1].at,
      status |-> r.events[first + i - 1].status, refs |-> r.events[first + i - 1].refs]]

\* A run as it is created, and as it is updated at its end.
NewRun(r, robot) == [robot |-> robot, at |-> r.at, end |-> 0, status |-> "RUNNING"]
EndedRun(r, robot) == [NewRun(r, robot) EXCEPT !.end = r.end, !.status = r.status]

\* An event may name an entity before it exists: its identity is then 0, which
\* no row has, and the foreign key refuses the statement.
Resolvable(s) ==
  LET e == s.r1.events
  IN /\ \A i \in 1 .. 2 : e[i].refs \subseteq {"email"}
     /\ \A i \in 3 .. 4 : e[i].refs \subseteq {"email", "attachment"}
     /\ e[5].refs \subseteq {"email", "attachment", "request"}

\* Up to the row of the request: the run of R1, the e-mail, its attachment, and
\* the row with its first event; created_at is when the transaction began.
Received(s, began) ==
  [protocol |-> s.protocol, created |-> began, status |-> "CREATED", failure |-> FALSE, completed |-> 0,
   processing |-> "PENDING", download |-> "NOT_AVAILABLE",
   runs |-> {NewRun(s.r1, "R1")},
   log |-> Entry(s.r1, "R1", 1, 5)]

\* The end of R1: its establishment, the other events and the state it left.
AfterR1(s, c) ==
  [c EXCEPT !.status = s.r1Request,
            !.failure = s.r1Request = "FAILED" /\ s.failure,
            !.processing = s.r1Processing,
            !.runs = {EndedRun(s.r1, "R1")},
            !.log = @ \o Entry(s.r1, "R1", 6, Len(s.r1.events))]

\* The final state, which R2 left if it ran.
Finished(s, c) ==
  [c EXCEPT !.status = s.request, !.failure = s.failure, !.completed = s.completed,
            !.processing = s.processing, !.download = s.download,
            !.runs = IF s.r2 = NoRun THEN @
                     ELSE @ \cup {EndedRun(s.r2, "R2")},
            !.log = @ \o Entry(s.r2, "R2", 1, Len(s.r2.events))]

-----------------------------------------------------------------------------
Waiting == [pc |-> "idle", todo |-> <<>>, began |-> 0]

OpsInit ==
  /\ cases = {}
  /\ runner = [r \in Runners |-> Waiting]
  /\ seeds = 0

Scenario(r) == runner[r].todo[1]
Known(p) == \E c \in cases : c.protocol = p
Holds(r, pc) == runner[r].pc = pc

\* run_scenarios goes on with the next one in a transaction of its own.
NextScenario(r) ==
  runner' = [runner EXCEPT ![r] =
    IF Len(runner[r].todo) = 1 THEN Waiting
    ELSE [pc |-> "find", todo |-> Tail(runner[r].todo), began |-> 0]]

\* main: all discovered scenarios, or one of them; without any nothing runs.
Seed(r) ==
  /\ Holds(r, "idle")
  /\ \E files \in Directories :
       /\ Loads(files)
       /\ files # <<>>
       /\ \E todo \in {files} \cup {<<files[i]>> : i \in DOMAIN files} :
            runner' = [runner EXCEPT ![r] = [pc |-> "find", todo |-> todo, began |-> 0]]
  /\ seeds < MaxSeeds
  /\ UNCHANGED <<cases, seeds>>

\* A protocol that exists is left as it is.
Find(r) ==
  /\ Holds(r, "find")
  /\ seeds < MaxSeeds
  /\ seeds' = seeds + 1
  /\ IF Known(Scenario(r).protocol) THEN NextScenario(r)
     ELSE runner' = [runner EXCEPT ![r].pc = "receive", ![r].began = seeds + 1]
  /\ UNCHANGED cases

\* Mutated form: nothing makes a transaction wait for another.
KeyIsUnseen(r) == ~Known(Scenario(r).protocol)

\* create_service_request waits for a transaction that inserted the same number,
\* and fails (Abandon) when that one has committed.
KeyIsFree(r) ==
  LET p == Scenario(r).protocol
  IN /\ ~Known(p)
     /\ \A q \in Runners \ {r} : Holds(q, "opened") => Scenario(q).protocol # p

OpenRequest(r) ==
  /\ Holds(r, "receive")
  /\ Resolvable(Scenario(r))
  /\ KeyIsFree(r)
  /\ runner' = [runner EXCEPT ![r].pc = "opened"]
  /\ UNCHANGED <<cases, seeds>>

\* The rest of the scenario, and the commit of its transaction.
FinishCase(r) ==
  LET s == Scenario(r)
  IN /\ Holds(r, "opened")
     /\ cases' = cases \cup {Finished(s, AfterR1(s, Received(s, runner[r].began)))}
     /\ NextScenario(r)
     /\ UNCHANGED seeds

\* A statement fails or the process dies: nothing of the scenario remains, and
\* those after it are not run.
Abandon(r) ==
  /\ ~Holds(r, "idle")
  /\ runner' = [runner EXCEPT ![r] = Waiting]
  /\ UNCHANGED <<cases, seeds>>

RunnerStep(r) == Seed(r) \/ Find(r) \/ OpenRequest(r) \/ FinishCase(r) \/ Abandon(r)

OpsNext == \E r \in Runners : RunnerStep(r)

OpsSpec == OpsInit /\ [][OpsNext]_opsVars

-----------------------------------------------------------------------------
OpsTypeOK ==
  /\ \A c \in cases : c.status \in {"COMPLETED", "FAILED"} /\ c.created \in 1 .. MaxSeeds
  /\ \A r \in Runners : runner[r].pc \in {"idle", "find", "receive", "opened"}
  /\ seeds \in 0 .. MaxSeeds

\* A protocol has one case, and what is stored of it is a whole lifecycle: both
\* robots ended, the request and the establishment say what the last of them
\* did, and its log explains a failure of R2; whichever runners overlap or die
\* in the middle (seed/ops/scenario_executor.py, runner.py execute_scenario).
LastRun(c) == CHOOSE r \in c.runs : \A o \in c.runs : o.robot = "R1" \/ r.robot = "R2"

CasesAreWhole ==
  \A c \in cases :
    /\ \A o \in cases : o.protocol = c.protocol => o = c
    /\ \A r \in c.runs : r.status # "RUNNING" /\ r.at <= r.end
    /\ (c.status = "COMPLETED") = (LastRun(c).status = "SUCCESS")
    /\ c.status = "COMPLETED" => c.processing = "COMPLETED" /\ c.completed # 0
    /\ c.status = "FAILED" /\ LastRun(c).robot = "R2" =>
         /\ c.processing = "ERROR"
         /\ \E i \in DOMAIN c.log : c.log[i].robot = "R2" /\ c.log[i].status = "ERROR"

=============================================================================
