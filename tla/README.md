# RazorFlow in TLA+

RazorFlow recovers failed Razorpay payments for merchants. A webhook reports a
failed payment; a worker opens a *recovery case* for its order; a decision
service proposes an action that a deterministic policy approves, changes or
refuses; an orchestrator carries the action out (a payment link, a reminder, a
wait, a hand-over to a human); a verification service closes the case when money
arrives. Everything is recorded in a per-merchant audit chain of hashes.

This directory holds TLA+ models of that backend (`src/backend`), the TLC
configurations that check them and TLAPS proofs about them. Paths below are
relative to `src/backend`.

    tlc -config AuditLedger.cfg MCAuditLedger      # one run
    tlapm RecoveryCase_proofs.tla                  # the proofs of a module

`PROJECT.json` lists components, runs, the source lines of every definition, the
mutants (a plausible bug per property that the property notices), findings,
hazards and theorems.

## 1. Inventory

| Component | State | Operations | What is hard | What makes it correct |
|---|---|---|---|---|
| Lifecycle tables (`packages/domain/enums.py`, `state_machine.py`) | none | transition checks of cases and attempts | services consult them or not | no service leaves a terminal status |
| Webhook route and event store (`apps/api/routes/v1/webhooks.py`, `webhook_ingestion_service.py`) | `raw_webhook_events` | lookup, insert, commit, enqueue | duplicate deliveries race; the process dies between commit and enqueue; the broker is down | an answered event is stored; it is accepted once |
| Task queue and tasks (`apps/worker`) | broker messages, processed flag | ingest an event, retry, reassess cases | late acknowledgement, lost workers, retries | effects exactly once; an enqueued event is processed |
| Order, payment and customer sync (`order_payment_sync_service.py`) | `orders`, `payments`, `customers` | upsert from a webhook | webhooks out of order; concurrent first events; counters without a lock | money that arrived stays arrived; concurrent runs amount to runs one after the other; failures are not invented |
| Case creation (`case_creation_service.py`) | `recovery_cases` | open a case, or add a failure to the active one | failures race captures | one active case per order |
| Candidates and policy (`packages/domain/policy`, `candidate_generator.py`, `strategies`) | none | eligibility, ten ordered rules | order of precedence, facts that age | the verdict follows from the facts |
| Decision services (`decision_service.py`, `ai_decision_service.py`) | `recovery_decisions`, case status | evaluate a case | repeated evaluation, decisions with equal numbers | nothing but an escalation is executed after a later decision |
| Action orchestrator and executors (`action_orchestrator.py`, `executors`) | `recovery_attempts`, case status and count | execute a command | an executor fails in different ways from different statuses | each attempt carries out a decision; reminders refer to real links |
| Verification (`verification_service.py`) | `recovery_outcomes`, case, attempt | verify on webhook, poll or simulated payment | several proofs for one case; statuses that cannot become RECOVERED; webhooks whose payment is not captured | a recovered case has its proof; a capture settles what awaits it |
| Audit ledger (`packages/persistence/audit_ledger.py`) | `audit_events` | append to the chain, verify it | transactions race for its end | the chain has no gap and no fork |
| Policy configuration (`routes/v1/policies.py`) | merchant's policy JSON, version, history | read, replace, preview | two updates of one version; two first requests | the history has no gap; what it loses is in the audit chain; a preview foretells a decision |
| Gateway adapter (`packages/adapters/razorpay`) | links and messages at the gateway | HTTP calls with retries | a time-out after success, an answer after the end of the call | one key makes one link, one call sends one reminder, success is reported of what was done |
| Scoring and ranking (`packages/domain/scoring`) | model file | score, value and rank candidates | ties, negative values, a model that answers anything | money is spent as proposed, and without a language model never at an expected loss; the customer of a fraud case is not contacted |
| AI strategist, customer enrichment | customer statistics | choose a candidate | a language model | only candidates are proposed: assumed by nondeterminism |
| Frontend, demo and operator scripts, read-only routes | none of their own | call the above | nothing | out of scope |

How they interact: the API route writes the raw event and puts a message on the
broker; the worker task runs sync, case creation and verification in **one**
database transaction with the processed flag; API routes and scripts call the
decision service, the orchestrator and the verification service, each in one
transaction; all of them append to the audit ledger inside that transaction.
The database rows are the only shared state. Only the policy routes, `/execute`,
`/simulate-payment`, the webhook route and the two tasks run by themselves; the
decision services are called from the demo, the scripts and the tests.

Section 6 and `PROJECT.json` ("hazards") list what is hard to test, by line.

## 2. Modules

| Module | Models | Uses |
|---|---|---|
| `RecoveryDomain` | enums, both transition tables | |
| `PolicyEngine` | strategies' eligibility and the policy rules, as operators on a record of facts | `RecoveryDomain` |
| `OrderPaymentSync` | what a webhook's type and its payment's status make of an order row and a payment row | `RecoveryDomain` |
| `RecoveryCase` | the life of cases: every committed transaction of every service | the two above |
| `RecoveryCase_proofs` | theorems about the life of cases | `RecoveryCase`, TLAPS |
| `RecoveryAttempts_proofs` | theorems about their decisions, attempts and outcomes | `RecoveryCase_proofs` |
| `ExecutionRace` | executions, simulated payments and captures of one case, statement by statement | `RecoveryDomain`, `GatewayAdapter` |
| `ExecutionRace_proofs` | theorems about `ExecutionRace` | it, `GatewayAdapter_proofs` |
| `GatewayPort` | what the payment gateway port promises its callers | |
| `GatewayAdapter` | the adapter's request loop and the gateway | instantiates `GatewayPort` |
| `GatewayAdapter_proofs` | theorems about `GatewayAdapter` | it, TLAPS |
| `IngestionRace` | concurrent runs of the ingestion pipeline, statement by statement | `OrderPaymentSync`, instantiates `RecoveryCase` |
| `IngestionRace_proofs` | theorems about `IngestionRace` | it, TLAPS |
| `Scoring` | probabilities, expected values, ranking, what either decision service may propose, the preview's made-up case | instantiates `PolicyEngine` per policy |
| `PolicyStudio` | the policy routes, and decisions under a policy | `Scoring` |
| `PolicyStudio_proofs` | theorems about `PolicyStudio` and the operators of `Scoring` and `PolicyEngine` | it, TLAPS |
| `AppendOnlyLog` | what the ledger promises: an append-only log, atomic blocks | |
| `AuditLedger` | `record_event` in concurrent transactions, statement by statement | instantiates `AppendOnlyLog` |
| `AuditLedger_proofs` | theorems about `AuditLedger` | it, TLAPS |
| `WebhookIngestion` | the way of an event from HTTP request to committed effects | |
| `WebhookIngestion_proofs` | theorems about `WebhookIngestion` | it, TLAPS |
| `MCRecoveryCase`, `MCAuditLedger`, `MCWebhookIngestion`, `MCExecutionRace`, `MCIngestionRace`, `MCPolicyStudio` | small instances for TLC | |

The two levels of grain are deliberate. `AuditLedger`, `WebhookIngestion`,
`IngestionRace` and `ExecutionRace` ask what interleavings *inside* transactions
do. `RecoveryCase` builds on the answers: its steps are whole committed
transactions, an event is processed once (`processed`), and an append is one
step of a counter (`ledger`). The answers are now theorems (section 4):

- one event's pipeline commits exactly once (`WebhookIngestion`) and an append
  to the audit chain is atomic (`AuditLedger` implements `AppendOnlyLog`);
- concurrent runs of the pipeline leave the same rows as whole runs, one at a
  time (`IngestionRace`: every step of the committed rows is `ProcessEvent` of
  `RecoveryCase`);
- executions and verifications of one case do **not** amount to whole steps: one
  that loaded the case earlier writes what it computed from the old row.
  `ExecutionRace` says what does not hold then (`RecoveredStaysRecovered`) and
  what does: only a request that loaded the case before it was recovered can
  still change it (`OnlyStaleRequestsReopen`). `TerminalIsFinalInTurn` of
  `RecoveryCase` is about services that work on a case one after the other,
  and says so in its name.

### RecoveryCase

One action per entry point; each includes every row the code writes before its
commit. A transaction that raises rolls back and is no step.

| Action | Code |
|---|---|
| `AppendFailure`, `OpenCase` | `_execute_ingestion_pipeline`, failure branch, with `CaseCreationService` |
| `CaptureForCase` | capture branch, with `VerificationService.verify_from_webhook_event` |
| `SyncOnly` | an event that only changes order and payment |
| `Decide` | `AIDecisionService.evaluate_with_ai`, `DecisionService.evaluate_case_decision` |
| `ExecuteLatest` | `POST /cases/{id}/execute` |
| `ExecuteCommand` | `execute_command` with the command an evaluation returned earlier (demo, scripts) |
| `Poll` | `poll_and_reconcile_case`, when the gateway reports the link as paid |
| `SimulatePayment` | `POST /cases/{id}/simulate-payment` |
| `Reassess` | the reassessment task, on any set of due cases |
| `DeadlinePasses`, `CooldownEnds` | time |

Rows are records. Amounts, names, texts and hashes are left out; what a case was
credited with is the *identity* of the payment (`credited`). A payment link is
the position of the attempt that created it (`link`), 0 for none. The position
of a decision in its case's sequence is its identity. A proposal may be *any*
candidate, which covers every score, ranking and model answer. Whether an
amount reaches the threshold is open at each evaluation, because the merchant
can change the threshold; the rest of the policy is constant. Failure categories
are the four that eligibility tells apart. `payment_link.paid` names a link that
may or may not be found among the attempts (0 and every position). Payments
of another currency than the case's are the set `Foreign`: such a capture is
refused.

An event has a type (`kind`) and the status of the payment it carries (`status`),
which the parser reads from different places of the payload: any kind may come
with any status (`EntityStatuses`; `"other"` is a status the code does not know).
So a `payment.captured` may carry an authorized or refunded payment. The
verification then does three things one after the other, and all are modelled:
it makes the payment CAPTURED (`SettledPayment`), checks that it is
(`SettlementAllowed`), and compares the currency. The payment that does not exist
yet cannot be told apart, since the pipeline has just inserted it.

Details that are easily missed in the code and are in the model:

- `verify_and_recover_case` writes credit, attempt and outcome even when the
  status cannot become RECOVERED (`Verify`), and falls back to the latest
  attempt when no reference matches (`MatchingAttempt`).
- A retryable failure asks for DIAGNOSING. From EXECUTING the table does not
  allow it and the case stays EXECUTING; a second failing execution of a case in
  WAITING_EXTERNAL does reach DIAGNOSING, which reopens the evaluation.
- `execute_command` from ESCALATED raises. From other active statuses it runs
  without passing EXECUTING.
- The latest decision is `ORDER BY attempt_number DESC LIMIT 1`; an escalated
  case that is evaluated again has two with one number, and either may be
  returned (`LatestDecisions`). So the older one may be executed. What
  `SupersededOnlyEscalates` adds is that the older one is then an escalation.
- `/execute` computes a new attempt number each time, so the idempotency key
  only catches a command executed late (`ExecuteCommand`), never a client's
  repeated request.
- `payment_link.paid` and a simulated payment leave the order row as it is.

### ExecutionRace

| Action | Code |
|---|---|
| `LoadForExecution` | the route loads the case |
| `Begin` | `SELECT ... FOR UPDATE`, idempotency look-up, checks, attempt row, and the executor's call |
| `CommitExecution`, `AbortExecution` | result, target status, count, commit; or a rollback at any point |
| `LoadForSimulation`, `LoadForCapture` | the caller of the verification loads the case, a capture under the order's lock |
| `Match`, `Apply` | guard and attempts; flush of the case row, look-up of the outcome |
| `CommitVerification`, `AbortVerification` | credit, attempt, outcome, commit |

Three facts of SQLAlchemy and PostgreSQL carry the module. A session keeps the
object it loaded first, so `SELECT ... FOR UPDATE` of a loaded row waits for it
but does not refresh it (`seen`); a flush writes only the columns whose value
changed in the object (`Written`); and an `UPDATE` locks its row until the
commit (`holder`). A row is published by its commit in one step, since nobody
sees it before. `Init` is a case with a first decision, or one whose customer
has a link and whose second link failed. No route evaluates a case, so the
decision does not change under the requests.

### GatewayAdapter

`Ask` starts a call. Each try is a request on the `wire`; the gateway acts on it
and its answer arrives in time (`Succeed`, `Fail`), or it acts on it unheard,
even after the call has returned (`ActUnheard`). `TimeOut` leaves the request on
the wire; `RetryOrReturn` is the loop. Only link creation is tried again.
`Refuse` is an answer that is neither tried again nor taken for success: also a 2xx
other than 200 and 201, of a request the gateway may have acted on.
`Blocked` calls are stopped by the safety mode, whose `PermissionError` the
operations report as retryable. Assumed of the gateway, from the header the code
sends and from the mock adapter: one idempotency key, one link. `ImplementsPort` is the refinement of `GatewayPort`,
whose `Return` may report success only of what has been done.

### IngestionRace

One action per statement of a run that another run can interleave with: the
customer (`FindCustomer`, `FlushCustomer`), the order (`LockOrder`,
`InsertOrder`), the payment (`LockPayment`, `InsertPayment`), the case
(`FindCaseOfFailure`, `InsertCase`, `FindCaseOfCapture`) and the commit. `pc`
says what a run holds, `tx` what it has read, and the commit computes from `tx`
alone, with the operators of `OrderPaymentSync` and `RecoveryCase`. A violated unique
constraint of orders, payments or active cases is `Conflict`, one of the audit
chain `AuditRefuses`: the last statement of every run that records an event
(`RecordsEvent`) may find its sequence number taken, by any other transaction of
the merchant, every time. Both are counted in `conflicts`, the second in `refusals`
too. `Fail` is any other rollback. The customer's
position in `customers` is its row: two rows of one contact are a sequence of
two counters.

### Scoring and PolicyStudio

`Scoring` translates the numbers: probabilities in 1/10000, money in paise.
`Engine(p, limit)` is `PolicyEngine` instantiated for a policy, so the rules are
those `RecoveryCase` uses. The model is a function from actions to scores, or
`Unscored` where it is not loaded or raises. `PolicyStudio` adds the routes:
`Load` and `Create` (`get_or_create_policy_config`), `Flush` and `Commit` or
`Abort` of an update, `AnswerReader` for `GET` and preview (whose insertion of a
default row is never committed), and `Evaluate`, a decision under any of the
policies: its callers bring the policy, no service reads the stored one. What
`Evaluate` proposes depends on the service (`Proposals`): `DecisionService` the best
ranked candidate, `AIDecisionService` any candidate, for that is all it asks of the
language model's answer (and without an answer it takes the best ranked one).

### AuditLedger

One action per statement of `record_event` (`Select`, `Lock`, `Insert`), the end
of the transaction (`Commit`, `Conflict`, `Abort`) and its retry. A transaction
appends several events (an execution records two). Assumed of PostgreSQL at
READ COMMITTED: a statement sees what was committed when it started and its own
rows; `FOR UPDATE` waits for the row picked by that snapshot and, since rows are
never updated, returns that same row; an insert waits for an uncommitted row
with the same key and then succeeds or raises. A key is compared with *all*
committed rows, so a transaction that read an old end of the chain fails.

### WebhookIngestion

Requests: `Deliver`, `Lookup`, `Insert`, `Commit`, `Enqueue` / `EnqueueFails`,
`RequestDies`. Workers: `Take`, `Begin` (row lock, processed flag), `Finish`
(effects and flag in one commit), `Raise`, `Republish` (`self.retry`) or
`RepublishFails`, `Acknowledge`, `WorkerLost`. The queue is a bag of messages: several equal ones
may be in it, in no order. Assumed of Celery, from `celery_app.py`
(`task_acks_late`, `task_reject_on_worker_lost`): a message is removed when its
task has returned and is delivered again when its worker is lost; a task whose
retry cannot be published is rejected without requeueing. A request that
fails before it is stored (signature, merchant, JSON) leaves no state and is not
modelled.

## 3. Runs

Passing runs:

| Run | Instance | Shows |
|---|---|---|
| `RecoveryCase` | one order, two cases, two failures, a `payment_link.paid`; maxima of 2 attempts; symmetric cases | `TypeOK`, `OneActiveCasePerOrder`, `CreditedAttemptClosed` |
| `RecoveryCaseAttempts` | one case, a failure, an authorization, captures in two currencies, one of a payment that is only authorized, one synthetic payment; policy maximum 4, case maximum 3, 3 attempts | `RecoveredHasProof`, `AttemptBookkeeping`, `SupersededOnlyEscalates`, `RemindersFollowLinks`, `SettledByCapture`, `TerminalIsFinalInTurn` |
| `AuditLedger` | three transactions, one of two events, one retry each | `TypeOK`, `ChainUnbroken`, `EveryTransactionEnds`, and the refinement `ImplementsLog` |
| `ExecutionRace` | two executions with a simulated payment or a capture, one execution with two verifications, one with a call the safety mode blocks; first decisions and a reminder; one retry | `TypeOK`, `CountMatchesAttempts`, `LookupsHold`, `CreditHasOutcome`, `AtMostOneOrphanLink`, `AttemptsKeepTheirLifecycle`, `OnlyStaleRequestsReopen`, `EveryRequestEnds`, and the refinement `ImplementsPort` |
| `IngestionRace` | two orders of one customer, three payments, six events in four mixes of three; from nothing or from a case with a link; one retry | `TypeOK`, `OnlyTheChainRefusesAgain`, `ReadsHold`, `FailuresNotInvented`, `EveryEventEnds`, and the step-wise refinement `RunsAreAtomic` |
| `PolicyStudio` | three concurrent updates, an update with a reader; decisions of both services over about 8,000 combinations of facts, four policies and six models | `TypeOK`, `HistoryContiguous`, `HistoryIsAudited`, `FraudNotContacted`, `SpendsAsProposed`, `DisallowedOnlyByGuards`, `PreviewForetells` |
| `WebhookIngestion` | two events (one unreadable), three deliveries, two workers, one retry, one lost worker | `TypeOK`, `ExactlyOnce`, `AnsweredIsStored`, `AcceptedOnce`, `EnqueuedIsProcessed` |

TLC finds from 3,500 (`AuditLedger`) to 733,000 (`PolicyStudio`) distinct states; each
run ends within two minutes. Deadlock is not checked: each system really stops when no event, transaction or
delivery is left. Liveness is checked without symmetry.

Why the bounds suffice to meet the interesting cases:

- *Orders*: cases of different orders share nothing but the audit chain, so one
  order is enough. *Cases*: two are needed for a new case after a recovery and
  for the competition of `OneActiveCasePerOrder`. The theorems cover any number.
- *Attempts*: a reminder follows a link only when the case may have three
  attempts. Cases opened by the service have a maximum of 2
  (`max_allowed_attempts=2`), the scripts and the demo open them with 3; the
  first run has the one, the second the other. With
  a maximum of 3 TLC reaches acknowledged reminders, decisions with equal
  numbers, executions of the older of them, decisions of later attempts, and commands executed late.
- *Deliveries*: three allow two racing deliveries of one event with another one
  after the answer. *Losses and retries*: with one of each, a
  retry and its redelivered original are in the queue together.
- *Transactions*: with three, two can wait for a third, fail on its number and
  race again; the first events race on an empty chain.
- *Requests on one case*: races need two actors, stale writes over stale writes
  three; the mixes of `ExecutionRace` hold each pair of kinds with a third. Two
  amounts tell a simulated payment's credit from a capture's.
- *Retries of the adapter* are 2 in the code, 1 in `ExecutionRace`: one suffices for
  an answer to a try that was given up, after a later one. `AdapterImplementsPort`
  is proved for any number.
- *Events of `IngestionRace`*: three in a mix let two wait for one, and let one
  order's first events race while the customer's row is shared with another
  order. One event carries a link's payment that is only authorized. TLC reaches a
  customer with two rows, lost increments, conflicts on orders, runs the audit
  chain refuses twice, and runs given up.
- *Payment statuses*: an authorized payment in a capture's event makes a difference
  between what the sync writes and what the verification settles; the theorems
  cover every status with every kind.
- *Facts of `PolicyStudio`*: every category, counts up to the maximum, both sides
  of the cooldown, amounts where a link or an escalation costs more than it
  brings and at each threshold, and histories on both sides of the scorer's and
  the penalties' limits.
- `MaxDispatch` bounds attempts of a case, `MaxSynthetic` the payments that polls
  and simulations invent, `Retries` and `MaxLosses` aborted transactions and
  lost workers. The code bounds retries of the task itself (`MaxRetries`, 3
  there, 1 here, in `WebhookIngestion` and in `IngestionRace`).

Runs that find the code in disagreement with its own words (each with one
property, quoted in `PROJECT.json` "findings"):

| Run | The code's words | What happens |
|---|---|---|
| `NoRecoveryOfFraud` | "Automated recovery prohibited for transactions flagged as FRAUD_RISK_BLOCK" | failure, decision, a second failure flags fraud, the old decision is executed |
| `SettlingPaymentNotFailed` | "a CAPTURED payment is not downgraded to FAILED" | a late authorization makes it AUTHORIZED, a late failure FAILED |
| `RecoveredStaysRecovered` | "Check that case is not already in a terminal state", "If case is ALREADY RECOVERED, preserve invariant" | an execution loads the case, a payment recovers it, the execution's retryable failure writes DIAGNOSING |
| `EscalationIsExecuted` | "(or ESCALATED -> EXECUTING)" | every execution of an escalated case raises |
| `StoredIsProcessed` | "will be picked up by worker" | an event whose enqueueing failed stays unprocessed for ever |

### Fairness

- `AuditLedger`: weak fairness of each transaction's steps, not of `Abort`. A
  session that can run does; the database grants a free lock. No transaction
  can wait for ever: locks and keys are taken in the order of the chain.
- `WebhookIngestion`: weak fairness of each request's handler (uvicorn finishes
  what it started unless it dies; death is always possible) and of each worker.
  Nothing is assumed of the gateway, of which branch a handler takes, or of
  lost workers.
- `ExecutionRace`: weak fairness of the steps of a request after it has loaded the
  case, and of the adapter's time-outs, which end every try. Not of requests
  being made, of answers, of the gateway, of rollbacks.
- `IngestionRace`: weak fairness of each event's statements, not of `Fail`. The
  broker delivers a repeated task again (`WebhookIngestion`).
- `EscalationIsExecuted` assumes that the client calls `/execute` again and again
  while the call can succeed. The counterexample is the strongest possible: the
  call is never enabled.

## 4. Proofs

Each component that is checked has its theorems in a module of its own. They
hold for every value of the constants: any number of orders, payments, events,
cases, transactions, deliveries, workers, requests, policies, models, and every
bound. They rest on the named assumptions of the modules and nothing else:

| Assumption | Says |
|---|---|
| `CaseAssumption`, `PolicyAssumption` | the constants have the right kind, markers are distinct; bounds are numbers |
| `LedgerAssumption` | transactions are finitely many, each appends at least one event; bounds are numbers |
| `IngestionAssumption` | unreadable events are events, `NoEvent` is none; bounds are numbers |
| `GatewayAssumption` | keys are positive numbers, blocked calls are calls; the number of retries is a number |
| `RaceAssumption` | the kinds of requests are disjoint, amounts are positive; executions are finitely many, with a key for each and two more |
| `PipelineAssumption` | every event names a payment, every payment an order and a buyer, every case an order |
| `StudioAssumption` | kinds of constants; facts are those of an active case (`CaseFacts`), since a decision is recorded by a transition and none leaves a final status |

### RecoveryCase

| Theorem | States |
|---|---|
| `TypeCorrect` | `Spec => []TypeOK` |
| `OnlyRecoveryEnds` | RECOVERED is the only terminal status ever assigned |
| `OneActiveCase` | `Spec => []OneActiveCasePerOrder` |
| `RecoveryIsProven` | `Spec => []RecoveredHasProof` |
| `TerminalForGoodInTurn` | `Spec => TerminalIsFinalInTurn` |

Argument. `TypeOK` is inductive by itself (`TypeInductive`), with one lemma per
shared piece of the actions (`SyncType`, `VerifyType`, `DispatchType`,
`ExecutorResultType`, ...). The existence of the greatest index that `Latest`
chooses is proved from the least-number principle (`LatestIsGreatest`). The
other theorems need not look at the actions again: `StepEffect` shows that for each case a step has one of six
effects (*untouched, opened, settled, decided, attempted, reassessed*), and
each theorem follows from the effects.

- `OneActiveCase`: only *opened* makes an order's case active, and it requires that
  there is none; the other effects keep a case's activity or end it.
- `RecoveryIsProven`: only *settled* leads to RECOVERED, and it writes outcome and
  credit from one payment, which the callers took from the case's order and
  currency; the other effects cannot start from a recovered case and keep it.
- `TerminalForGoodInTurn`: `TerminalIsFinalInTurn` is not provable from the types. A
  verification is only guarded against RECOVERED, so a case that was, say,
  EXPIRED would be credited by a gateway poll. The strengthening is
  `RecoveredOnly`: UNRECOVERABLE, EXPIRED and STOPPED are never reached, because the target of every status
  change is one of the statuses the services name. The theorem is about whole
  transactions; for requests that overlap see `ReopenedOnlyByStaleRequests` below.

`RecoveryAttempts_proofs` goes on with the rows below a case:

| Theorem | States |
|---|---|
| `NumbersAreFree` | `Spec => []AttemptBookkeeping` |
| `DecidedInOrder` | `Spec => []DecisionsInOrder` |
| `SupersededHandsOver` | `Spec => []SupersededOnlyEscalates` |
| `RemindersHaveLinks` | `Spec => []RemindersFollowLinks` |
| `CreditedIsClosed` | `Spec => []CreditedAttemptClosed` |
| `SettlementIsCaptured` | `Spec => SettledByCapture` |
| `RowsNeedACase`, `AttemptsHaveResults` | the strengthenings `NothingBeforeOpening` and `AttemptsInShape` |

`RowsEffect` refines the six effects to what they make of the rows: kept,
completed by one verification, or extended by one row. None of the invariants that
the run checks is inductive. `AttemptBookkeeping` needs `NothingBeforeOpening` (opening a case sets
its counter to 0, when it has no rows yet), and `SupersededOnlyEscalates` needs
`AttemptBookkeeping` and `DecisionsInOrder`. By the first a new decision has a number
that no attempt has reached, so it supersedes none that was executed. By the second
the decisions stand in the order of their numbers, and of two with one number the
earlier is an escalation: a case is evaluated again under one number only from
ESCALATED, since no other status with a decision for the next attempt allows it.
An attempt whose number a later decision shares, or one below it, carries out
either the last of them or an escalation.
`RemindersFollowLinks` needs `AttemptsInShape`: the attempt whose link is open is
the one that created it, so the link is earlier and the gateway accepted it.
`CreditedAttemptClosed` needs it too: what a verification finds is ACKNOWLEDGED,
which it makes SUCCEEDED, or already closed; it never finds an attempt without a
result. `SettledByCapture` has two halves. Whoever names a gateway payment in
an outcome leaves it CAPTURED: only `CaptureForCase` names one, and either what it
does before the verification (`SettledPayment`) or the check in the verification
(`SettlementAllowed`) alone would do, so the check is redundant there. And the check
never gets in the way of a capture: without `SettledPayment` the second half fails
for an event whose payment is not captured. It needs `OneActiveCasePerOrder`, for the
verification takes one case of the order.

### AuditLedger

| Theorem | States |
|---|---|
| `LedgerTypeCorrect` | `Spec => []TypeOK` |
| `ChainIsUnbroken` | `Spec => []ChainUnbroken` |
| `ChainIsALog` | `Spec => ImplementsLog` |
| `LedgerStaysWhole` | `Spec => []LedgerInv` |

`ChainUnbroken` alone is not inductive: it says nothing of what is not committed.
`LedgerInv` says that the committed rows are numbered 1 .. n for some n, each
linked to the one before; that at most one transaction has uncommitted rows
(`OneWriter`); that these are n + 1, n + 2, ... and linked; and that a
transaction about to lock or insert has picked a row it may see. Who inserts
first has to insert n + 1, because a lower number is a committed row's and
conflicts, and whoever comes second waits for that row. The proof never uses the
lock on the last row, which confirms what the model shows: the unique constraint
is what keeps the chain whole, the lock only saves some conflicts. For the
refinement, a commit with rows is the log's append of the block, which is in
order because it continues n; every other step leaves the log as it is.

### WebhookIngestion

| Theorem | States |
|---|---|
| `IngestionTypeCorrect` | `Spec => []TypeOK` |
| `EffectsExactlyOnce` | `Spec => []ExactlyOnce` |
| `AnswersAreStored` | `Spec => []AnsweredIsStored` |
| `EventsAcceptedOnce` | `Spec => []AcceptedOnce` |
| `IngestionTyped` | `Spec => []Typed` |

`Typed` adds to the types that a worker at work holds a task. `ExactlyOnce` needs
`Locks`: two workers never hold the lock of one event's row, and who
holds it has found the event unprocessed. `AnsweringIsStored` is
`AnsweredIsStored` extended to the requests that have committed and not answered.
`AcceptedOnce` follows from it with the unique constraint: an insertion goes on only
when its event has no row, hence nobody past the commit, nor another
insertion under way.
Two lemmas (`Published`, `Delivered`) say what adding and removing a message
does to the bag.

### GatewayAdapter

| Theorem | States |
|---|---|
| `GatewayTypeCorrect` | `GatewaySpec => []GatewayTypeOK` |
| `GatewayActsAtMostOnce` | `GatewaySpec => []AtMostOnce` |
| `AdapterImplementsPort` | `GatewaySpec => ImplementsPort` |

The types alone do not carry the refinement: a second answer to a
reminder would send a second message. The inductive invariant is the types with
`AtMostOnce`: a reminder has at most one request, and while that is on the wire no message was
sent; a request on the wire has been tried; a key has at most one link; a call
not yet made has left nothing. With it every action maps to a step of the port
or to a stutter: `Fail` that is tried again, and `ActUnheard`, to `Perform` or nothing;
`TimeOut`, `Break`, `Refuse`, `Abandon` and `Succeed` to `Return` or nothing.
The behaviour-level step is propositional temporal logic (PTL).

### ExecutionRace

| Theorem | States |
|---|---|
| `RaceTypeCorrect` | `Spec => []TypeOK` |
| `CountStaysExact` | `Spec => []CountMatchesAttempts` |
| `LookupsStayTrue` | `Spec => []LookupsHold` |
| `CreditIsExplained` | `Spec => []CreditHasOutcome` |
| `OrphanLinksAreFew` | `Spec => []AtMostOneOrphanLink` |
| `AttemptsFollowLifecycle` | `Spec => AttemptsKeepTheirLifecycle` |
| `ReopenedOnlyByStaleRequests` | `Spec => OnlyStaleRequestsReopen` |
| `RaceUsesPort` | `Spec => ImplementsPort` |

The inductive invariant `RaceInv` has four parts beside the types and the adapter's
own invariant, whose step lemmas are cited from `GatewayAdapter_proofs`.

- *Counting.* An execution may have loaded the case long before it locks it. If
  its object is behind, the number it computes is an attempt's with the same
  action, so its key is found and it does not go on; hence an execution at work
  counts as many attempts as there are (`seen[e].count = row.count`), and its
  commit writes the right number. That all attempts since the decision have the
  decision's action is part of the invariant, because the key includes the
  action. Executions are finitely many, so the counter stays within its type.
- *Locking.* Who works, or is about to create an outcome, holds the row lock.
- *Crediting.* An object with a recovered amount was loaded after an outcome
  existed, so a verification that found no outcome still finds none when it
  commits, and writes the amount together with it.
- *Linking.* A link's key is at most the next attempt number. So a link on no attempt
  can only be the next attempt's, however many executions died. (A link made
  behind the last time-out is on no row either, but its attempt is recorded, as
  FAILED: it is not counted here, see section 5.)

`ReopenedOnlyByStaleRequests` needs one invariant more, `LoadedUnrecovered`: who got
past the checks of `execute_command` or `verify_and_recover_case` had loaded a case
that was not recovered.

### IngestionRace

| Theorem | States |
|---|---|
| `PipelineTypeCorrect` | `Spec => []TypeOK` |
| `RowConflictsAreRare` | `Spec => []OnlyTheChainRefusesAgain` |
| `ReadsStayTrue` | `Spec => []ReadsHold` |
| `FailuresAreReal` | `Spec => []FailuresNotInvented` |
| `RunsAreSerial` | `Spec => RunsAreAtomic` |

The inductive invariant `RunInv` says of each run, at each point it can be at,
that what it has read is what is committed now (`Current`). A run holds its order's
row from the statement that finds or inserts it (`AfterOrder`), and that lock
is exclusive. `CommitEffect` shows that a commit changes rows of one order
only, so it touches nothing another run has read. `MoveKeeps` treats
the other statements at once. `RunsAreSerial` follows: what the commit
computes from `tx` is what `ProcessEvent` computes from the rows
(`CommitIsWhole`), and no other step changes them. `ConflictOver` is
what `OnlyTheChainRefusesAgain` lacks: once an event has lost a race for a row its
order is known, so it cannot lose another. The audit chain's refusals are not
bounded: they may use up the retries, and the theorem does not say otherwise. `FailuresNotInvented` names, for each failure, the
row it was counted in, which says without a sum that a customer's rows together
count no more failures than there were. It needs `CountInv`, that what a run has
*read* of a row is accounted for in the same way, since a late commit writes it back. Proved facts about an instantiated module
cannot be cited under its new name, so the few typing lemmas of
`RecoveryCase` that are needed are proved for `Whole` again.

### PolicyStudio

| Theorem | States |
|---|---|
| `StudioTypeCorrect` | `Spec => []TypeOK` |
| `FraudIsNotContacted` | `Spec => []FraudNotContacted` |
| `MoneyGoesWhereProposed` | `Spec => []SpendsAsProposed` |
| `DisallowedIsGuarded` | `Spec => []DisallowedOnlyByGuards` |
| `PreviewsForetell` | `Spec => []PreviewForetells` |
| `HistoryIsContiguous` | `Spec => []HistoryContiguous` |
| `HistoryHasEvents` | `Spec => []HistoryIsAudited` |

The run samples some 8,000 combinations of facts; the theorems hold for every
amount, count, policy and model. The ranking is total and transitive, so that the `CHOOSE`
in `Best` has a value; `ProposalsAreCandidates` and `DecisionIsRuled` say what either
service proposes and what the rules can make of it; an answer, once given, stays, so each property is one of the operators. The two properties of
the history need `HistoryInv`: not only the committed row but every row a
request still holds has a whole history whose entries are in the audit chain,
because a late commit makes such a row the active one.

### Only model-checked

- *Liveness* (`EveryTransactionEnds`, `EnqueuedIsProcessed`, `EveryRequestEnds`,
  `EveryEventEnds`): weak fairness is defined by ENABLED, which the prover cannot
  expand.
- *The violations* of section 3: they are counterexamples, found by TLC.

## 5. What the code does that a reader may not expect

Noticed while modelling; no run is devoted to these:

- UNRECOVERABLE, EXPIRED and STOPPED are never assigned by any service, so a
  case that fails stays active and keeps blocking its order.
- The reassessment task sets WAITING_EXTERNAL cases to DETECTED directly,
  though `state_machine.py:14-17` calls the machine strict. From DETECTED no
  verdict can be recorded and captures are ignored. No schedule calls
  the task.
- `apps/worker/tasks/ingestion.py:187-199` changes the status without an audit
  event, while `docs/final_architecture.md` says every transition has one.
- Nothing after a decision compares attempts with the policy's maximum: repeated
  `/execute` calls go past it.
- A case in a cooldown gets past the fraud rule: rule 4 (`engine.py:87-106`) comes before
  rule 5 and authorises WAIT_AND_REASSESS for whatever was proposed, though
  `engine.py:116` prohibits automated recovery of fraud. `DecisionService` proposes
  doing nothing for fraud, unless the merchant disallows that;
  `AIDecisionService` may propose a reminder of an open link, or an escalation.
  `FraudNotContacted` has this wait as its one exception.
- With the language model, on by default, any candidate may be proposed and approved: a
  link or a reminder another candidate beats, also one whose expected value is
  negative. Only `DecisionService` keeps to the ranking (`SpendsAsProposed`).
- "The latest authorized decision" of `cases.py:382` need not be the latest: an
  escalated case evaluated again has two with one attempt number, and `/execute` may
  take either. An escalation that a link or a reminder has superseded may then
  be executed after all; the converse never happens (`SupersededOnlyEscalates`).
- The payment of a capture's event is made CAPTURED whatever status the event gives it,
  also REFUNDED (`verification_service.py:312`), when its order has a case that awaits
  payment. The check for CAPTURED at line 104 therefore never fails for a webhook.
- A `payment_link.paid` or `order.paid` without a payment in its payload takes the failure
  branch, because a missing status counts as `"failed"` (`webhooks.py:142`).
- Two verifications that both load a case before it is recovered both write it: credit
  and outcome are the last one's, and the audit chain records both.
- Conflicts on the audit chain count as retries of the ingestion task: enough of them
  in a row and the event is given up (`audit_ledger.py:91`, `ingestion.py:152`). A retry
  whose publication fails gives it up at once (`ingestion.py:164`).
- A verification writes credit, attempt and outcome, and returns `is_verified`, even
  when the status cannot become RECOVERED (APPROVED or ESCALATED at a capture),
  though `verification_service.py:75` says it "transitions case to RECOVERED if
  financial invariants hold".
- The row lock of the audit ledger does not "serialize sequence increments"
  (`audit_ledger.py:42`): who waited for the last row goes on with that row and
  fails on the unique constraint, which is what keeps the chain unbroken.
- Two first events of a customer give one contact two rows, and concurrent failures
  lose counts, though `order_payment_sync_service.py:32` says "Upserts customer".
- Two policy updates at once give one version number to two policies, and the later
  commit's history lacks the other, though `policies.py:126` calls it "immutable
  policy version history"; the audit chain has both (`HistoryIsAudited`).
- An archived policy lacks `require_human_escalation_for_high_risk` and
  `auto_retry_transient_failures`. No rule reads these two, nor
  `recovery_window_hours`; and the stored policy is read by its own routes only.
- `engine.py:126` says of a reminder without a link "Modify to PAYMENT_LINK if
  eligible, otherwise DO_NOTHING"; it always becomes PAYMENT_LINK. The cooldown rule
  authorises a wait even when the merchant disallows it
  (`DisallowedOnlyByGuards` lists these cases).
- `classify_razorpay_failure` compares lower-cased reason and step with
  upper-case words (`webhooks.py:75-103`), so those conditions never hold.
- After a retryable failure whose link was made all the same, the next execution has
  a new number and key: the customer may hold two links. So it is when the last
  try of a link timed out behind the gateway's back, or when the gateway answers
  with a success other than 200 and 201, which the adapter takes for a refusal.
- The route's duplicate answer says "already received and processed"
  (`webhooks.py:71`); the event is stored, not necessarily processed.

## 6. Not modelled, and why

- *Amounts in `RecoveryCase`.* Rupee amounts only reach its properties through the
  currency check and the threshold. `ExecutionRace` has the credited amount,
  `Scoring` has amounts at risk. A negative stored expected value and the amount
  zero of a webhook without a payment entity are in the hazards; every event of the
  models names a payment.
- *Floating point.* `int(p * amount)` is exact in `Scoring`; the code may be a
  paisa off.
- *Decisions during an execution.* Only the demo, the scripts and the tests call
  the decision services, one request after the other; `ExecutionRace` has no evaluation.
- *Executions during an ingestion.* `IngestionRace` has no execution, `ExecutionRace`
  has one captured payment and no failure. That a category changes between the
  two is `NoRecoveryOfFraud`.
- *The worker's hard time limit* (`task_time_limit`): a task killed by it would
  be acknowledged rather than redelivered. The soft limit raises a minute
  earlier and leads to a retry, which the model has (`Raise`).
- *The credentials' refresh* in the policy routes (`policies.py:85-93`): when the
  environment's credentials differ from the row's, all three routes write them into
  the row, which locks it for as long, also for GET and the preview, which never
  commit. It decides nothing and writes other columns than the policy's.
- *Risk score of a customer*: the enrichment service reads it, no rule does; its
  statistics are facts of an evaluation.
- *Executors' branches for a missing order or merchant row*: foreign keys make
  them unreachable.
- *The language model and its prompt*: any candidate may be proposed.
- Frontend, scripts, demo, read-only routes, migrations: no state of their own, or
  state no property is about.

## 7. Plan

Done: the core (`RecoveryCase` with its theorems), the four concurrent modules
below it, the refinements of ledger, gateway and pipeline, scoring and policies,
and a proof of every invariant and action property that a passing run checks.

Left, in this order:

1. Lemmas worth having about operators that so far only the runs evaluate: what
   `SyncedOrder` and `SyncedPayment` keep of money that has arrived, for every
   kind of webhook; that the ten rules never authorise an ineligible action.
2. Failures in `ExecutionRace`, so that ingestion and execution meet at
   statement level, and the extension of `RaceInv` they ask for.
