---------------------------- MODULE RecoveryCase ----------------------------
(***************************************************************************)
(* The life of recovery cases: RazorFlow's orchestration services over the *)
(* rows they share.  Every action is one committed database transaction:   *)
(*   - the worker's ingestion pipeline for one stored webhook event,       *)
(*   - one evaluation by the decision service,                             *)
(*   - one execution of a command by the action orchestrator,              *)
(*   - one verification (gateway poll, simulated payment),                 *)
(*   - one run of the reassessment task;                                   *)
(* a transaction that raises rolls back and is no step.  Time shows as two *)
(* facts per case: its deadline has passed, its cooldown is running.       *)
(*                                                                         *)
(* Interleavings inside these transactions are the subject of later        *)
(* modules; here the question is which sequences of committed calls lead   *)
(* where.                                                                  *)
(***************************************************************************)
EXTENDS PolicyEngine, OrderPaymentSync, Sequences, FiniteSets

CONSTANTS
  Order,         \* orders of a merchant
  Payment,       \* gateway payments
  PayOrder,      \* the order each payment is for
  Event,         \* the webhook events the gateway may deliver
  Case,          \* identities of case rows
  CaseOrder,     \* the order each case row is for
  Foreign,       \* payments in another currency than the merchant's others
  Synthetic,     \* a payment row invented by a gateway poll or a simulation
  NoPayment,     \* no payment
  MaxDispatch,   \* bound on attempts of one case
  MaxSynthetic   \* bound on synthetic payments of one order

\* What the pipeline reads of a raw event: its kind, the payment it carries, that
\* payment's status and the category its error fields are classified as.
RawEvent ==
  [kind : EventKinds, status : EntityStatuses, payment : Payment,
   category : Categories]

ASSUME CaseAssumption ==
  /\ Event \subseteq RawEvent
  /\ PayOrder \in [Payment -> Order]
  /\ CaseOrder \in [Case -> Order]
  /\ Foreign \subseteq Payment
  /\ Synthetic \notin Payment
  /\ NoPayment \notin Payment \union {Synthetic}
  /\ MaxDispatch \in Nat
  /\ MaxSynthetic \in Nat

VARIABLES
  orderStatus,    \* orders row: "ABSENT" before the first event names it
  paymentStatus,  \* payments row: "ABSENT" before the first event names it
  synthetic,      \* per order, how many synthetic captured payments exist
  processed,      \* the webhook events processed so far
  cases,          \* recovery_cases rows
  decisions,      \* per case, its recovery_decisions in order of creation
  attempts,       \* per case, its recovery_attempts in order of creation
  outcomes,       \* per case, its recovery_outcomes row
  ledger          \* length of the merchant's audit chain

vars == <<orderStatus, paymentStatus, synthetic, processed, cases, decisions,
          attempts, outcomes, ledger>>

orderVars == <<orderStatus, paymentStatus, synthetic, processed>>

----------------------------------------------------------------------------
(* Rows *)

Settler == Payment \union {Synthetic}

CaseRow ==
  [status    : CaseStatuses \union {"ABSENT"},
   category  : Categories,
   foreign   : BOOLEAN,       \* the case's currency
   count     : Nat,           \* current_attempt_count
   scheduled : BOOLEAN,       \* next_action_scheduled_at is set
   expired   : BOOLEAN,       \* deadline_at has passed
   cooling   : BOOLEAN,       \* last_attempt_at is within the cooldown
   credited  : Settler \union {NoPayment}]  \* whose amount amount_recovered is

Decision == [number : Nat, verdict : Verdicts, action : Actions]

\* link is 0, or the position of the attempt that created the payment link
\* this attempt refers to: the gateway reference.
Attempt ==
  [number : Nat, action : Actions, status : AttemptStatuses, link : Nat,
   decision : Nat]

\* attempt is 0, or the position of the attempt the recovery is credited to.
Outcome == [payment : Settler \union {NoPayment}, attempt : Nat]

NoCase ==
  [status |-> "ABSENT", category |-> "UNKNOWN", foreign |-> FALSE, count |-> 0,
   scheduled |-> FALSE, expired |-> FALSE, cooling |-> FALSE,
   credited |-> NoPayment]

NoOutcome == [payment |-> NoPayment, attempt |-> 0]

Exists(c) == cases[c].status # "ABSENT"

Active(c) == cases[c].status \in ActiveStatuses

ActiveCases(o) == {c \in Case : CaseOrder[c] = o /\ Active(c)}

Init ==
  /\ orderStatus = [o \in Order |-> "ABSENT"]
  /\ paymentStatus = [p \in Payment |-> "ABSENT"]
  /\ synthetic = [o \in Order |-> 0]
  /\ processed = {}
  /\ cases = [c \in Case |-> NoCase]
  /\ decisions = [c \in Case |-> <<>>]
  /\ attempts = [c \in Case |-> <<>>]
  /\ outcomes = [c \in Case |-> NoOutcome]
  /\ ledger = 0

\* The most recent of some attempts of a case.
Latest(S) == CHOOSE i \in S : \A j \in S : j <= i

----------------------------------------------------------------------------
(* Verification: verify_and_recover_case *)

\* The latest attempt whose gateway reference is the given link, or the latest
\* attempt when none is (0 when there is none at all).
MatchingAttempt(c, link) ==
  LET refs == {i \in DOMAIN attempts[c] : link > 0 /\ attempts[c][i].link = link}
  IN  IF refs = {} THEN Len(attempts[c]) ELSE Latest(refs)

StatusBeforeRecovery(s) ==
  IF CanTransition(s, "VERIFYING") THEN "VERIFYING" ELSE s

\* The credited amount and the outcome are written whether or not the status
\* could move to RECOVERED.
Verify(c, settling, link) ==
  LET before == StatusBeforeRecovery(cases[c].status)
      after  == IF CanTransition(before, "RECOVERED") THEN "RECOVERED" ELSE before
      match  == MatchingAttempt(c, link)
  IN  /\ cases' = [cases EXCEPT ![c].status = after, ![c].credited = settling]
      /\ attempts' =
           IF match > 0 /\ AttemptCan(attempts[c][match].status, "SUCCEEDED")
             THEN [attempts EXCEPT ![c][match].status = "SUCCEEDED"]
             ELSE attempts
      /\ outcomes' =
           [outcomes EXCEPT ![c] = [payment |-> settling, attempt |-> match]]
      /\ ledger' = ledger + 1

SettlementAllowedAgain(c, status, foreign) ==
  status = "CAPTURED" /\ cases[c].foreign = foreign

SettlementAllowedInAnyCurrency(c, status, foreign) ==
  cases[c].status # "RECOVERED" /\ status = "CAPTURED"

\* A recovered case is left alone, and a payment that is not captured, or is in
\* another currency than the case, does not settle it.
SettlementAllowed(c, status, foreign) ==
  /\ cases[c].status # "RECOVERED"
  /\ status = "CAPTURED"
  /\ cases[c].foreign = foreign

VerifyOrSkip(c, settling, status, foreign, link) ==
  IF SettlementAllowed(c, status, foreign)
    THEN Verify(c, settling, link)
    ELSE UNCHANGED <<cases, attempts, outcomes, ledger>>

----------------------------------------------------------------------------
(* The ingestion pipeline *)

\* The order is synchronised and the payment left in the given status.
SyncWith(e, status) ==
  LET o == PayOrder[e.payment]
  IN  /\ e \notin processed
      /\ processed' = processed \union {e}
      /\ orderStatus' = [orderStatus EXCEPT ![o] = SyncedOrder(@, e)]
      /\ paymentStatus' = [paymentStatus EXCEPT ![e.payment] = status]
      /\ UNCHANGED synthetic

Sync(e) == SyncWith(e, SyncedPayment(paymentStatus[e.payment], e))

\* A failure of an order that has an active case updates the diagnosis.
AppendFailure(e) ==
  /\ IsFailure(e)
  /\ Sync(e)
  /\ \E c \in ActiveCases(PayOrder[e.payment]) :
       cases' = [cases EXCEPT ![c].category = e.category]
  /\ ledger' = ledger + 1
  /\ UNCHANGED <<decisions, attempts, outcomes>>

OrderNeedsCaseIfUndecided(o) ==
  \A c \in ActiveCases(o) : cases[c].status # "DIAGNOSING"

OrderNeedsCase(o) == ActiveCases(o) = {}

\* Otherwise a case is opened; DETECTED and ENRICHING are passed through
\* within the transaction.
OpenCase(e) ==
  /\ IsFailure(e)
  /\ Sync(e)
  /\ OrderNeedsCase(PayOrder[e.payment])
  /\ \E c \in Case :
       /\ ~Exists(c)
       /\ CaseOrder[c] = PayOrder[e.payment]
       /\ cases' = [cases EXCEPT ![c] =
                      [NoCase EXCEPT !.status = "DIAGNOSING",
                                     !.category = e.category,
                                     !.foreign = (e.payment \in Foreign)]]
  /\ ledger' = ledger + 1
  /\ UNCHANGED <<decisions, attempts, outcomes>>

\* The statuses in which a captured payment is matched with a case.
VerifiableStatuses ==
  {"APPROVED", "EXECUTING", "WAITING_EXTERNAL", "VERIFYING", "ESCALATED"}

Verifiable(o) == {c \in ActiveCases(o) : cases[c].status \in VerifiableStatuses}

\* A payment_link.paid event names the link that was paid, any other does not.
LinksNamed(e, c) ==
  IF e.kind = "payment_link.paid" THEN 0 .. Len(attempts[c]) ELSE {0}

\* The payment is made CAPTURED before its currency is compared with the case's,
\* so it is captured also when it does not settle the case.
CaptureForCase(e) ==
  LET status == SettledPayment(paymentStatus[e.payment], e)
  IN  /\ IsCapture(e)
      /\ SyncWith(e, status)
      /\ \E c \in Verifiable(PayOrder[e.payment]) :
           \E link \in LinksNamed(e, c) :
             VerifyOrSkip(c, e.payment, status, e.payment \in Foreign, link)
      /\ UNCHANGED decisions

\* Events that only synchronise: an authorization, a refund, or a capture that
\* finds no case to verify.
SyncOnly(e) ==
  /\ ~IsFailure(e)
  /\ Sync(e)
  /\ IsCapture(e) => Verifiable(PayOrder[e.payment]) = {}
  /\ UNCHANGED <<cases, decisions, attempts, outcomes, ledger>>

----------------------------------------------------------------------------
(* The decision service *)

Facts(c, link, concierge, high) ==
  [status |-> cases[c].status, expired |-> cases[c].expired,
   count |-> cases[c].count, cooling |-> cases[c].cooling,
   category |-> cases[c].category, link |-> link,
   high |-> high, concierge |-> concierge]

StatusBeforeVerdict(s) ==
  IF s \in {"DIAGNOSING", "STRATEGY_GENERATED"} THEN "POLICY_CHECK_PENDING" ELSE s

VerdictTarget(ruling) ==
  CASE ruling.verdict = "APPROVED"  -> "APPROVED"
    [] ruling.verdict = "ESCALATED" -> "ESCALATED"
    [] ruling.verdict = "MODIFIED" /\ ruling.action # "DO_NOTHING" -> "APPROVED"
    [] OTHER -> "REJECTED"

\* The rows one ruling leads to.
RecordDecision(c, ruling) ==
  /\ CanTransition(StatusBeforeVerdict(cases[c].status), VerdictTarget(ruling))
  /\ cases' = [cases EXCEPT ![c].status = VerdictTarget(ruling)]
  /\ decisions' = [decisions EXCEPT ![c] =
       Append(@, [number  |-> cases[c].count + 1,
                  verdict |-> ruling.verdict,
                  action  |-> ruling.action])]

\* The proposal is any candidate: the model's choice when it is one, otherwise
\* the head of the score ranking.  Whether the caller's context mentions a link
\* or grounds for an escalation is open, and so is whether the amount reaches the
\* threshold, which the merchant may change between two evaluations.
Decide(c) ==
  /\ Exists(c)
  /\ \E link, concierge, high \in BOOLEAN :
       LET f == Facts(c, link, concierge, high)
       IN \E proposed \in Candidates(f) :
          \E fallback \in Fallbacks(proposed, Candidates(f)) :
            RecordDecision(c, Evaluate(proposed, f, fallback))
  /\ ledger' = ledger + 1
  /\ UNCHANGED <<orderVars, attempts, outcomes>>

----------------------------------------------------------------------------
(* The action orchestrator and its executors *)

Result(status, target, link) ==
  [status |-> status, target |-> target, link |-> link]

OpenLinksIgnoringFailure(c) ==
  {i \in DOMAIN attempts[c] : attempts[c][i].action = "PAYMENT_LINK"}

\* Open links of a case: those of its payment link attempts that were accepted.
OpenLinks(c) ==
  {i \in DOMAIN attempts[c] :
     /\ attempts[c][i].action = "PAYMENT_LINK"
     /\ attempts[c][i].link > 0
     /\ attempts[c][i].status \in {"ACKNOWLEDGED", "SUCCEEDED"}}

\* The gateway accepts the link, fails in a way worth a retry, or refuses.
PaymentLinkResults(c) ==
  {Result("ACKNOWLEDGED", "WAITING_EXTERNAL", Len(attempts[c]) + 1),
   Result("FAILED", "DIAGNOSING", 0),
   Result("FAILED", "WAITING_EXTERNAL", 0)}

ReminderResults(c) ==
  IF OpenLinks(c) = {}
    THEN {Result("FAILED", "DIAGNOSING", 0)}
    ELSE {Result(s, "WAITING_EXTERNAL", attempts[c][Latest(OpenLinks(c))].link) :
            s \in {"ACKNOWLEDGED", "FAILED"}}

ExecutorResults(c, action) ==
  CASE action = "PAYMENT_LINK"      -> PaymentLinkResults(c)
    [] action = "CUSTOMER_REMINDER" -> ReminderResults(c)
    [] action = "WAIT_AND_REASSESS" -> {Result("SUCCEEDED", "WAITING_EXTERNAL", 0)}
    [] action = "HUMAN_ESCALATION"  -> {Result("SUCCEEDED", "ESCALATED", 0)}
    [] OTHER                        -> {}

\* The idempotency key of an attempt is its case, number and action.
KeyUsed(c, number, action) ==
  \E i \in DOMAIN attempts[c] :
    attempts[c][i].number = number /\ attempts[c][i].action = action

CountAfterSuccess(c, r) ==
  IF r.status = "FAILED" THEN cases[c].count ELSE cases[c].count + 1

CountAfter(c, r) == cases[c].count + 1

MustEnterExecuting(s) == s \in {"APPROVED", "ESCALATED"}

\* The rows one result of an executor leads to.
RecordAttempt(c, number, action, d, r) ==
  LET before == IF MustEnterExecuting(cases[c].status)
                  THEN "EXECUTING" ELSE cases[c].status
  IN  /\ cases' = [cases EXCEPT
            ![c].status    = IF CanTransition(before, r.target)
                               THEN r.target ELSE before,
            ![c].count     = CountAfter(c, r),
            ![c].cooling   = TRUE,
            ![c].scheduled = (@ \/ action = "WAIT_AND_REASSESS")]
      /\ attempts' = [attempts EXCEPT ![c] =
            Append(@, [number |-> number, action |-> action,
                       status |-> r.status, link |-> r.link,
                       decision |-> d])]

\* execute_command; from an ESCALATED case the transition to EXECUTING raises.
\* A known key returns the existing attempt and changes nothing.
Dispatch(c, number, action, d) ==
  /\ ~KeyUsed(c, number, action)
  /\ Active(c)
  /\ MustEnterExecuting(cases[c].status) => CanTransition(cases[c].status, "EXECUTING")
  /\ Len(attempts[c]) < MaxDispatch
  /\ \E r \in ExecutorResults(c, action) : RecordAttempt(c, number, action, d, r)
  /\ ledger' = ledger + 2
  /\ UNCHANGED <<orderVars, decisions, outcomes>>

LatestDecisionsUnordered(c) == DOMAIN decisions[c]

\* The decisions ORDER BY attempt_number DESC LIMIT 1 may return.
LatestDecisions(c) ==
  {d \in DOMAIN decisions[c] :
     \A k \in DOMAIN decisions[c] : decisions[c][k].number <= decisions[c][d].number}

\* POST /cases/{id}/execute: the next attempt number, the latest decision.
ExecuteLatest(c) ==
  \E d \in LatestDecisions(c) :
    /\ decisions[c][d].action # "DO_NOTHING"
    /\ Dispatch(c, cases[c].count + 1, decisions[c][d].action, d)

\* The command an evaluation returned, executed by its caller, perhaps late.
ExecuteCommand(c) ==
  \E d \in DOMAIN decisions[c] :
    /\ decisions[c][d].action # "DO_NOTHING"
    /\ decisions[c][d].verdict # "REJECTED"
    /\ Dispatch(c, decisions[c][d].number, decisions[c][d].action, d)

----------------------------------------------------------------------------
(* Gateway poll, simulated payment, reassessment *)

\* The most recent attempt that created a link decides which link is polled.
PolledLinks(c) ==
  {i \in DOMAIN attempts[c] :
     attempts[c][i].action = "PAYMENT_LINK" /\ attempts[c][i].link > 0}

AddSynthetic(o) ==
  /\ synthetic[o] < MaxSynthetic
  /\ synthetic' = [synthetic EXCEPT ![o] = @ + 1]

\* poll_and_reconcile_case when the gateway reports the link as paid: a captured
\* payment in the case's currency is made up for it.
Poll(c) ==
  /\ Exists(c)
  /\ PolledLinks(c) # {}
  /\ orderStatus' = [orderStatus EXCEPT ![CaseOrder[c]] = "PAID"]
  /\ AddSynthetic(CaseOrder[c])
  /\ VerifyOrSkip(c, Synthetic, "CAPTURED", cases[c].foreign,
                  attempts[c][Latest(PolledLinks(c))].link)
  /\ UNCHANGED <<paymentStatus, processed, decisions>>

\* POST /cases/{id}/simulate-payment; the order row is left as it is.
SimulatePayment(c) ==
  /\ Exists(c)
  /\ AddSynthetic(CaseOrder[c])
  /\ VerifyOrSkip(c, Synthetic, "CAPTURED", cases[c].foreign, 0)
  /\ UNCHANGED <<orderStatus, paymentStatus, processed, decisions>>

\* The reassessment task, over every case whose delay has expired.
Reassess(due) ==
  /\ due # {}
  /\ \A c \in due : cases[c].status = "WAITING_EXTERNAL" /\ cases[c].scheduled
  /\ cases' = [c \in Case |->
                 IF c \in due
                   THEN [cases[c] EXCEPT !.status = "DETECTED", !.scheduled = FALSE]
                   ELSE cases[c]]
  /\ UNCHANGED <<orderVars, decisions, attempts, outcomes, ledger>>

----------------------------------------------------------------------------
(* Time *)

DeadlinePasses(c) ==
  /\ Exists(c)
  /\ ~cases[c].expired
  /\ cases' = [cases EXCEPT ![c].expired = TRUE]
  /\ UNCHANGED <<orderVars, decisions, attempts, outcomes, ledger>>

CooldownEnds(c) ==
  /\ cases[c].cooling
  /\ cases' = [cases EXCEPT ![c].cooling = FALSE]
  /\ UNCHANGED <<orderVars, decisions, attempts, outcomes, ledger>>

----------------------------------------------------------------------------

ProcessEvent(e) ==
  AppendFailure(e) \/ OpenCase(e) \/ CaptureForCase(e) \/ SyncOnly(e)

CaseStep(c) ==
  \/ Decide(c)
  \/ ExecuteLatest(c)
  \/ ExecuteCommand(c)
  \/ Poll(c)
  \/ SimulatePayment(c)
  \/ DeadlinePasses(c)
  \/ CooldownEnds(c)

Next ==
  \/ \E e \in Event : ProcessEvent(e)
  \/ \E c \in Case : CaseStep(c)
  \/ \E due \in SUBSET Case : Reassess(due)

Spec == Init /\ [][Next]_vars

\* The case service is called again and again for a case that can be executed.
FairSpec == Spec /\ \A c \in Case : WF_vars(ExecuteLatest(c))

----------------------------------------------------------------------------
(* Properties *)

\* Every row has the shape its table gives it.
TypeOK ==
  /\ orderStatus \in [Order -> OrderStatuses \union {"ABSENT"}]
  /\ paymentStatus \in [Payment -> PaymentStatuses \union {"ABSENT"}]
  /\ synthetic \in [Order -> Nat]
  /\ processed \subseteq Event
  /\ cases \in [Case -> CaseRow]
  /\ decisions \in [Case -> Seq(Decision)]
  /\ attempts \in [Case -> Seq(Attempt)]
  /\ outcomes \in [Case -> Outcome]
  /\ ledger \in Nat

\* CaseCreationService: only one active recovery case exists per order, in
\* whatever order failures, decisions, executions and captures commit.
OneActiveCasePerOrder ==
  \A c1, c2 \in Case :
    /\ CaseOrder[c1] = CaseOrder[c2]
    /\ cases[c1].status \notin TerminalStatuses \union {"ABSENT"}
    /\ cases[c2].status \notin TerminalStatuses \union {"ABSENT"}
    => c1 = c2

\* VerificationService: a case is RECOVERED only with an outcome row that names
\* the settling payment whose amount the case was credited with, a payment for
\* the case's own order and in its currency.
RecoveredHasProof ==
  \A c \in Case : cases[c].status = "RECOVERED" =>
    LET p == outcomes[c].payment
    IN  /\ p # NoPayment
        /\ cases[c].credited = p
        /\ p \in Payment => /\ PayOrder[p] = CaseOrder[c]
                           /\ (p \in Foreign) = cases[c].foreign

\* ActionOrchestrator: current_attempt_count counts the attempts; no attempt and
\* no decision carries a number ahead of it, so the next attempt number has
\* never been used.
AttemptBookkeeping ==
  \A c \in Case :
    /\ cases[c].count = Len(attempts[c])
    /\ \A i \in DOMAIN attempts[c] : attempts[c][i].number \in 1 .. i
    /\ \A d \in DOMAIN decisions[c] :
         decisions[c][d].number \in 1 .. cases[c].count + 1

\* Every attempt carries out the action of a decision of its own case.  The case
\* service looks for "the latest authorized decision" by its attempt number, which
\* an escalated case that is evaluated again gives to two decisions, and a command
\* may be executed late.  Still, a decision that was superseded for the attempt's
\* number can only have been an escalation: it hands the case to a human, and
\* neither a link nor a reminder nor a wait is ever carried out on it.
SupersededOnlyEscalates ==
  \A c \in Case : \A i \in DOMAIN attempts[c] :
    LET d == attempts[c][i].decision
    IN  /\ d \in DOMAIN decisions[c]
        /\ attempts[c][i].action = decisions[c][d].action
        /\ \A k \in DOMAIN decisions[c] :
             k > d /\ decisions[c][k].number <= attempts[c][i].number
               => attempts[c][i].action = "HUMAN_ESCALATION"

\* A reminder that went out refers to a link that a payment link attempt of the
\* same case created before it and that the gateway had accepted.
RemindersFollowLinks ==
  \A c \in Case : \A i \in DOMAIN attempts[c] :
    LET a == attempts[c][i]
    IN  a.action = "CUSTOMER_REMINDER" /\ a.status # "FAILED" =>
          /\ a.link \in 1 .. i - 1
          /\ attempts[c][a.link].action = "PAYMENT_LINK"
          /\ attempts[c][a.link].link = a.link
          /\ attempts[c][a.link].status \in {"ACKNOWLEDGED", "SUCCEEDED"}

\* An attempt an outcome is credited to is over: it succeeded or had failed, and
\* no result is awaited of it.
CreditedAttemptClosed ==
  \A c \in Case : outcomes[c].attempt > 0 =>
    /\ outcomes[c].attempt \in DOMAIN attempts[c]
    /\ attempts[c][outcomes[c].attempt].status \in {"SUCCEEDED", "FAILED"}

\* Of services that work on a case one after another (each step here is one whole
\* transaction on rows nobody else has in hand): none touches a case that was
\* terminal when it started.  No status change, attempt, decision, outcome or
\* credit, whatever captures, polls, commands and failures follow.  It is not so
\* of services that work on one case at the same time: see RecoveredStaysRecovered
\* and OnlyStaleRequestsReopen in ExecutionRace.
TerminalIsFinalInTurn ==
  [][\A c \in Case : cases[c].status \in TerminalStatuses =>
       /\ cases'[c].status = cases[c].status
       /\ cases'[c].credited = cases[c].credited
       /\ attempts'[c] = attempts[c]
       /\ decisions'[c] = decisions[c]
       /\ outcomes'[c] = outcomes[c]]_vars

\* VerificationService, "no false RECOVERED declarations without verified captured
\* payment proof", both ways: an outcome comes to name a gateway payment only in
\* a step that leaves that payment CAPTURED, and an event of a capture, whatever
\* the status of the payment it carries, settles every case of its order that
\* awaits one in its currency: the status check never aborts it.
SettledByCapture ==
  [][/\ \A c \in Case :
          outcomes'[c] # outcomes[c] /\ outcomes'[c].payment \in Payment
            => paymentStatus'[outcomes'[c].payment] = "CAPTURED"
     /\ \A e \in processed' \ processed : IsCapture(e) =>
          \A c \in Verifiable(PayOrder[e.payment]) :
            cases[c].foreign = (e.payment \in Foreign)
              => outcomes'[c].payment = e.payment]_vars

----------------------------------------------------------------------------
(* What the repository says of the program and the program does not do *)

\* "Automated recovery prohibited for transactions flagged as FRAUD_RISK_BLOCK":
\* no attempt is made on a case that carries the flag.
NoRecoveryOfFraud ==
  [][\A c \in Case : Len(attempts'[c]) > Len(attempts[c])
       => cases[c].category # "FRAUD"]_vars

\* "Guarantees that a CAPTURED payment is not downgraded to FAILED": the payment
\* that settled a recovered case, captured at that time, is never FAILED.
SettlingPaymentNotFailed ==
  \A c \in Case : \A p \in Payment :
    cases[c].status = "RECOVERED" /\ outcomes[c].payment = p
      => paymentStatus[p] # "FAILED"

\* "Advance Case State Machine: APPROVED -> EXECUTING (or ESCALATED -> EXECUTING)":
\* an escalated case whose command is executed gets an attempt.
EscalationIsExecuted ==
  \A c \in Case : cases[c].status = "ESCALATED" ~> attempts[c] # <<>>

=============================================================================
