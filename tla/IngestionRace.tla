---------------------------- MODULE IngestionRace ----------------------------
(***************************************************************************)
(* The ingestion pipeline of one merchant's events                         *)
(* (_execute_ingestion_pipeline in apps/worker/tasks/ingestion.py) run by  *)
(* several workers at once, statement by statement: customer, order,       *)
(* payment, then the case.  RecoveryCase takes each run as one step; here  *)
(* they interleave, and are shown to amount to such steps.                 *)
(*                                                                         *)
(* The database runs READ COMMITTED: a statement sees what is committed,   *)
(* SELECT ... FOR UPDATE waits for a row it sees and returns its latest    *)
(* version, an INSERT waits for an uncommitted row of the same unique key  *)
(* and raises when that was committed.  Writes are published by the        *)
(* commit.  The customer is read without a lock and has no unique key.     *)
(*                                                                         *)
(* Each event has one run at a time (WebhookIngestion).  What executions   *)
(* and evaluations of the case do meanwhile is the subject of              *)
(* ExecutionRace.  Names, risk scores and amounts are left out; every      *)
(* event carries its buyer's one contact.                                  *)
(***************************************************************************)
EXTENDS OrderPaymentSync, Sequences, FiniteSets

CONSTANTS
  Order, Payment, PayOrder, Event, Case, CaseOrder, Foreign, Synthetic, NoPayment,
  Buyer,       \* contacts of customers
  BuyerOf,     \* the contact the events of a payment carry
  MaxRetries,  \* max_retries of the task
  Mixes        \* which events may come together

ASSUME PipelineAssumption ==
  /\ Event \subseteq [kind : EventKinds, status : EntityStatuses, payment : Payment,
                      category : Categories]
  /\ PayOrder \in [Payment -> Order]
  /\ CaseOrder \in [Case -> Order]
  /\ BuyerOf \in [Payment -> Buyer]
  /\ MaxRetries \in Nat
  /\ Mixes \subseteq SUBSET Event

VARIABLES
  orderStatus, paymentStatus, synthetic, processed, cases, decisions, attempts,
  outcomes, ledger,  \* the committed rows, as in RecoveryCase
  customers,         \* per buyer, total_failure_count of each customers row
  pc,                \* per event, what its run has done
  tx,                \* per event, what its run has read
  retries,           \* per event, how often its run was repeated
  conflicts,         \* per event, how often a unique constraint was violated,
  refusals           \* and how many of these times that of the audit chain

rows == <<orderStatus, paymentStatus, synthetic, processed, cases, decisions,
          attempts, outcomes, ledger>>

vars == <<rows, customers, pc, tx, retries, conflicts, refusals>>

\* The same rows under whole runs of the pipeline.
Whole == INSTANCE RecoveryCase WITH
  PolicyMaxAttempts <- 1, CaseMaxAttempts <- 1, Disallowed <- {},
  MaxDispatch <- 1, MaxSynthetic <- 0

----------------------------------------------------------------------------

\* customer is the position of the row found, 0 for none; failures its counter,
\* order and payment the statuses, case the rows found ({} for none).
NothingRead ==
  [customer |-> 0, failures |-> 0, order |-> "ABSENT", payment |-> "ABSENT", case |-> {}]

OrderOf(e) == PayOrder[e.payment]

Has(e, point) == pc[e] = point

Goto(e, point) == pc' = [pc EXCEPT ![e] = point]

Others(e) == Event \ {e}

\* Where a run has flushed a new or changed customer; written or locked its
\* order; its payment; its case.
AfterPayment  == {"payment", "noCase", "ready"}
AfterOrder    == {"order", "noPayment"} \union AfterPayment
AfterCustomer == {"customer", "noOrder"} \union AfterOrder

Running(e) == pc[e] \in AfterCustomer \union {"found"}

MayRetryForever(e) == TRUE

MayRetry(e) == retries[e] < MaxRetries

\* The transaction is rolled back, and the task repeated or given up.
RolledBack(e) ==
  /\ IF MayRetry(e)
       THEN Goto(e, "idle") /\ retries' = [retries EXCEPT ![e] = @ + 1]
       ELSE Goto(e, "gaveUp") /\ UNCHANGED retries
  /\ tx' = [tx EXCEPT ![e] = NothingRead]

ConflictUncaught(e) ==
  /\ Goto(e, "raised")
  /\ conflicts' = [conflicts EXCEPT ![e] = @ + 1]
  /\ UNCHANGED <<tx, retries, refusals>>

Conflict(e) ==
  /\ RolledBack(e)
  /\ conflicts' = [conflicts EXCEPT ![e] = @ + 1]
  /\ UNCHANGED refusals

NoConflict == UNCHANGED <<retries, conflicts, refusals>>

InsertReplacing(e, uncommitted, committed, point) ==
  /\ ~uncommitted
  /\ Goto(e, point)
  /\ NoConflict
  /\ UNCHANGED <<tx, rows, customers>>

\* An INSERT, given whether its key is in an uncommitted row and in a committed
\* one: it waits for the first and raises on the second.
Insert(e, uncommitted, committed, point) ==
  /\ ~uncommitted
  /\ IF committed THEN Conflict(e)
                  ELSE Goto(e, point) /\ UNCHANGED tx /\ NoConflict
  /\ UNCHANGED <<rows, customers>>

----------------------------------------------------------------------------
(* sync_customer *)

\* One of the rows with the buyer's contact, whichever comes first.
FindCustomer(e) ==
  /\ Has(e, "idle")
  /\ LET known == customers[BuyerOf[e.payment]]
     IN  \E i \in IF known = <<>> THEN {0} ELSE DOMAIN known :
           tx' = [tx EXCEPT ![e] = [NothingRead EXCEPT
                    !.customer = i,
                    !.failures = IF i = 0 THEN 0 ELSE known[i]]]
  /\ Goto(e, "found")
  /\ NoConflict
  /\ UNCHANGED <<rows, customers>>

\* Only a failure writes to a customer that was found.
CountsCustomer(e) == tx[e].customer > 0 /\ e.status = "failed"

HoldsCustomer(f, buyer, i) ==
  /\ pc[f] \in AfterCustomer
  /\ CountsCustomer(f)
  /\ BuyerOf[f.payment] = buyer
  /\ tx[f].customer = i

\* The UPDATE waits for the row, and writes what was computed before.
FlushCustomer(e) ==
  /\ Has(e, "found")
  /\ CountsCustomer(e) =>
       \A f \in Others(e) : ~HoldsCustomer(f, BuyerOf[e.payment], tx[e].customer)
  /\ Goto(e, "customer")
  /\ NoConflict
  /\ UNCHANGED <<tx, rows, customers>>

CountOfAny(e) == tx[e].failures + 1

Count(e) == tx[e].failures + IF e.status = "failed" THEN 1 ELSE 0

CustomersAfter(e) ==
  LET b == BuyerOf[e.payment]
  IN  IF tx[e].customer = 0 THEN [customers EXCEPT ![b] = Append(@, Count(e))]
      ELSE IF CountsCustomer(e) THEN [customers EXCEPT ![b][tx[e].customer] = Count(e)]
      ELSE customers

----------------------------------------------------------------------------
(* sync_order and sync_payment *)

OrderUnlockedAlways(e) == TRUE

OrderUnlocked(e) ==
  \A f \in Others(e) : ~(pc[f] \in AfterOrder /\ OrderOf(f) = OrderOf(e))

OrderKnownToRun(e) == tx[e].order # "ABSENT"

OrderKnown(e) == orderStatus[OrderOf(e)] # "ABSENT"

\* SELECT ... FOR UPDATE of the order; one that is there is updated at once.
LockOrder(e) ==
  /\ Has(e, "customer")
  /\ IF OrderKnown(e)
       THEN /\ OrderUnlocked(e)
            /\ Goto(e, "order")
            /\ tx' = [tx EXCEPT ![e].order = orderStatus[OrderOf(e)]]
       ELSE Goto(e, "noOrder") /\ UNCHANGED tx
  /\ NoConflict
  /\ UNCHANGED <<rows, customers>>

InsertOrder(e) ==
  /\ Has(e, "noOrder")
  /\ Insert(e, ~OrderUnlocked(e), orderStatus[OrderOf(e)] # "ABSENT", "order")

PaymentUnlocked(e) ==
  \A f \in Others(e) : ~(pc[f] \in AfterPayment /\ f.payment = e.payment)

LockPayment(e) ==
  /\ Has(e, "order")
  /\ IF paymentStatus[e.payment] = "ABSENT"
       THEN Goto(e, "noPayment") /\ UNCHANGED tx
       ELSE /\ PaymentUnlocked(e)
            /\ Goto(e, "payment")
            /\ tx' = [tx EXCEPT ![e].payment = paymentStatus[e.payment]]
  /\ NoConflict
  /\ UNCHANGED <<rows, customers>>

InsertPayment(e) ==
  /\ Has(e, "noPayment")
  /\ Insert(e, ~PaymentUnlocked(e), paymentStatus[e.payment] # "ABSENT", "payment")

----------------------------------------------------------------------------
(* The recovery case *)

CaseUnlocked(e) ==
  \A f \in Others(e) :
    ~(pc[f] = "ready" /\ IsFailure(f) /\ OrderOf(f) = OrderOf(e))

\* A failure locks the order's active case, or finds none.
FindCaseOfFailure(e) ==
  /\ Has(e, "payment")
  /\ IsFailure(e)
  /\ LET active == Whole!ActiveCases(OrderOf(e))
     IN  IF active = {} THEN Goto(e, "noCase") /\ UNCHANGED tx
                        ELSE /\ CaseUnlocked(e)
                             /\ Goto(e, "ready")
                             /\ tx' = [tx EXCEPT ![e].case = active]
  /\ NoConflict
  /\ UNCHANGED <<rows, customers>>

\* uq_active_order_recovery_case
InsertCase(e) ==
  /\ Has(e, "noCase")
  /\ Insert(e, ~CaseUnlocked(e), Whole!ActiveCases(OrderOf(e)) # {}, "ready")

CasesFound(e) ==
  {c \in Whole!ActiveCases(OrderOf(e)) :
     IsCapture(e) => cases[c].status \in Whole!VerifiableStatuses}

\* A capture looks for a case it can verify, without locking it; any other event
\* has nothing to do.
FindCaseOfCapture(e) ==
  /\ Has(e, "payment")
  /\ ~IsFailure(e)
  /\ Goto(e, "ready")
  /\ tx' = [tx EXCEPT ![e].case = IF IsCapture(e) THEN CasesFound(e) ELSE {}]
  /\ NoConflict
  /\ UNCHANGED <<rows, customers>>

----------------------------------------------------------------------------
(* The commit *)

\* A capture that found its case makes the payment CAPTURED.
PaymentAfter(e) ==
  IF IsCapture(e) /\ tx[e].case # {}
    THEN SettledPayment(tx[e].payment, e)
    ELSE SyncedPayment(tx[e].payment, e)

NewCase(e) ==
  [Whole!NoCase EXCEPT !.status = "DIAGNOSING", !.category = e.category,
                       !.foreign = (e.payment \in Foreign)]

WriteCase(e) ==
  IF IsFailure(e)
    THEN /\ IF tx[e].case = {}
              THEN \E c \in Case : /\ CaseOrder[c] = OrderOf(e) /\ ~Whole!Exists(c)
                                   /\ cases' = [cases EXCEPT ![c] = NewCase(e)]
              ELSE \E c \in tx[e].case : cases' = [cases EXCEPT ![c].category = e.category]
         /\ ledger' = ledger + 1
         /\ UNCHANGED <<attempts, outcomes>>
    ELSE IF tx[e].case = {}
           THEN UNCHANGED <<cases, attempts, outcomes, ledger>>
           ELSE \E c \in tx[e].case : \E link \in Whole!LinksNamed(e, c) :
                  Whole!VerifyOrSkip(c, e.payment, PaymentAfter(e),
                                     e.payment \in Foreign, link)

Commit(e) ==
  /\ Has(e, "ready")
  /\ orderStatus' = [orderStatus EXCEPT ![OrderOf(e)] = SyncedOrder(tx[e].order, e)]
  /\ paymentStatus' = [paymentStatus EXCEPT ![e.payment] = PaymentAfter(e)]
  /\ customers' = CustomersAfter(e)
  /\ WriteCase(e)
  /\ processed' = processed \union {e}
  /\ Goto(e, "done")
  /\ tx' = [tx EXCEPT ![e] = NothingRead]
  /\ NoConflict
  /\ UNCHANGED <<synthetic, decisions>>

\* Every failure, and every capture that verifies a case, appends to the audit chain.
RecordsEvent(e) ==
  \/ IsFailure(e)
  \/ \E c \in tx[e].case :
       Whole!SettlementAllowed(c, PaymentAfter(e), e.payment \in Foreign)

\* UNIQUE (merchant, sequence): an evaluation, an execution or another run of the
\* merchant has taken the sequence number this run had read (see AuditLedger).
\* That may happen to every run of the event.
AuditRefuses(e) ==
  /\ Has(e, "ready")
  /\ RecordsEvent(e)
  /\ RolledBack(e)
  /\ conflicts' = [conflicts EXCEPT ![e] = @ + 1]
  /\ refusals' = [refusals EXCEPT ![e] = @ + 1]
  /\ UNCHANGED <<rows, customers>>

\* Another error, or a lost worker.
Fail(e) ==
  /\ Running(e)
  /\ RolledBack(e)
  /\ UNCHANGED <<rows, customers, conflicts, refusals>>

----------------------------------------------------------------------------

\* A merchant without history,
NothingKnown ==
  /\ orderStatus = [o \in Order |-> "ABSENT"]
  /\ paymentStatus = [p \in Payment |-> "ABSENT"]
  /\ processed = {}
  /\ cases = [c \in Case |-> Whole!NoCase]
  /\ decisions = [c \in Case |-> <<>>]
  /\ attempts = [c \in Case |-> <<>>]
  /\ ledger = 0
  /\ customers = [b \in Buyer |-> <<>>]

\* or one whose customer failed once and has been sent a payment link.
LinkSent ==
  \E e \in Event, c \in Case :
    /\ IsFailure(e) /\ e.status = "failed"
    /\ CaseOrder[c] = OrderOf(e)
    /\ orderStatus = [o \in Order |-> IF o = OrderOf(e) THEN "ATTEMPTED" ELSE "ABSENT"]
    /\ paymentStatus = [p \in Payment |-> IF p = e.payment THEN "FAILED" ELSE "ABSENT"]
    /\ processed = {e}
    /\ cases = [d \in Case |->
         IF d = c THEN [NewCase(e) EXCEPT !.status = "WAITING_EXTERNAL", !.count = 1,
                                          !.cooling = TRUE]
                  ELSE Whole!NoCase]
    /\ decisions = [d \in Case |->
         IF d = c THEN <<[number |-> 1, verdict |-> "APPROVED", action |-> "PAYMENT_LINK"]>>
                  ELSE <<>>]
    /\ attempts = [d \in Case |->
         IF d = c THEN <<[number |-> 1, action |-> "PAYMENT_LINK", status |-> "ACKNOWLEDGED",
                          link |-> 1, decision |-> 1]>>
                  ELSE <<>>]
    /\ ledger = 4
    /\ customers = [b \in Buyer |-> IF b = BuyerOf[e.payment] THEN <<1>> ELSE <<>>]

Init ==
  /\ NothingKnown \/ LinkSent
  /\ synthetic = [o \in Order |-> 0]
  /\ outcomes = [c \in Case |-> Whole!NoOutcome]
  /\ \E mix \in Mixes :
       pc = [e \in Event |-> IF e \in mix \ processed THEN "idle" ELSE "done"]
  /\ tx = [e \in Event |-> NothingRead]
  /\ retries = [e \in Event |-> 0]
  /\ conflicts = [e \in Event |-> 0]
  /\ refusals = [e \in Event |-> 0]

Statement(e) ==
  \/ FindCustomer(e)
  \/ FlushCustomer(e)
  \/ LockOrder(e)
  \/ InsertOrder(e)
  \/ LockPayment(e)
  \/ InsertPayment(e)
  \/ FindCaseOfFailure(e)
  \/ FindCaseOfCapture(e)
  \/ InsertCase(e)
  \/ Commit(e)

Next == \E e \in Event : Statement(e) \/ AuditRefuses(e) \/ Fail(e)

Spec == Init /\ [][Next]_vars

\* A worker that can go on does, and the database grants its locks.
FairSpec == Spec /\ \A e \in Event : WF_vars(Statement(e))

----------------------------------------------------------------------------
(* Properties *)

TypeOK ==
  /\ Whole!TypeOK
  /\ customers \in [Buyer -> Seq(Nat)]
  /\ pc \in [Event -> AfterCustomer \union {"idle", "found", "done", "gaveUp"}]
  /\ tx \in [Event -> [customer : Nat, failures : Nat,
                       order : OrderStatuses \union {"ABSENT"},
                       payment : PaymentStatuses \union {"ABSENT"}, case : SUBSET Case]]
  /\ retries \in [Event -> 0 .. MaxRetries]
  /\ conflicts \in [Event -> Nat]
  /\ refusals \in [Event -> Nat]

\* However their statements interleave, fail and are repeated, concurrent runs of
\* the pipeline leave orders, payments, cases, outcomes and the audit chain as if
\* each event had been processed alone when it committed.
RunsAreAtomic == [][\E e \in Event : Whole!ProcessEvent(e)]_rows

\* All but one of the unique constraint violations an event runs into are those of
\* the audit chain, which others append to as well and which may refuse every run
\* of it.  Of the constraints on orders, payments and active cases an event violates
\* one only, and only once: its next run finds the order's row and waits.
OnlyTheChainRefusesAgain == \A e \in Event : conflicts[e] <= refusals[e] + 1

\* What a run that holds its order has read stays true until it commits, although
\* it locks neither a payment nor a case that is not there, nor, for a capture,
\* the case it found: nobody else inserts, settles or reopens them.
ReadsHold ==
  \A e \in Event :
    /\ Has(e, "noPayment") => paymentStatus[e.payment] = "ABSENT" /\ PaymentUnlocked(e)
    /\ Has(e, "noCase") => Whole!ActiveCases(OrderOf(e)) = {} /\ CaseUnlocked(e)
    /\ Has(e, "ready") =>
         /\ tx[e].order = orderStatus[OrderOf(e)]
         /\ tx[e].payment = paymentStatus[e.payment]
         /\ IsFailure(e) \/ IsCapture(e) => tx[e].case = CasesFound(e)

FailuresOf(b) ==
  {e \in processed : BuyerOf[e.payment] = b /\ e.status = "failed"}

\* Concurrent runs may lose increments of a customer's total_failure_count, and
\* may give one customer two rows; they never invent a failure (what the rows count
\* can be told apart: each failure that counts is counted in one row), and a
\* customer whose payments failed has at least one counted.
FailuresNotInvented ==
  \A b \in Buyer :
    /\ \E rowOf \in [FailuresOf(b) -> DOMAIN customers[b]] :
         \A i \in DOMAIN customers[b] :
           customers[b][i] <= Cardinality({e \in FailuresOf(b) : rowOf[e] = i})
    /\ FailuresOf(b) # {} => \E i \in DOMAIN customers[b] : customers[b][i] >= 1

\* Locks are taken in one order (customer, order, payment, case), so no run waits
\* for ever: in the end every event is processed or given up after its last retry.
EveryEventEnds == <>(\A e \in Event : pc[e] \in {"done", "gaveUp"})

=============================================================================
