------------------------ MODULE IngestionRace_proofs ------------------------
(***************************************************************************)
(* For any number of events, workers, orders, payments and cases: the      *)
(* concurrent runs of the ingestion pipeline amount to whole runs, one     *)
(* after the other.                                                        *)
(*                                                                         *)
(* The argument is the row lock on the order.  A run holds it from the     *)
(* statement that finds or inserts the order until it commits, and every   *)
(* later statement concerns rows of that order alone; so nothing it has    *)
(* read since changes before it commits, although it locks neither what is *)
(* not there nor, for a capture, the case it found.                        *)
(***************************************************************************)
EXTENDS IngestionRace, FiniteSetTheorems, SequenceTheorems, WellFoundedInduction, TLAPS

----------------------------------------------------------------------------
(* The invariant *)

Points == AfterCustomer \union {"idle", "found", "done", "gaveUp"}

ReadRows ==
  [customer : Nat, failures : Nat, order : OrderStatuses \union {"ABSENT"},
   payment : PaymentStatuses \union {"ABSENT"}, case : SUBSET Case]

\* The case a run is to write when it has found what it looked for.
CasesToWrite(e) ==
  IF IsFailure(e) \/ IsCapture(e) THEN CasesFound(e) ELSE {}

\* A run that has got to a point has read what is committed now.
Current(e, point, read) ==
  /\ read.customer <= Len(customers[BuyerOf[e.payment]])
  /\ read.order = IF point \in AfterOrder THEN orderStatus[OrderOf(e)] ELSE "ABSENT"
  /\ read.payment = IF point \in AfterPayment THEN paymentStatus[e.payment] ELSE "ABSENT"
  /\ point = "noPayment" => paymentStatus[e.payment] = "ABSENT"
  /\ point = "noCase" => IsFailure(e) /\ Whole!ActiveCases(OrderOf(e)) = {}
  /\ read.case = IF point = "ready" THEN CasesToWrite(e) ELSE {}

\* The one conflict of an event that was not with the audit chain was about its
\* order, which is known since.
ConflictOver(e, point, times, refused) ==
  \/ times <= refused
  \/ times = refused + 1 /\ OrderKnown(e) /\ point # "noOrder"

RunInv ==
  /\ TypeOK
  /\ \A e \in Event : Current(e, pc[e], tx[e])
  /\ \A e \in Event : ConflictOver(e, pc[e], conflicts[e], refusals[e])
  /\ \A e \in Event : pc[e] # "done" => e \notin processed
  /\ \A e \in Event : pc[e] \in AfterOrder => OrderUnlocked(e)

----------------------------------------------------------------------------
(* Events and the rows they name *)

LEMMA EventShape ==
  ASSUME NEW e \in Event
  PROVE  /\ e.kind \in EventKinds /\ e.status \in EntityStatuses
         /\ e.payment \in Payment /\ e.category \in Categories
         /\ OrderOf(e) \in Order /\ BuyerOf[e.payment] \in Buyer
BY PipelineAssumption DEF OrderOf

LEMMA RowTypes ==
  ASSUME TypeOK
  PROVE  /\ orderStatus \in [Order -> OrderStatuses \union {"ABSENT"}]
         /\ paymentStatus \in [Payment -> PaymentStatuses \union {"ABSENT"}]
         /\ cases \in [Case -> Whole!CaseRow]
         /\ attempts \in [Case -> Seq(Whole!Attempt)]
         /\ \A e \in Event : tx[e] \in ReadRows /\ pc[e] \in Points
         /\ \A b \in Buyer : customers[b] \in Seq(Nat) /\ Len(customers[b]) \in Nat
BY DEF TypeOK, Whole!TypeOK, Whole!OrderStatuses, OrderStatuses, Whole!PaymentStatuses,
       PaymentStatuses, ReadRows, Points

LEMMA PointsKnown ==
  /\ AfterOrder \subseteq AfterCustomer /\ AfterPayment \subseteq AfterOrder
  /\ "ready" \in AfterPayment /\ "noCase" \in AfterPayment /\ "noPayment" \in AfterOrder
  /\ "noPayment" \notin AfterPayment
  /\ {"idle", "found", "customer", "noOrder", "done", "gaveUp"} \intersect AfterOrder = {}
  /\ {"order", "noPayment"} \intersect AfterPayment = {}
BY DEF AfterCustomer, AfterOrder, AfterPayment

\* A failure is not a capture, so that it looks for any active case.
LEMMA FailureFinds ==
  ASSUME NEW e \in Event, IsFailure(e)
  PROVE  CasesToWrite(e) = Whole!ActiveCases(OrderOf(e)) /\ ~IsCapture(e)
<1>1. ~IsCapture(e)
  BY DEF IsCapture
<1>2. CasesFound(e) = Whole!ActiveCases(OrderOf(e))
  BY <1>1 DEF CasesFound
<1> QED BY <1>1, <1>2 DEF CasesToWrite

----------------------------------------------------------------------------
(* A statement other than the commit *)

Moves(e, point, read) ==
  /\ UNCHANGED <<rows, customers>>
  /\ pc' = [pc EXCEPT ![e] = point]
  /\ tx' = [tx EXCEPT ![e] = read]

LEMMA MoveKeeps ==
  ASSUME RunInv, NEW e \in Event, NEW point \in Points, NEW read \in ReadRows,
         Moves(e, point, read), Current(e, point, read),
         pc[e] # "done", point # "done",
         point \in AfterOrder => pc[e] \in AfterOrder \/ OrderUnlocked(e),
         retries' \in [Event -> 0 .. MaxRetries],
         conflicts' \in [Event -> Nat], refusals' \in [Event -> Nat],
         \A f \in Others(e) : conflicts'[f] = conflicts[f] /\ refusals'[f] = refusals[f],
         ConflictOver(e, point, conflicts'[e], refusals'[e])
  PROVE  RunInv'
<1>1. /\ UNCHANGED <<orderStatus, paymentStatus, synthetic, processed, cases, decisions,
                     attempts, outcomes, ledger, customers>>
      /\ pc \in [Event -> Points] /\ tx \in [Event -> ReadRows]
      /\ pc' \in [Event -> Points] /\ tx' \in [Event -> ReadRows]
      /\ pc'[e] = point /\ tx'[e] = read
      /\ \A f \in Others(e) : pc'[f] = pc[f] /\ tx'[f] = tx[f]
  BY DEF Moves, rows, RunInv, TypeOK, Points, ReadRows, Others
<1>2. TypeOK'
  <2>1. Whole!TypeOK'
    BY <1>1 DEF RunInv, TypeOK, Whole!TypeOK
  <2> QED BY <1>1, <2>1 DEF RunInv, TypeOK, Points, ReadRows
<1>3. \A f \in Event : Current(f, pc'[f], tx'[f])
  BY <1>1 DEF RunInv, Others
<1>4. \A f \in Event : Current(f, pc[f], tx[f])'
  <2> SUFFICES ASSUME NEW f \in Event PROVE Current(f, pc[f], tx[f])'
    OBVIOUS
  <2>1. /\ Whole!ActiveCases(OrderOf(f))' = Whole!ActiveCases(OrderOf(f))
        /\ CasesToWrite(f)' = CasesToWrite(f)
    BY <1>1 DEF CasesToWrite, CasesFound, Whole!ActiveCases, Whole!Active, OrderOf
  <2>2. Current(f, pc'[f], tx'[f])
    BY <1>3
  <2> QED BY <1>1, <2>1, <2>2 DEF Current, OrderOf
<1>5. \A f \in Event : ConflictOver(f, pc[f], conflicts[f], refusals[f])'
  <2>1. \A f \in Event : ConflictOver(f, pc'[f], conflicts'[f], refusals'[f])
    BY <1>1 DEF RunInv, Others
  <2> QED BY <1>1, <2>1 DEF ConflictOver, OrderKnown, OrderOf
<1>6. \A f \in Event : pc'[f] # "done" => f \notin processed'
  BY <1>1 DEF RunInv, Others
<1>7. ASSUME NEW f \in Event, pc'[f] \in AfterOrder
      PROVE  OrderUnlocked(f)'
  <2>1. CASE f = e
    <3>1. OrderUnlocked(e)
      BY <1>1, <1>7, <2>1 DEF RunInv
    <3> QED BY <1>1, <2>1, <3>1 DEF OrderUnlocked, Others
  <2>2. CASE f # e
    <3>1. pc[f] \in AfterOrder /\ OrderUnlocked(f)
      BY <1>1, <1>7, <2>2 DEF RunInv, Others
    <3>2. ~(pc'[e] \in AfterOrder /\ OrderOf(e) = OrderOf(f))
      BY <1>1, <2>2, <3>1 DEF OrderUnlocked, Others
    <3> QED BY <1>1, <2>2, <3>1, <3>2 DEF OrderUnlocked, Others
  <2> QED BY <2>1, <2>2
<1> QED BY <1>2, <1>4, <1>5, <1>6, <1>7 DEF RunInv

\* A statement that raises nothing, and reads something or nothing.
LEMMA StatementKeeps ==
  ASSUME RunInv, NEW e \in Event, NEW point \in Points, NEW read \in ReadRows,
         UNCHANGED <<rows, customers>>, Goto(e, point), NoConflict,
         tx' = [tx EXCEPT ![e] = read], Current(e, point, read),
         pc[e] # "done", point # "done",
         point \in AfterOrder => pc[e] \in AfterOrder \/ OrderUnlocked(e),
         point = "noOrder" => ~OrderKnown(e)
  PROVE  RunInv'
<1>1. Moves(e, point, read)
  BY DEF Moves, Goto
<1>2. /\ retries' \in [Event -> 0 .. MaxRetries]
      /\ conflicts' \in [Event -> Nat] /\ refusals' \in [Event -> Nat]
      /\ conflicts' = conflicts /\ refusals' = refusals
  BY DEF NoConflict, RunInv, TypeOK
<1>3. ConflictOver(e, point, conflicts'[e], refusals'[e])
  BY <1>2 DEF RunInv, ConflictOver
<1> QED BY <1>1, <1>2, <1>3, MoveKeeps

LEMMA NothingNewKeeps ==
  ASSUME RunInv, NEW e \in Event, NEW point \in Points,
         UNCHANGED <<rows, customers>>, Goto(e, point), NoConflict, UNCHANGED tx,
         Current(e, point, tx[e]), pc[e] # "done", point # "done",
         point \in AfterOrder => pc[e] \in AfterOrder \/ OrderUnlocked(e),
         point = "noOrder" => ~OrderKnown(e)
  PROVE  RunInv'
<1>1. tx[e] \in ReadRows
  BY RowTypes DEF RunInv
<1>2. tx' = [tx EXCEPT ![e] = tx[e]]
  BY DEF RunInv, TypeOK
<1> QED BY <1>1, <1>2, StatementKeeps

\* A run that is rolled back starts again or is given up.
LEMMA RollbackKeeps ==
  ASSUME RunInv, NEW e \in Event, UNCHANGED <<rows, customers>>, RolledBack(e),
         pc[e] # "done", conflicts' \in [Event -> Nat], refusals' \in [Event -> Nat],
         \A f \in Others(e) : conflicts'[f] = conflicts[f] /\ refusals'[f] = refusals[f],
         \/ conflicts'[e] <= refusals'[e]
         \/ conflicts'[e] = refusals'[e] + 1 /\ OrderKnown(e)
  PROVE  RunInv'
<1>1. PICK point \in {"idle", "gaveUp"} : Goto(e, point)
  BY DEF RolledBack
<1>2. point \in Points /\ point # "done" /\ point # "noOrder" /\ point \notin AfterOrder
      /\ point \notin AfterPayment /\ point # "noPayment" /\ point # "noCase" /\ point # "ready"
  BY DEF Points, AfterOrder, AfterPayment
<1>3. NothingRead \in ReadRows
  BY DEF NothingRead, ReadRows
<1>4. Moves(e, point, NothingRead)
  BY <1>1 DEF RolledBack, Moves, Goto
<1>5. Current(e, point, NothingRead)
  <2>1. Len(customers[BuyerOf[e.payment]]) \in Nat
    BY EventShape, RowTypes DEF RunInv
  <2> QED BY <1>2, <2>1 DEF Current, NothingRead
<1>6. retries' \in [Event -> 0 .. MaxRetries]
  <2>1. retries \in [Event -> 0 .. MaxRetries] /\ MaxRetries \in Nat
    BY PipelineAssumption DEF RunInv, TypeOK
  <2>2. CASE MayRetry(e)
    <3>1. retries[e] + 1 \in 0 .. MaxRetries
      BY <2>1, <2>2 DEF MayRetry
    <3>2. retries' = [retries EXCEPT ![e] = retries[e] + 1]
      BY <2>2 DEF RolledBack
    <3> QED BY <2>1, <3>1, <3>2
  <2>3. CASE ~MayRetry(e)
    BY <2>1, <2>3 DEF RolledBack
  <2> QED BY <2>2, <2>3
<1>7. ConflictOver(e, point, conflicts'[e], refusals'[e])
  BY <1>2 DEF ConflictOver
<1> QED BY <1>2, <1>3, <1>4, <1>5, <1>6, <1>7, MoveKeeps

LEMMA FailKeeps ==
  ASSUME RunInv, NEW e \in Event, Fail(e)
  PROVE  RunInv'
<1>1. pc[e] # "done" /\ conflicts' = conflicts /\ refusals' = refusals
  BY DEF Fail, Running, AfterCustomer, AfterOrder, AfterPayment
<1>2. conflicts \in [Event -> Nat] /\ refusals \in [Event -> Nat]
      /\ ConflictOver(e, pc[e], conflicts[e], refusals[e])
  BY DEF RunInv, TypeOK
<1> QED BY <1>1, <1>2, RollbackKeeps DEF Fail, ConflictOver

\* A refusal of the audit chain counts on both sides.
LEMMA AuditRefusesKeeps ==
  ASSUME RunInv, NEW e \in Event, AuditRefuses(e)
  PROVE  RunInv'
<1>1. /\ pc[e] = "ready" /\ RolledBack(e) /\ UNCHANGED <<rows, customers>>
      /\ conflicts' = [conflicts EXCEPT ![e] = @ + 1]
      /\ refusals' = [refusals EXCEPT ![e] = @ + 1]
  BY DEF AuditRefuses, Has
<1>2. conflicts \in [Event -> Nat] /\ refusals \in [Event -> Nat]
  BY DEF RunInv, TypeOK
<1>3. /\ conflicts' \in [Event -> Nat] /\ refusals' \in [Event -> Nat]
      /\ conflicts'[e] = conflicts[e] + 1 /\ refusals'[e] = refusals[e] + 1
      /\ \A f \in Others(e) : conflicts'[f] = conflicts[f] /\ refusals'[f] = refusals[f]
  BY <1>1, <1>2 DEF Others
<1>4. conflicts[e] <= refusals[e] \/ (conflicts[e] = refusals[e] + 1 /\ OrderKnown(e))
  BY DEF RunInv, ConflictOver
<1>5. \/ conflicts'[e] <= refusals'[e]
      \/ conflicts'[e] = refusals'[e] + 1 /\ OrderKnown(e)
  BY <1>2, <1>3, <1>4
<1> QED BY <1>1, <1>3, <1>5, RollbackKeeps

LEMMA FindCustomerKeeps ==
  ASSUME RunInv, NEW e \in Event, FindCustomer(e)
  PROVE  RunInv'
<1> DEFINE known == customers[BuyerOf[e.payment]]
<1>1. known \in Seq(Nat) /\ Len(known) \in Nat
  BY EventShape, RowTypes DEF RunInv
<1>2. PICK i \in IF known = <<>> THEN {0} ELSE DOMAIN known :
        tx' = [tx EXCEPT ![e] = [NothingRead EXCEPT
                 !.customer = i, !.failures = IF i = 0 THEN 0 ELSE known[i]]]
  BY DEF FindCustomer
<1> DEFINE failures == IF i = 0 THEN 0 ELSE known[i]
           read == [NothingRead EXCEPT !.customer = i, !.failures = failures]
<1>3. i \in 0 .. Len(known) /\ failures \in Nat
  BY <1>1, <1>2
<1> HIDE DEF failures, known
<1>4. /\ read \in ReadRows /\ read.customer <= Len(known)
      /\ read.order = "ABSENT" /\ read.payment = "ABSENT" /\ read.case = {}
  <2>1. /\ NothingRead \in ReadRows /\ NothingRead.order = "ABSENT"
        /\ NothingRead.payment = "ABSENT" /\ NothingRead.case = {}
    BY DEF NothingRead, ReadRows
  <2>2. i \in Nat /\ i <= Len(known)
    BY <1>1, <1>3
  <2> QED BY <1>3, <2>1, <2>2 DEF ReadRows
<1> HIDE DEF read
<1>5. Current(e, "found", read)
  BY <1>4 DEF Current, AfterOrder, AfterPayment, known
<1>6. pc[e] = "idle" /\ "found" \in Points /\ "found" \notin AfterOrder
  BY PointsKnown DEF FindCustomer, Has, Points
<1> QED BY <1>2, <1>4, <1>5, <1>6, StatementKeeps DEF FindCustomer, read, failures, known

LEMMA FlushCustomerKeeps ==
  ASSUME RunInv, NEW e \in Event, FlushCustomer(e)
  PROVE  RunInv'
<1>1. pc[e] = "found" /\ "customer" \in Points /\ "customer" \notin AfterOrder
  BY PointsKnown DEF FlushCustomer, Has, Points, AfterCustomer
<1>2. Current(e, "customer", tx[e])
  BY <1>1 DEF RunInv, Current, AfterOrder, AfterPayment
<1> QED BY <1>1, <1>2, NothingNewKeeps DEF FlushCustomer

LEMMA LockOrderKeeps ==
  ASSUME RunInv, NEW e \in Event, LockOrder(e)
  PROVE  RunInv'
<1>1. /\ pc[e] = "customer" /\ "order" \in AfterOrder /\ "order" \in Points
      /\ "noOrder" \in Points /\ "noOrder" \notin AfterOrder
  BY PointsKnown DEF LockOrder, Has, Points, AfterCustomer, AfterOrder
<1>2. CASE OrderKnown(e)
  <2> DEFINE read == [tx[e] EXCEPT !.order = orderStatus[OrderOf(e)]]
  <2>1. tx[e] \in ReadRows /\ orderStatus[OrderOf(e)] \in OrderStatuses \union {"ABSENT"}
    BY RowTypes, EventShape DEF RunInv
  <2>2. /\ read \in ReadRows /\ read.order = orderStatus[OrderOf(e)]
        /\ read.customer = tx[e].customer /\ read.payment = tx[e].payment
        /\ read.case = tx[e].case
    BY <2>1 DEF ReadRows
  <2>3. OrderUnlocked(e) /\ Goto(e, "order") /\ tx' = [tx EXCEPT ![e] = read]
    BY <1>2 DEF LockOrder
  <2> HIDE DEF read
  <2>4. Current(e, "order", read)
    BY <1>1, <2>2 DEF RunInv, Current, AfterOrder, AfterPayment
  <2> QED BY <1>1, <2>2, <2>3, <2>4, StatementKeeps DEF LockOrder
<1>3. CASE ~OrderKnown(e)
  <2>1. Current(e, "noOrder", tx[e])
    BY <1>1 DEF RunInv, Current, AfterOrder, AfterPayment
  <2>2. Goto(e, "noOrder") /\ UNCHANGED tx
    BY <1>3 DEF LockOrder
  <2> QED BY <1>1, <1>3, <2>1, <2>2, NothingNewKeeps DEF LockOrder
<1> QED BY <1>2, <1>3

LEMMA InsertOrderKeeps ==
  ASSUME RunInv, NEW e \in Event, InsertOrder(e)
  PROVE  RunInv'
<1>1. /\ pc[e] = "noOrder" /\ "order" \in AfterOrder /\ "order" \in Points
      /\ OrderUnlocked(e) /\ UNCHANGED <<rows, customers>>
  BY PointsKnown DEF InsertOrder, Insert, Has, Points, AfterCustomer, AfterOrder
<1>2. CASE OrderKnown(e)
  <2>1. /\ RolledBack(e) /\ refusals' = refusals
        /\ conflicts' = [conflicts EXCEPT ![e] = @ + 1]
    BY <1>2 DEF InsertOrder, Insert, Conflict, OrderKnown
  <2>2. /\ conflicts \in [Event -> Nat] /\ refusals \in [Event -> Nat]
        /\ conflicts[e] <= refusals[e]
    BY <1>1 DEF RunInv, TypeOK, ConflictOver
  <2>3. /\ conflicts' \in [Event -> Nat] /\ refusals' \in [Event -> Nat]
        /\ conflicts'[e] <= refusals'[e] \/ conflicts'[e] = refusals'[e] + 1
        /\ \A f \in Others(e) : conflicts'[f] = conflicts[f] /\ refusals'[f] = refusals[f]
    BY <2>1, <2>2 DEF Others
  <2> QED BY <1>1, <1>2, <2>1, <2>3, RollbackKeeps
<1>3. CASE ~OrderKnown(e)
  <2>1. Goto(e, "order") /\ UNCHANGED tx /\ NoConflict
    BY <1>3 DEF InsertOrder, Insert, OrderKnown
  <2>2. Current(e, "order", tx[e])
    BY <1>1, <1>3 DEF RunInv, Current, AfterOrder, AfterPayment, OrderKnown
  <2> QED BY <1>1, <2>1, <2>2, NothingNewKeeps
<1> QED BY <1>2, <1>3

LEMMA LockPaymentKeeps ==
  ASSUME RunInv, NEW e \in Event, LockPayment(e)
  PROVE  RunInv'
<1>1. /\ pc[e] = "order" /\ "order" \in AfterOrder
      /\ "payment" \in Points /\ "noPayment" \in Points
      /\ "payment" \in AfterPayment /\ "payment" \in AfterOrder
      /\ "noPayment" \notin AfterPayment /\ "order" \notin AfterPayment
      /\ "noPayment" \in AfterOrder
  BY DEF LockPayment, Has, Points, AfterCustomer, AfterOrder, AfterPayment
<1>2. CASE paymentStatus[e.payment] = "ABSENT"
  <2>1. Goto(e, "noPayment") /\ UNCHANGED tx
    BY <1>2 DEF LockPayment
  <2>2. Current(e, "noPayment", tx[e])
    BY <1>1, <1>2 DEF RunInv, Current
  <2> QED BY <1>1, <2>1, <2>2, NothingNewKeeps DEF LockPayment
<1>3. CASE paymentStatus[e.payment] # "ABSENT"
  <2> DEFINE read == [tx[e] EXCEPT !.payment = paymentStatus[e.payment]]
  <2>1. tx[e] \in ReadRows /\ paymentStatus[e.payment] \in PaymentStatuses \union {"ABSENT"}
    BY RowTypes, EventShape DEF RunInv
  <2>2. /\ read \in ReadRows /\ read.payment = paymentStatus[e.payment]
        /\ read.customer = tx[e].customer /\ read.order = tx[e].order
        /\ read.case = tx[e].case
    BY <2>1 DEF ReadRows
  <2>3. Goto(e, "payment") /\ tx' = [tx EXCEPT ![e] = read]
    BY <1>3 DEF LockPayment
  <2> HIDE DEF read
  <2>4. Current(e, "payment", read)
    BY <1>1, <2>2 DEF RunInv, Current
  <2> QED BY <1>1, <2>2, <2>3, <2>4, StatementKeeps DEF LockPayment
<1> QED BY <1>2, <1>3

\* Nobody has inserted the payment since it was not found: its order is locked.
LEMMA InsertPaymentKeeps ==
  ASSUME RunInv, NEW e \in Event, InsertPayment(e)
  PROVE  RunInv'
<1>1. /\ pc[e] = "noPayment" /\ "noPayment" \in AfterOrder
      /\ "payment" \in Points /\ "payment" \in AfterPayment /\ "payment" \in AfterOrder
      /\ "noPayment" \notin AfterPayment
  BY DEF InsertPayment, Has, Points, AfterCustomer, AfterOrder, AfterPayment
<1>2. paymentStatus[e.payment] = "ABSENT"
  BY <1>1 DEF RunInv, Current
<1>3. Goto(e, "payment") /\ UNCHANGED tx /\ NoConflict /\ UNCHANGED <<rows, customers>>
  BY <1>2 DEF InsertPayment, Insert
<1>4. Current(e, "payment", tx[e])
  BY <1>1, <1>2 DEF RunInv, Current
<1> QED BY <1>1, <1>3, <1>4, NothingNewKeeps

LEMMA FindCaseOfFailureKeeps ==
  ASSUME RunInv, NEW e \in Event, FindCaseOfFailure(e)
  PROVE  RunInv'
<1> DEFINE active == Whole!ActiveCases(OrderOf(e))
<1>1. /\ pc[e] = "payment" /\ "payment" \in AfterPayment /\ "payment" \in AfterOrder
      /\ "noCase" \in Points /\ "noCase" \in AfterPayment /\ "noCase" \in AfterOrder
      /\ "ready" \in Points /\ "ready" \in AfterPayment /\ "ready" \in AfterOrder
      /\ IsFailure(e)
  BY DEF FindCaseOfFailure, Has, Points, AfterCustomer, AfterOrder, AfterPayment
<1>2. CASE active = {}
  <2>1. Goto(e, "noCase") /\ UNCHANGED tx
    BY <1>2 DEF FindCaseOfFailure
  <2>2. Current(e, "noCase", tx[e])
    BY <1>1, <1>2 DEF RunInv, Current
  <2> QED BY <1>1, <2>1, <2>2, NothingNewKeeps DEF FindCaseOfFailure
<1>3. CASE active # {}
  <2> DEFINE read == [tx[e] EXCEPT !.case = active]
  <2>1. tx[e] \in ReadRows /\ active \subseteq Case
    BY RowTypes DEF RunInv, Whole!ActiveCases
  <2> HIDE DEF active
  <2>2. /\ read \in ReadRows /\ read.payment = tx[e].payment
        /\ read.customer = tx[e].customer /\ read.order = tx[e].order
        /\ read.case = active
    BY <2>1 DEF ReadRows
  <2>3. Goto(e, "ready") /\ tx' = [tx EXCEPT ![e] = read]
    BY <1>3 DEF FindCaseOfFailure, active
  <2> HIDE DEF read
  <2>4. Current(e, "ready", read)
    BY <1>1, <2>2, FailureFinds DEF RunInv, Current, active
  <2> QED BY <1>1, <2>2, <2>3, <2>4, StatementKeeps DEF FindCaseOfFailure
<1> QED BY <1>2, <1>3

\* Nor has anybody opened a case for the order.
LEMMA InsertCaseKeeps ==
  ASSUME RunInv, NEW e \in Event, InsertCase(e)
  PROVE  RunInv'
<1>1. /\ pc[e] = "noCase" /\ "noCase" \in AfterPayment /\ "noCase" \in AfterOrder
      /\ "ready" \in Points /\ "ready" \in AfterPayment /\ "ready" \in AfterOrder
  BY DEF InsertCase, Has, Points, AfterCustomer, AfterOrder, AfterPayment
<1>2. IsFailure(e) /\ Whole!ActiveCases(OrderOf(e)) = {}
  BY <1>1 DEF RunInv, Current
<1>3. Goto(e, "ready") /\ UNCHANGED tx /\ NoConflict /\ UNCHANGED <<rows, customers>>
  BY <1>2 DEF InsertCase, Insert
<1>4. Current(e, "ready", tx[e])
  BY <1>1, <1>2, FailureFinds DEF RunInv, Current
<1> QED BY <1>1, <1>3, <1>4, NothingNewKeeps

LEMMA FindCaseOfCaptureKeeps ==
  ASSUME RunInv, NEW e \in Event, FindCaseOfCapture(e)
  PROVE  RunInv'
<1> DEFINE found == IF IsCapture(e) THEN CasesFound(e) ELSE {}
           read == [tx[e] EXCEPT !.case = found]
<1>1. /\ pc[e] = "payment" /\ "payment" \in AfterPayment /\ "payment" \in AfterOrder
      /\ "ready" \in Points /\ "ready" \in AfterPayment /\ "ready" \in AfterOrder
  BY DEF FindCaseOfCapture, Has, Points, AfterCustomer, AfterOrder, AfterPayment
<1>2. tx[e] \in ReadRows /\ found \subseteq Case /\ found = CasesToWrite(e)
  BY RowTypes DEF RunInv, CasesToWrite, FindCaseOfCapture, CasesFound, Whole!ActiveCases
<1>3. Goto(e, "ready") /\ tx' = [tx EXCEPT ![e] = read]
  BY DEF FindCaseOfCapture
<1> HIDE DEF found
<1>4. /\ read \in ReadRows /\ read.payment = tx[e].payment
      /\ read.customer = tx[e].customer /\ read.order = tx[e].order
      /\ read.case = found
  BY <1>2 DEF ReadRows
<1> HIDE DEF read
<1>5. Current(e, "ready", read)
  BY <1>1, <1>2, <1>4 DEF RunInv, Current
<1> QED BY <1>1, <1>3, <1>4, <1>5, StatementKeeps DEF FindCaseOfCapture

----------------------------------------------------------------------------
(* The rows a verification writes *)

\* A nonempty bounded set of naturals has a greatest element.
LEMMA GreatestExists ==
  ASSUME NEW n \in Nat, NEW S, S \subseteq 0 .. n, S # {}
  PROVE  \E i \in S : \A j \in S : j <= i
<1> DEFINE T == {k \in Nat : n - k \in S}
<1>1. PICK s : s \in S
  OBVIOUS
<1>2. n - s \in T
  BY <1>1
<1>3. PICK m \in T : \A k \in T : ~(<<k, m>> \in OpToRel(<, Nat))
  BY <1>2, WFMin, NatLessThanWellFounded
<1>4. \A k \in T : m <= k
  <2> SUFFICES ASSUME NEW k \in T PROVE m <= k
    OBVIOUS
  <2>1. k \in Nat /\ m \in Nat
    OBVIOUS
  <2>2. ~(k < m)
    BY <1>3, <2>1 DEF OpToRel
  <2> QED BY <2>1, <2>2
<1>5. \A j \in S : j <= n - m
  <2> SUFFICES ASSUME NEW j \in S PROVE j <= n - m
    OBVIOUS
  <2>1. m \in Nat /\ j \in Int
    OBVIOUS
  <2>2. n - j \in T
    OBVIOUS
  <2>3. m <= n - j
    BY <2>2, <1>4
  <2> HIDE DEF T
  <2> QED BY <2>1, <2>3
<1> QED BY <1>3, <1>5

\* The attempt a settlement is matched with is one of the case's, or there is none.
LEMMA MatchingAttemptType ==
  ASSUME TypeOK, NEW c \in Case, NEW link \in Nat
  PROVE  Whole!MatchingAttempt(c, link) \in 0 .. Len(attempts[c])
<1> DEFINE refs == {i \in DOMAIN attempts[c] : link > 0 /\ attempts[c][i].link = link}
           latest == CHOOSE i \in refs : \A j \in refs : j <= i
<1>1. Len(attempts[c]) \in Nat /\ refs \subseteq 0 .. Len(attempts[c])
  BY RowTypes
<1>2. refs # {} => \E i \in refs : \A j \in refs : j <= i
  BY <1>1, GreatestExists
<1>3. Whole!MatchingAttempt(c, link) = IF refs = {} THEN Len(attempts[c]) ELSE latest
  BY DEF Whole!MatchingAttempt, Whole!Latest
<1> HIDE DEF refs
<1>4. refs # {} => latest \in refs
  BY <1>2
<1> HIDE DEF latest
<1>5. CASE refs = {}
  BY <1>1, <1>3, <1>5
<1>6. CASE refs # {}
  <2>1. latest \in 0 .. Len(attempts[c])
    BY <1>1, <1>4, <1>6
  <2> QED BY <1>3, <1>6, <2>1
<1> QED BY <1>5, <1>6

LEMMA SucceedType ==
  ASSUME TypeOK, NEW c \in Case, NEW i \in 1 .. Len(attempts[c])
  PROVE  [attempts EXCEPT ![c][i].status = "SUCCEEDED"] \in [Case -> Seq(Whole!Attempt)]
<1> DEFINE a == [attempts[c][i] EXCEPT !.status = "SUCCEEDED"]
<1>1. attempts[c] \in Seq(Whole!Attempt) /\ attempts \in [Case -> Seq(Whole!Attempt)]
  BY RowTypes
<1>2. attempts[c][i] \in Whole!Attempt
  BY <1>1, ElementOfSeq
<1>3. a \in Whole!Attempt
  BY <1>2 DEF Whole!Attempt, Whole!AttemptStatuses
<1>4. [attempts[c] EXCEPT ![i] = a] \in Seq(Whole!Attempt)
  BY <1>1, <1>3, ExceptSeq
<1> QED BY <1>1, <1>4

LEMMA VerifyType ==
  ASSUME TypeOK, NEW c \in Case, NEW settling \in Whole!Settler, NEW status,
         NEW foreign, NEW link \in Nat,
         Whole!VerifyOrSkip(c, settling, status, foreign, link)
  PROVE  /\ cases' \in [Case -> Whole!CaseRow]
         /\ attempts' \in [Case -> Seq(Whole!Attempt)]
         /\ outcomes' \in [Case -> Whole!Outcome]
         /\ ledger' \in Nat
         /\ \A d \in Case \ {c} : cases'[d] = cases[d]
<1>1. CASE ~Whole!SettlementAllowed(c, status, foreign)
  BY <1>1 DEF Whole!VerifyOrSkip, TypeOK, Whole!TypeOK
<1>2. CASE Whole!SettlementAllowed(c, status, foreign)
  <2> DEFINE match == Whole!MatchingAttempt(c, link)
             before == Whole!StatusBeforeRecovery(cases[c].status)
             after == IF Whole!CanTransition(before, "RECOVERED") THEN "RECOVERED" ELSE before
             new == [cases[c] EXCEPT !.status = after, !.credited = settling]
  <2>1. /\ cases' = [cases EXCEPT ![c].status = after, ![c].credited = settling]
        /\ attempts' = IF match > 0 /\ Whole!AttemptCan(attempts[c][match].status, "SUCCEEDED")
                         THEN [attempts EXCEPT ![c][match].status = "SUCCEEDED"]
                         ELSE attempts
        /\ outcomes' = [outcomes EXCEPT ![c] = [payment |-> settling, attempt |-> match]]
        /\ ledger' = ledger + 1
    BY <1>2 DEF Whole!VerifyOrSkip, Whole!Verify
  <2>2. match \in 0 .. Len(attempts[c]) /\ Len(attempts[c]) \in Nat
    BY MatchingAttemptType, RowTypes
  <2>3. cases[c] \in Whole!CaseRow /\ cases \in [Case -> Whole!CaseRow]
    BY RowTypes
  <2>4. after \in Whole!CaseStatuses \union {"ABSENT"}
    BY <2>3 DEF Whole!CaseRow, Whole!StatusBeforeRecovery, Whole!CaseStatuses,
                Whole!ActiveStatuses, Whole!TerminalStatuses
  <2> HIDE DEF after, match
  <2>5. new \in Whole!CaseRow
    BY <2>3, <2>4 DEF Whole!CaseRow
  <2>6. cases' = [cases EXCEPT ![c] = new]
    BY <2>1, <2>3
  <2> HIDE DEF new
  <2>7. /\ cases' \in [Case -> Whole!CaseRow]
        /\ \A d \in Case \ {c} : cases'[d] = cases[d]
    BY <2>3, <2>5, <2>6
  <2>8. attempts' \in [Case -> Seq(Whole!Attempt)]
    <3>1. attempts \in [Case -> Seq(Whole!Attempt)]
      BY RowTypes
    <3>2. match > 0 => match \in 1 .. Len(attempts[c])
      BY <2>2
    <3>3. match > 0 =>
            [attempts EXCEPT ![c][match].status = "SUCCEEDED"] \in [Case -> Seq(Whole!Attempt)]
      BY <3>2, SucceedType
    <3> QED BY <2>1, <3>1, <3>3
  <2>9. outcomes' \in [Case -> Whole!Outcome] /\ ledger' \in Nat
    BY <2>1, <2>2 DEF TypeOK, Whole!TypeOK, Whole!Outcome, Whole!Settler
  <2> QED BY <2>7, <2>8, <2>9
<1> QED BY <1>1, <1>2

----------------------------------------------------------------------------
(* The commit *)

LEMMA NewCaseType ==
  ASSUME NEW e \in Event
  PROVE  NewCase(e) \in Whole!CaseRow
<1>1. e.category \in Whole!Categories /\ (e.payment \in Foreign) \in BOOLEAN
  BY EventShape DEF Categories, Whole!Categories
<1> QED BY <1>1 DEF NewCase, Whole!NoCase, Whole!CaseRow, Whole!CaseStatuses,
                    Whole!ActiveStatuses

LEMMA WriteType ==
  ASSUME RunInv, NEW e \in Event, pc[e] = "ready", WriteCase(e)
  PROVE  /\ cases' \in [Case -> Whole!CaseRow]
         /\ attempts' \in [Case -> Seq(Whole!Attempt)]
         /\ outcomes' \in [Case -> Whole!Outcome]
         /\ ledger' \in Nat
         /\ \A d \in Case : CaseOrder[d] # OrderOf(e) => cases'[d] = cases[d]
<1>1. /\ cases \in [Case -> Whole!CaseRow] /\ ledger \in Nat
      /\ attempts \in [Case -> Seq(Whole!Attempt)] /\ outcomes \in [Case -> Whole!Outcome]
  BY DEF RunInv, TypeOK, Whole!TypeOK
<1>2. \A c \in tx[e].case : c \in Case /\ CaseOrder[c] = OrderOf(e)
  BY DEF RunInv, Current, CasesToWrite, CasesFound, Whole!ActiveCases
<1>3. e.category \in Whole!Categories /\ e.payment \in Whole!Settler
  BY EventShape DEF Categories, Whole!Categories, Whole!Settler
<1>4. CASE IsFailure(e)
  <2>1. /\ ledger' = ledger + 1 /\ UNCHANGED <<attempts, outcomes>>
        /\ IF tx[e].case = {}
             THEN \E c \in Case : /\ CaseOrder[c] = OrderOf(e) /\ ~Whole!Exists(c)
                                  /\ cases' = [cases EXCEPT ![c] = NewCase(e)]
             ELSE \E c \in tx[e].case : cases' = [cases EXCEPT ![c].category = e.category]
    BY <1>4 DEF WriteCase
  <2>2. PICK c \in Case : /\ CaseOrder[c] = OrderOf(e)
                          /\ \/ cases' = [cases EXCEPT ![c] = NewCase(e)]
                             \/ cases' = [cases EXCEPT ![c].category = e.category]
    BY <1>2, <2>1
  <2>3. NewCase(e) \in Whole!CaseRow
    BY NewCaseType
  <2> HIDE DEF NewCase
  <2>4. [cases[c] EXCEPT !.category = e.category] \in Whole!CaseRow
    BY <1>1, <1>3 DEF Whole!CaseRow
  <2>5. /\ cases' \in [Case -> Whole!CaseRow]
        /\ \A d \in Case \ {c} : cases'[d] = cases[d]
    BY <1>1, <2>2, <2>3, <2>4
  <2> QED BY <1>1, <2>1, <2>2, <2>5
<1>5. CASE ~IsFailure(e) /\ tx[e].case = {}
  BY <1>1, <1>5 DEF WriteCase
<1>6. CASE ~IsFailure(e) /\ tx[e].case # {}
  <2>1. PICK c \in tx[e].case : \E link \in Whole!LinksNamed(e, c) :
               Whole!VerifyOrSkip(c, e.payment, PaymentAfter(e),
                                  e.payment \in Foreign, link)
    BY <1>6 DEF WriteCase
  <2>2. PICK link \in Whole!LinksNamed(e, c) :
               Whole!VerifyOrSkip(c, e.payment, PaymentAfter(e),
                                  e.payment \in Foreign, link)
    BY <2>1
  <2>3. c \in Case /\ CaseOrder[c] = OrderOf(e)
    BY <1>2
  <2>4. link \in Nat
    BY <2>3, RowTypes DEF Whole!LinksNamed, RunInv
  <2> QED BY <1>3, <2>2, <2>3, <2>4, VerifyType DEF RunInv
<1> QED BY <1>4, <1>5, <1>6

\* A run adds a row of its customer or rewrites the one it found.
LEMMA CustomerType ==
  ASSUME RunInv, NEW e \in Event, customers' = CustomersAfter(e)
  PROVE  /\ customers' \in [Buyer -> Seq(Nat)]
         /\ \A b \in Buyer : Len(customers'[b]) >= Len(customers[b])
<1> DEFINE b == BuyerOf[e.payment]
           i == tx[e].customer
           n == Count(e)
<1>1. /\ customers \in [Buyer -> Seq(Nat)] /\ b \in Buyer
      /\ \A x \in Buyer : customers[x] \in Seq(Nat) /\ Len(customers[x]) \in Nat
  BY EventShape, RowTypes DEF RunInv, TypeOK
<1>2. i \in Nat /\ i <= Len(customers[b]) /\ n \in Nat
  BY RowTypes DEF RunInv, Current, ReadRows, Count
<1> HIDE DEF b, n
<1>3. CASE i = 0
  <2>1. customers' = [customers EXCEPT ![b] = Append(customers[b], n)]
    BY <1>3 DEF CustomersAfter, b, n
  <2>2. /\ Append(customers[b], n) \in Seq(Nat)
        /\ Len(Append(customers[b], n)) = Len(customers[b]) + 1
    BY <1>1, <1>2
  <2> QED BY <1>1, <2>1, <2>2
<1>4. CASE i # 0 /\ CountsCustomer(e)
  <2> DEFINE s == [customers[b] EXCEPT ![i] = n]
  <2>1. customers' = [customers EXCEPT ![b] = s]
    BY <1>4 DEF CustomersAfter, b, n
  <2>2. i \in 1 .. Len(customers[b])
    BY <1>1, <1>2, <1>4
  <2>3. s \in Seq(Nat) /\ Len(s) = Len(customers[b])
    BY <1>1, <1>2, <2>2, ExceptSeq
  <2> HIDE DEF s
  <2> QED BY <1>1, <2>1, <2>3
<1>5. CASE i # 0 /\ ~CountsCustomer(e)
  <2>1. customers' = customers
    BY <1>5 DEF CustomersAfter
  <2> QED BY <1>1, <2>1
<1> QED BY <1>3, <1>4, <1>5

\* What a commit changes is of one order, which no other run holds.
LEMMA CommitEffect ==
  ASSUME RunInv, NEW e \in Event, Commit(e)
  PROVE  /\ Whole!TypeOK'
         /\ customers' \in [Buyer -> Seq(Nat)]
         /\ \A b \in Buyer : Len(customers'[b]) >= Len(customers[b])
         /\ processed' = processed \union {e}
         /\ \A o \in Order : orderStatus[o] # "ABSENT" => orderStatus'[o] # "ABSENT"
         /\ \A o \in Order \ {OrderOf(e)} : orderStatus'[o] = orderStatus[o]
         /\ \A p \in Payment \ {e.payment} : paymentStatus'[p] = paymentStatus[p]
         /\ \A c \in Case : CaseOrder[c] # OrderOf(e) => cases'[c] = cases[c]
<1>1. /\ pc[e] = "ready" /\ customers' = CustomersAfter(e) /\ WriteCase(e)
      /\ orderStatus' = [orderStatus EXCEPT ![OrderOf(e)] = SyncedOrder(tx[e].order, e)]
      /\ paymentStatus' = [paymentStatus EXCEPT ![e.payment] = PaymentAfter(e)]
      /\ processed' = processed \union {e} /\ UNCHANGED <<synthetic, decisions>>
  BY DEF Commit, Has
<1>2. SyncedOrder(tx[e].order, e) \in OrderStatuses
  BY DEF SyncedOrder, OrderStatuses
<1>3. PaymentAfter(e) \in PaymentStatuses
  BY DEF PaymentAfter, SettledPayment, SyncedPayment, MappedStatus, PaymentStatuses
<1>4. Whole!OrderStatuses = OrderStatuses /\ Whole!PaymentStatuses = PaymentStatuses
  BY DEF OrderStatuses, PaymentStatuses, Whole!OrderStatuses, Whole!PaymentStatuses
<1>5. "ABSENT" \notin OrderStatuses
  BY DEF OrderStatuses
<1>6. /\ orderStatus' \in [Order -> OrderStatuses \union {"ABSENT"}]
      /\ \A o \in Order : orderStatus[o] # "ABSENT" => orderStatus'[o] # "ABSENT"
      /\ \A o \in Order \ {OrderOf(e)} : orderStatus'[o] = orderStatus[o]
  BY <1>1, <1>2, <1>5, EventShape, RowTypes DEF RunInv
<1>7. /\ paymentStatus' \in [Payment -> PaymentStatuses \union {"ABSENT"}]
      /\ \A p \in Payment \ {e.payment} : paymentStatus'[p] = paymentStatus[p]
  BY <1>1, <1>3, EventShape, RowTypes DEF RunInv
<1>8. /\ cases' \in [Case -> Whole!CaseRow]
      /\ attempts' \in [Case -> Seq(Whole!Attempt)]
      /\ outcomes' \in [Case -> Whole!Outcome]
      /\ ledger' \in Nat
      /\ \A c \in Case : CaseOrder[c] # OrderOf(e) => cases'[c] = cases[c]
  BY <1>1, WriteType
<1>9. /\ synthetic' \in [Order -> Nat] /\ processed' \subseteq Event
      /\ decisions' \in [Case -> Seq(Whole!Decision)]
  BY <1>1 DEF RunInv, TypeOK, Whole!TypeOK
<1>10. Whole!TypeOK'
  BY <1>4, <1>6, <1>7, <1>8, <1>9 DEF Whole!TypeOK
<1> QED BY <1>1, <1>6, <1>7, <1>8, <1>10, CustomerType

LEMMA CommitKeeps ==
  ASSUME RunInv, NEW e \in Event, Commit(e)
  PROVE  RunInv'
<1>1. /\ pc[e] = "ready" /\ "ready" \in AfterOrder
      /\ pc' \in [Event -> Points] /\ tx' \in [Event -> ReadRows]
      /\ pc'[e] = "done" /\ tx'[e] = NothingRead
      /\ \A f \in Others(e) : pc'[f] = pc[f] /\ tx'[f] = tx[f]
      /\ UNCHANGED <<retries, conflicts, refusals>>
  <2>1. NothingRead \in ReadRows /\ "done" \in Points
    BY DEF NothingRead, ReadRows, Points
  <2>2. /\ pc[e] = "ready" /\ pc' = [pc EXCEPT ![e] = "done"]
        /\ tx' = [tx EXCEPT ![e] = NothingRead] /\ UNCHANGED <<retries, conflicts, refusals>>
    BY DEF Commit, Has, Goto, NoConflict
  <2>3. pc \in [Event -> Points] /\ tx \in [Event -> ReadRows]
    BY DEF RunInv, TypeOK, Points, ReadRows
  <2> QED BY <2>1, <2>2, <2>3, PointsKnown DEF Others
<1>2. \A f \in Others(e) : pc[f] \in AfterOrder => OrderOf(f) # OrderOf(e)
  BY <1>1 DEF RunInv, OrderUnlocked
<1>3. TypeOK'
  BY <1>1, CommitEffect DEF RunInv, TypeOK, Points, ReadRows
<1>4. \A f \in Event : tx'[f].customer <= Len(customers'[BuyerOf[f.payment]])
  <2> SUFFICES ASSUME NEW f \in Event
      PROVE tx'[f].customer <= Len(customers'[BuyerOf[f.payment]])
    OBVIOUS
  <2> DEFINE b == BuyerOf[f.payment]
  <2>1. b \in Buyer /\ tx[f].customer \in Nat /\ tx[f].customer <= Len(customers[b])
    BY EventShape, RowTypes DEF RunInv, Current, ReadRows
  <2>2. /\ Len(customers[b]) \in Nat /\ Len(customers'[b]) \in Nat
        /\ Len(customers'[b]) >= Len(customers[b])
    BY <2>1, CommitEffect, RowTypes DEF RunInv
  <2>3. tx'[f].customer = tx[f].customer \/ tx'[f].customer = 0
    BY <1>1 DEF Others, NothingRead
  <2> QED BY <2>1, <2>2, <2>3
<1>5. Current(e, pc[e], tx[e])'
  <2>1. /\ "done" \notin AfterOrder /\ "done" \notin AfterPayment
        /\ NothingRead.order = "ABSENT" /\ NothingRead.payment = "ABSENT"
        /\ NothingRead.case = {}
    BY DEF AfterOrder, AfterPayment, NothingRead
  <2> QED BY <1>1, <1>4, <2>1 DEF Current
<1>6. ASSUME NEW f \in Others(e)
      PROVE  Current(f, pc[f], tx[f])'
  <2>1. /\ f \in Event /\ pc'[f] = pc[f] /\ tx'[f] = tx[f]
        /\ Current(f, pc[f], tx[f]) /\ OrderOf(f)' = OrderOf(f)
    BY <1>1 DEF RunInv, Others, OrderOf
  <2>2. CASE pc[f] \notin AfterOrder
    <3>1. /\ pc[f] \notin AfterPayment /\ pc[f] # "noPayment" /\ pc[f] # "noCase"
          /\ pc[f] # "ready"
      BY <2>2, PointsKnown
    <3> QED BY <1>4, <2>1, <2>2, <3>1 DEF Current
  <2>3. CASE pc[f] \in AfterOrder
    <3>1. OrderOf(f) # OrderOf(e) /\ f.payment # e.payment
      BY <1>2, <2>3 DEF OrderOf
    <3>2. /\ orderStatus'[OrderOf(f)] = orderStatus[OrderOf(f)]
          /\ paymentStatus'[f.payment] = paymentStatus[f.payment]
      BY <2>1, <3>1, CommitEffect, EventShape
    <3>3. \A c \in Case : CaseOrder[c] = OrderOf(f) => cases'[c] = cases[c]
      BY <3>1, CommitEffect
    <3>4. /\ Whole!ActiveCases(OrderOf(f))' = Whole!ActiveCases(OrderOf(f))
          /\ CasesFound(f)' = CasesFound(f)
      BY <2>1, <3>3 DEF CasesFound, Whole!ActiveCases, Whole!Active
    <3>5. CasesToWrite(f)' = CasesToWrite(f)
      BY <3>4 DEF CasesToWrite
    <3> QED BY <1>4, <2>1, <3>2, <3>4, <3>5 DEF Current
  <2> QED BY <2>2, <2>3
<1>7. \A f \in Event : ConflictOver(f, pc[f], conflicts[f], refusals[f])'
  <2> SUFFICES ASSUME NEW f \in Event PROVE ConflictOver(f, pc[f], conflicts[f], refusals[f])'
    OBVIOUS
  <2>1. OrderKnown(f) => OrderKnown(f)'
    BY CommitEffect, EventShape DEF OrderKnown, OrderOf
  <2>2. pc'[f] \in {pc[f], "done"}
    BY <1>1 DEF Others
  <2> QED BY <1>1, <2>1, <2>2 DEF RunInv, ConflictOver
<1>8. \A f \in Event : pc'[f] # "done" => f \notin processed'
  BY <1>1, CommitEffect DEF RunInv, Others
<1>9. ASSUME NEW f \in Event, pc'[f] \in AfterOrder
      PROVE  OrderUnlocked(f)'
  <2>1. "done" \notin AfterOrder
    BY DEF AfterOrder, AfterPayment
  <2>2. \A g \in Event : pc'[g] \in AfterOrder => g # e /\ pc[g] \in AfterOrder
    BY <1>1, <2>1 DEF Others
  <2>3. OrderUnlocked(f)
    BY <1>9, <2>2 DEF RunInv
  <2> QED BY <2>2, <2>3 DEF OrderUnlocked, Others, OrderOf
<1> QED BY <1>3, <1>5, <1>6, <1>7, <1>8, <1>9 DEF RunInv, Others

\* The commit of a run is a whole run of the pipeline at that moment.
LEMMA CommitIsWhole ==
  ASSUME RunInv, NEW e \in Event, Commit(e)
  PROVE  Whole!ProcessEvent(e)
<1> DEFINE o == OrderOf(e)
<1>1. /\ pc[e] = "ready" /\ WriteCase(e)
      /\ orderStatus' = [orderStatus EXCEPT ![o] = SyncedOrder(tx[e].order, e)]
      /\ paymentStatus' = [paymentStatus EXCEPT ![e.payment] = PaymentAfter(e)]
      /\ processed' = processed \union {e} /\ UNCHANGED <<synthetic, decisions>>
  BY DEF Commit, Has
<1>2. /\ tx[e].order = orderStatus[o] /\ tx[e].payment = paymentStatus[e.payment]
      /\ tx[e].case = CasesToWrite(e) /\ e \notin processed
  BY <1>1, PointsKnown DEF RunInv, Current
<1>3. o = PayOrder[e.payment]
  BY DEF OrderOf
<1>4. Whole!SyncWith(e, PaymentAfter(e))
  <2>1. \A current : Whole!SyncedOrder(current, e) = SyncedOrder(current, e)
    BY DEF Whole!SyncedOrder, SyncedOrder, Whole!MarksOrderPaid, MarksOrderPaid
  <2>2. orderStatus' = [orderStatus EXCEPT ![o] = Whole!SyncedOrder(orderStatus[o], e)]
    BY <1>1, <1>2, <2>1
  <2> QED BY <1>1, <1>2, <1>3, <2>2 DEF Whole!SyncWith
<1>5. /\ Whole!IsFailure(e) <=> IsFailure(e)
      /\ Whole!IsCapture(e) <=> IsCapture(e)
  BY DEF Whole!IsFailure, IsFailure, Whole!IsCapture, IsCapture
<1>6. ASSUME ~IsCapture(e) \/ tx[e].case = {}
       PROVE  Whole!Sync(e)
  <2>1. PaymentAfter(e) = SyncedPayment(paymentStatus[e.payment], e)
    BY <1>2, <1>6 DEF PaymentAfter
  <2>2. \A current : Whole!SyncedPayment(current, e) = SyncedPayment(current, e)
    BY DEF Whole!SyncedPayment, SyncedPayment, Whole!MappedStatus, MappedStatus
  <2> QED BY <1>4, <2>1, <2>2 DEF Whole!Sync
<1>7. \A c : c \in CasesFound(e) /\ IsCapture(e) <=> c \in Whole!Verifiable(o) /\ IsCapture(e)
  BY DEF CasesFound, Whole!Verifiable
<1>8. CASE IsFailure(e)
  <2>1. /\ ledger' = ledger + 1 /\ UNCHANGED <<decisions, attempts, outcomes>>
        /\ tx[e].case = Whole!ActiveCases(o)
    BY <1>1, <1>2, <1>8, FailureFinds DEF WriteCase
  <2>2. CASE tx[e].case = {}
    <3>1. \E c \in Case : /\ CaseOrder[c] = o /\ ~Whole!Exists(c)
                          /\ cases' = [cases EXCEPT ![c] = NewCase(e)]
      BY <1>1, <1>8, <2>2 DEF WriteCase
    <3>2. Whole!OpenCase(e)
      BY <1>3, <1>5, <1>8, <1>6, <2>1, <2>2, <3>1, FailureFinds
      DEF Whole!OpenCase, Whole!OrderNeedsCase, NewCase
    <3> QED BY <3>2 DEF Whole!ProcessEvent
  <2>3. CASE tx[e].case # {}
    <3>1. \E c \in tx[e].case : cases' = [cases EXCEPT ![c].category = e.category]
      BY <1>1, <1>8, <2>3 DEF WriteCase
    <3>2. Whole!AppendFailure(e)
      BY <1>3, <1>5, <1>8, <1>6, <2>1, <3>1, FailureFinds DEF Whole!AppendFailure
    <3> QED BY <3>2 DEF Whole!ProcessEvent
  <2> QED BY <2>2, <2>3
<1>9. CASE ~IsFailure(e) /\ tx[e].case = {}
  <2>1. UNCHANGED <<cases, decisions, attempts, outcomes, ledger>>
    BY <1>1, <1>9 DEF WriteCase
  <2>2. IsCapture(e) => Whole!Verifiable(o) = {}
    BY <1>2, <1>9, <1>7 DEF CasesToWrite
  <2>3. Whole!SyncOnly(e)
    BY <1>3, <1>5, <1>9, <1>6, <2>1, <2>2 DEF Whole!SyncOnly
  <2> QED BY <2>3 DEF Whole!ProcessEvent
<1>10. CASE ~IsFailure(e) /\ tx[e].case # {}
  <2>1. PICK c \in tx[e].case : \E link \in Whole!LinksNamed(e, c) :
               Whole!VerifyOrSkip(c, e.payment, PaymentAfter(e),
                                  e.payment \in Foreign, link)
    BY <1>1, <1>10 DEF WriteCase
  <2>2. IsCapture(e) /\ c \in Whole!Verifiable(o)
    BY <1>2, <1>10, <1>7 DEF CasesToWrite
  <2>3. PaymentAfter(e) = Whole!SettledPayment(paymentStatus[e.payment], e)
    BY <1>10, <2>2 DEF PaymentAfter, SettledPayment, Whole!SettledPayment
  <2>4. Whole!CaptureForCase(e)
    BY <1>1, <1>3, <1>4, <1>5, <2>1, <2>2, <2>3 DEF Whole!CaptureForCase
  <2> QED BY <2>4 DEF Whole!ProcessEvent
<1> QED BY <1>8, <1>9, <1>10

----------------------------------------------------------------------------
(* The invariant holds *)

LEMMA InitTypes ==
  ASSUME Init
  PROVE  Whole!TypeOK /\ customers \in [Buyer -> Seq(Nat)]
<1>1. Whole!NoCase \in Whole!CaseRow /\ Whole!NoOutcome \in Whole!Outcome
  BY DEF Whole!NoCase, Whole!CaseRow, Whole!Categories, Whole!NoOutcome, Whole!Outcome
<1>2. synthetic \in [Order -> Nat] /\ outcomes \in [Case -> Whole!Outcome]
  BY <1>1 DEF Init
<1>3. CASE NothingKnown
  <2>1. /\ <<>> \in Seq(Whole!Decision) /\ <<>> \in Seq(Whole!Attempt) /\ <<>> \in Seq(Nat)
    OBVIOUS
  <2> QED BY <1>1, <1>2, <1>3, <2>1 DEF NothingKnown, Whole!TypeOK
<1>4. CASE LinkSent
  <2> DEFINE decision == [number |-> 1, verdict |-> "APPROVED", action |-> "PAYMENT_LINK"]
             attempt == [number |-> 1, action |-> "PAYMENT_LINK",
                         status |-> "ACKNOWLEDGED", link |-> 1, decision |-> 1]
             linked(e) == [NewCase(e) EXCEPT !.status = "WAITING_EXTERNAL", !.count = 1,
                                             !.cooling = TRUE]
  <2>1. PICK e \in Event, c \in Case :
          /\ orderStatus = [x \in Order |-> IF x = OrderOf(e) THEN "ATTEMPTED" ELSE "ABSENT"]
          /\ paymentStatus = [p \in Payment |-> IF p = e.payment THEN "FAILED" ELSE "ABSENT"]
          /\ processed = {e}
          /\ cases = [d \in Case |-> IF d = c THEN linked(e) ELSE Whole!NoCase]
          /\ decisions = [d \in Case |-> IF d = c THEN <<decision>> ELSE <<>>]
          /\ attempts = [d \in Case |-> IF d = c THEN <<attempt>> ELSE <<>>]
          /\ ledger = 4
          /\ customers = [b \in Buyer |-> IF b = BuyerOf[e.payment] THEN <<1>> ELSE <<>>]
    BY <1>4 DEF LinkSent
  <2>2. NewCase(e) \in Whole!CaseRow
    BY NewCaseType
  <2>3. linked(e) \in Whole!CaseRow
    BY <2>2 DEF Whole!CaseRow, Whole!CaseStatuses, Whole!ActiveStatuses
  <2>4. decision \in Whole!Decision /\ attempt \in Whole!Attempt
    BY DEF Whole!Decision, Whole!Verdicts, Whole!Actions, Whole!Attempt,
           Whole!AttemptStatuses
  <2> HIDE DEF decision, attempt, linked
  <2>5. /\ <<>> \in Seq(Whole!Decision) /\ <<decision>> \in Seq(Whole!Decision)
        /\ <<>> \in Seq(Whole!Attempt) /\ <<attempt>> \in Seq(Whole!Attempt)
        /\ <<>> \in Seq(Nat) /\ <<1>> \in Seq(Nat)
    BY <2>4
  <2>6. /\ orderStatus \in [Order -> Whole!OrderStatuses \union {"ABSENT"}]
        /\ paymentStatus \in [Payment -> Whole!PaymentStatuses \union {"ABSENT"}]
    BY <2>1 DEF Whole!OrderStatuses, Whole!PaymentStatuses
  <2>7. /\ cases \in [Case -> Whole!CaseRow] /\ decisions \in [Case -> Seq(Whole!Decision)]
        /\ attempts \in [Case -> Seq(Whole!Attempt)] /\ customers \in [Buyer -> Seq(Nat)]
    BY <1>1, <2>1, <2>3, <2>5
  <2> QED BY <1>2, <2>1, <2>6, <2>7 DEF Whole!TypeOK
<1> QED BY <1>3, <1>4 DEF Init

LEMMA InitRunInv ==
  ASSUME Init
  PROVE  RunInv
<1>1. /\ pc \in [Event -> {"idle", "done"}] /\ tx = [e \in Event |-> NothingRead]
      /\ retries = [e \in Event |-> 0] /\ conflicts = [e \in Event |-> 0]
      /\ refusals = [e \in Event |-> 0]
      /\ \A e \in Event : pc[e] # "done" => e \notin processed
  BY DEF Init
<1>2. TypeOK
  <2>1. NothingRead \in ReadRows /\ 0 \in 0 .. MaxRetries
    BY PipelineAssumption DEF NothingRead, ReadRows
  <2>2. tx \in [Event -> ReadRows] /\ retries \in [Event -> 0 .. MaxRetries]
        /\ conflicts \in [Event -> Nat] /\ refusals \in [Event -> Nat]
    BY <1>1, <2>1
  <2> QED BY <1>1, <2>2, InitTypes DEF TypeOK, ReadRows
<1>3. \A e \in Event : /\ pc[e] \notin AfterOrder /\ pc[e] \notin AfterPayment
                       /\ pc[e] # "noPayment" /\ pc[e] # "noCase" /\ pc[e] # "ready"
  BY <1>1 DEF AfterOrder, AfterPayment
<1>4. \A e \in Event : Current(e, pc[e], tx[e])
  <2> SUFFICES ASSUME NEW e \in Event PROVE Current(e, pc[e], tx[e])
    OBVIOUS
  <2>1. Len(customers[BuyerOf[e.payment]]) \in Nat
    BY <1>2, EventShape, RowTypes
  <2> QED BY <1>1, <1>3, <2>1 DEF Current, NothingRead
<1> QED BY <1>1, <1>2, <1>3, <1>4 DEF RunInv, ConflictOver

LEMMA RunInvKept ==
  ASSUME RunInv, [Next]_vars
  PROVE  RunInv'
<1>1. ASSUME NEW e \in Event, Statement(e) \/ AuditRefuses(e) \/ Fail(e)
      PROVE  RunInv'
  BY <1>1, FindCustomerKeeps, FlushCustomerKeeps, LockOrderKeeps, InsertOrderKeeps,
     LockPaymentKeeps, InsertPaymentKeeps, FindCaseOfFailureKeeps, FindCaseOfCaptureKeeps,
     InsertCaseKeeps, CommitKeeps, AuditRefusesKeeps, FailKeeps DEF Statement
<1>2. CASE UNCHANGED vars
  <2>1. /\ UNCHANGED <<orderStatus, paymentStatus, synthetic, processed, cases, decisions,
                       attempts, outcomes, ledger, customers>>
        /\ UNCHANGED <<pc, tx, retries, conflicts, refusals>>
    BY <1>2 DEF vars, rows
  <2>2. TypeOK'
    BY <2>1 DEF RunInv, TypeOK, Whole!TypeOK
  <2>3. \A e \in Event : Current(e, pc[e], tx[e])'
    <3>1. \A e \in Event : /\ Whole!ActiveCases(OrderOf(e))' = Whole!ActiveCases(OrderOf(e))
                           /\ CasesToWrite(e)' = CasesToWrite(e)
      BY <2>1 DEF CasesToWrite, CasesFound, Whole!ActiveCases, Whole!Active, OrderOf
    <3> QED BY <2>1, <3>1 DEF RunInv, Current, OrderOf
  <2> QED BY <2>1, <2>2, <2>3 DEF RunInv, ConflictOver, OrderKnown, OrderUnlocked, OrderOf
<1> QED BY <1>1, <1>2 DEF Next

LEMMA RunInvHolds == Spec => []RunInv
  BY InitRunInv, RunInvKept, PTL DEF Spec

----------------------------------------------------------------------------
(* The failures a customer's rows count *)

Counted(b, rowOf, i) == {x \in FailuresOf(b) : rowOf[x] = i}

\* Neither a row nor what a run has read of it counts more than the failures that
\* were written to that row; a run that found no row starts from 0.
Accounts(b, rowOf) ==
  /\ \A i \in DOMAIN customers[b] :
       customers[b][i] <= Cardinality(Counted(b, rowOf, i))
  /\ \A e \in Event : BuyerOf[e.payment] = b =>
       IF tx[e].customer = 0
         THEN tx[e].failures = 0
         ELSE tx[e].failures <= Cardinality(Counted(b, rowOf, tx[e].customer))

SomeCounted(b) == FailuresOf(b) # {} => \E i \in DOMAIN customers[b] : customers[b][i] >= 1

CountInv ==
  /\ IsFiniteSet(processed)
  /\ \A b \in Buyer :
       /\ \E rowOf \in [FailuresOf(b) -> DOMAIN customers[b]] : Accounts(b, rowOf)
       /\ SomeCounted(b)

\* What a statement other than the commit may make of what a run has read.
ReadsCustomer(e) ==
  \/ tx'[e].customer = tx[e].customer /\ tx'[e].failures = tx[e].failures
  \/ tx'[e].customer = 0 /\ tx'[e].failures = 0
  \/ /\ tx'[e].customer \in DOMAIN customers[BuyerOf[e.payment]]
     /\ tx'[e].customer # 0
     /\ tx'[e].failures = customers[BuyerOf[e.payment]][tx'[e].customer]

LEMMA StatementReads ==
  ASSUME RunInv, [Next]_vars, \A e \in Event : ~Commit(e)
  PROVE  /\ UNCHANGED <<processed, customers>>
         /\ \A e \in Event : ReadsCustomer(e)
<1>1. tx \in [Event -> ReadRows]
  BY DEF RunInv, TypeOK, ReadRows
<1>2. NothingRead.customer = 0 /\ NothingRead.failures = 0
  BY DEF NothingRead
<1> DEFINE Kept == UNCHANGED <<processed, customers>> /\ \A e \in Event : ReadsCustomer(e)
<1>3. ASSUME NEW e \in Event, RolledBack(e), UNCHANGED <<rows, customers>>
      PROVE  Kept
  BY <1>1, <1>2, <1>3 DEF RolledBack, rows, ReadsCustomer
<1>4. ASSUME NEW e \in Event, FindCustomer(e)
      PROVE  Kept
  <2> DEFINE known == customers[BuyerOf[e.payment]]
  <2>1. known \in Seq(Nat) /\ Len(known) \in Nat
    BY EventShape, RowTypes DEF RunInv
  <2>2. PICK i \in IF known = <<>> THEN {0} ELSE DOMAIN known :
          tx' = [tx EXCEPT ![e] = [NothingRead EXCEPT
                   !.customer = i, !.failures = IF i = 0 THEN 0 ELSE known[i]]]
    BY <1>4 DEF FindCustomer
  <2>3. i = 0 \/ (i \in DOMAIN known /\ i # 0)
    BY <2>1, <2>2
  <2>4. /\ tx'[e].customer = i /\ tx'[e].failures = (IF i = 0 THEN 0 ELSE known[i])
        /\ \A f \in Others(e) : tx'[f] = tx[f]
    BY <1>1, <2>2 DEF NothingRead, Others
  <2>5. UNCHANGED <<processed, customers>>
    BY <1>4 DEF FindCustomer, rows
  <2> QED BY <2>3, <2>4, <2>5 DEF ReadsCustomer, Others
<1>5. ASSUME NEW e \in Event,
             \/ FlushCustomer(e) \/ LockOrder(e) \/ LockPayment(e)
             \/ FindCaseOfFailure(e) \/ FindCaseOfCapture(e)
      PROVE  Kept
  <2>1. UNCHANGED <<rows, customers>>
    BY <1>5 DEF FlushCustomer, LockOrder, LockPayment, FindCaseOfFailure, FindCaseOfCapture
  <2>2. \/ tx' = tx
        \/ \E x : tx' = [tx EXCEPT ![e].order = x]
        \/ \E x : tx' = [tx EXCEPT ![e].payment = x]
        \/ \E x : tx' = [tx EXCEPT ![e].case = x]
    BY <1>5 DEF FlushCustomer, LockOrder, LockPayment, FindCaseOfFailure, FindCaseOfCapture
  <2>3. \A f \in Event : tx'[f].customer = tx[f].customer /\ tx'[f].failures = tx[f].failures
    BY <1>1, <2>2 DEF ReadRows
  <2> QED BY <2>1, <2>3 DEF rows, ReadsCustomer
<1>6. ASSUME NEW e \in Event,
             \/ InsertOrder(e) \/ InsertPayment(e) \/ InsertCase(e)
             \/ AuditRefuses(e) \/ Fail(e)
      PROVE  Kept
  <2>1. UNCHANGED <<rows, customers>> /\ (tx' = tx \/ RolledBack(e))
    BY <1>6 DEF InsertOrder, InsertPayment, InsertCase, Insert, Conflict, AuditRefuses, Fail
  <2>2. CASE tx' = tx
    BY <2>1, <2>2 DEF rows, ReadsCustomer
  <2> QED BY <1>3, <2>1, <2>2
<1>7. CASE UNCHANGED vars
  BY <1>7 DEF vars, rows, ReadsCustomer
<1>8. ASSUME NEW e \in Event, Statement(e) \/ AuditRefuses(e) \/ Fail(e)
      PROVE  Kept
  <2>1. ~Commit(e)
    OBVIOUS
  <2> HIDE DEF Kept
  <2> QED BY <1>4, <1>5, <1>6, <1>8, <2>1 DEF Statement
<1> QED BY <1>7, <1>8 DEF Next

\* A commit counts its failure in the row its run has found, or in a new one.
LEMMA CommitCounts ==
  ASSUME RunInv, NEW e \in Event, Commit(e),
         tx[e].customer = 0 => tx[e].failures = 0
  PROVE  LET b == BuyerOf[e.payment]
             j == IF tx[e].customer = 0 THEN Len(customers[b]) + 1 ELSE tx[e].customer
         IN  /\ \A a \in Buyer \ {b} : customers'[a] = customers[a]
             /\ j \in Nat \ {0}
             /\ \/ /\ e.status = "failed"
                   /\ DOMAIN customers'[b] = DOMAIN customers[b] \union {j}
                   /\ \A i \in DOMAIN customers[b] \ {j} : customers'[b][i] = customers[b][i]
                   /\ customers'[b][j] = tx[e].failures + 1
                \/ /\ e.status # "failed"
                   /\ DOMAIN customers[b] \subseteq DOMAIN customers'[b]
                   /\ \A i \in DOMAIN customers[b] : customers'[b][i] = customers[b][i]
                   /\ \A i \in DOMAIN customers'[b] \ DOMAIN customers[b] :
                        customers'[b][i] = 0
<1> DEFINE b == BuyerOf[e.payment]
           s == customers[b]
           n == Count(e)
           k == tx[e].customer
<1>1. /\ customers \in [Buyer -> Seq(Nat)] /\ b \in Buyer
      /\ s \in Seq(Nat) /\ Len(s) \in Nat /\ DOMAIN s = 1 .. Len(s)
  BY EventShape, RowTypes DEF RunInv, TypeOK
<1>2. /\ k \in Nat /\ k <= Len(s) /\ n \in Nat
      /\ n = IF e.status = "failed" THEN tx[e].failures + 1
                                                 ELSE tx[e].failures
  BY RowTypes DEF RunInv, Current, ReadRows, Count
<1>3. customers' = CustomersAfter(e)
  BY DEF Commit
<1> HIDE DEF n
<1>4. CASE k = 0
  <2> DEFINE t == Append(s, n)
  <2>1. customers' = [customers EXCEPT ![b] = t]
    BY <1>3, <1>4 DEF CustomersAfter, n
  <2>2. /\ DOMAIN t = DOMAIN s \union {Len(s) + 1}
        /\ \A i \in DOMAIN s : t[i] = s[i]
        /\ t[Len(s) + 1] = n /\ Len(s) + 1 \notin DOMAIN s
    BY <1>1, <1>2
  <2> HIDE DEF t
  <2>3. customers'[b] = t /\ \A a \in Buyer \ {b} : customers'[a] = customers[a]
    BY <1>1, <2>1
  <2> QED BY <1>1, <1>2, <1>4, <2>2, <2>3
<1>5. CASE k # 0 /\ CountsCustomer(e)
  <2> DEFINE t == [s EXCEPT ![k] = n]
  <2>1. customers' = [customers EXCEPT ![b] = t]
    BY <1>3, <1>5 DEF CustomersAfter, n
  <2>2. k \in DOMAIN s /\ e.status = "failed"
    BY <1>1, <1>2, <1>5 DEF CountsCustomer
  <2>3. /\ DOMAIN t = DOMAIN s /\ t[k] = n
        /\ \A i \in DOMAIN s \ {k} : t[i] = s[i]
    BY <2>2
  <2> HIDE DEF t
  <2>4. customers'[b] = t /\ \A a \in Buyer \ {b} : customers'[a] = customers[a]
    BY <1>1, <2>1
  <2> QED BY <1>1, <1>2, <1>5, <2>2, <2>3, <2>4
<1>6. CASE k # 0 /\ ~CountsCustomer(e)
  <2>1. customers' = customers /\ e.status # "failed"
    BY <1>2, <1>3, <1>6 DEF CustomersAfter, CountsCustomer
  <2> QED BY <1>2, <1>6, <2>1
<1> QED BY <1>4, <1>5, <1>6

\* The commit of a failure writes it to one row, whose count has then one more
\* failure to stand for it; no other row and no other run loses any.
LEMMA CountKept ==
  ASSUME RunInv, CountInv, [Next]_vars
  PROVE  CountInv'
<1>1. CASE \A e \in Event : ~Commit(e)
  <2>1. UNCHANGED <<processed, customers>> /\ \A e \in Event : ReadsCustomer(e)
    BY <1>1, StatementReads
  <2>2. \A b \in Buyer : FailuresOf(b)' = FailuresOf(b)
    BY <2>1 DEF FailuresOf
  <2>3. ASSUME NEW b \in Buyer, NEW rowOf \in [FailuresOf(b) -> DOMAIN customers[b]],
               Accounts(b, rowOf)
        PROVE  Accounts(b, rowOf)'
    <3>1. \A i : Counted(b, rowOf, i)' = Counted(b, rowOf, i)
      BY <2>2 DEF Counted
    <3>2. ASSUME NEW e \in Event, BuyerOf[e.payment] = b
          PROVE  IF tx'[e].customer = 0
                   THEN tx'[e].failures = 0
                   ELSE tx'[e].failures <= Cardinality(Counted(b, rowOf, tx'[e].customer))
      BY <2>1, <2>3, <3>2 DEF ReadsCustomer, Accounts
    <3> QED BY <2>1, <2>3, <3>1, <3>2 DEF Accounts
  <2> QED BY <2>1, <2>2, <2>3 DEF CountInv, SomeCounted
<1>2. ASSUME NEW e \in Event, Commit(e)
      PROVE  CountInv'
  <2> DEFINE b == BuyerOf[e.payment]
  <2> PICK j : j = IF tx[e].customer = 0 THEN Len(customers[b]) + 1 ELSE tx[e].customer
    OBVIOUS
  <2>1. b \in Buyer /\ e \notin processed
    BY <1>2, EventShape DEF RunInv, Commit, Has
  <2>2. processed' = processed \union {e} /\ IsFiniteSet(processed')
    BY <1>2, FS_AddElement DEF Commit, CountInv
  <2>3. /\ tx'[e].customer = 0 /\ tx'[e].failures = 0
        /\ \A f \in Event \ {e} : tx'[f] = tx[f]
    BY <1>2 DEF Commit, RunInv, TypeOK, NothingRead
  <2>4. PICK rowOf \in [FailuresOf(b) -> DOMAIN customers[b]] : Accounts(b, rowOf)
    BY <2>1 DEF CountInv
  <2>5. tx[e].customer = 0 => tx[e].failures = 0
    BY <2>4 DEF Accounts
  <2>6. /\ \A a \in Buyer \ {b} : customers'[a] = customers[a]
        /\ j \in Nat \ {0}
        /\ \/ /\ e.status = "failed"
              /\ DOMAIN customers'[b] = DOMAIN customers[b] \union {j}
              /\ \A i \in DOMAIN customers[b] \ {j} : customers'[b][i] = customers[b][i]
              /\ customers'[b][j] = tx[e].failures + 1
           \/ /\ e.status # "failed"
              /\ DOMAIN customers[b] \subseteq DOMAIN customers'[b]
              /\ \A i \in DOMAIN customers[b] : customers'[b][i] = customers[b][i]
              /\ \A i \in DOMAIN customers'[b] \ DOMAIN customers[b] :
                   customers'[b][i] = 0
    BY <1>2, <2>5, CommitCounts
  <2>7. /\ \A f \in Event : tx[f].failures \in Nat
        /\ \A i \in DOMAIN customers[b] : customers[b][i] \in Nat
    BY <2>1, RowTypes DEF RunInv, ReadRows
  <2>8. \A i : /\ IsFiniteSet(Counted(b, rowOf, i))
               /\ Cardinality(Counted(b, rowOf, i)) \in Nat
    BY FS_Subset, FS_CardinalityType DEF Counted, FailuresOf, CountInv
  <2>9. ASSUME NEW a \in Buyer \ {b}
        PROVE  /\ \E g \in [FailuresOf(a)' -> DOMAIN customers'[a]] : Accounts(a, g)'
               /\ SomeCounted(a)'
    <3>1. FailuresOf(a)' = FailuresOf(a) /\ customers'[a] = customers[a]
      BY <2>2, <2>6 DEF FailuresOf
    <3>2. PICK g \in [FailuresOf(a) -> DOMAIN customers[a]] : Accounts(a, g)
      BY DEF CountInv
    <3>3. \A i : Counted(a, g, i)' = Counted(a, g, i)
      BY <3>1 DEF Counted
    <3>4. Accounts(a, g)'
      BY <2>3, <3>1, <3>2, <3>3 DEF Accounts
    <3>5. SomeCounted(a)'
      BY <3>1 DEF CountInv, SomeCounted
    <3> QED BY <3>1, <3>2, <3>4, <3>5
  <2>10. /\ \E g \in [FailuresOf(b)' -> DOMAIN customers'[b]] : Accounts(b, g)'
         /\ SomeCounted(b)'
    <3>1. CASE e.status # "failed"
      <4>1. FailuresOf(b)' = FailuresOf(b)
        BY <2>2, <3>1 DEF FailuresOf
      <4>2. \A i : Counted(b, rowOf, i)' = Counted(b, rowOf, i)
        BY <4>1 DEF Counted
      <4>3. rowOf \in [FailuresOf(b)' -> DOMAIN customers'[b]]
        BY <2>6, <3>1, <4>1
      <4>4. \A i \in DOMAIN customers'[b] :
              customers'[b][i] <= Cardinality(Counted(b, rowOf, i))
        BY <2>4, <2>6, <2>8, <3>1 DEF Accounts
      <4>5. Accounts(b, rowOf)'
        BY <2>3, <2>4, <4>2, <4>4 DEF Accounts
      <4>6. SomeCounted(b)'
        BY <2>1, <2>6, <3>1, <4>1 DEF CountInv, SomeCounted
      <4> QED BY <4>3, <4>5, <4>6
    <3>2. CASE e.status = "failed"
      <4>1. /\ FailuresOf(b)' = FailuresOf(b) \union {e} /\ e \notin FailuresOf(b)
            /\ \A x \in FailuresOf(b) : x # e
        BY <2>1, <2>2, <3>2 DEF FailuresOf
      <4>2. PICK g : g = [x \in FailuresOf(b) \union {e} |-> IF x = e THEN j ELSE rowOf[x]]
        OBVIOUS
      <4>3. g \in [FailuresOf(b)' -> DOMAIN customers'[b]]
        BY <2>6, <3>2, <4>1, <4>2
      <4> DEFINE After(i) == {x \in FailuresOf(b) \union {e} : g[x] = i}
      <4>4. /\ \A i : Counted(b, g, i)' = After(i)
            /\ \A i : i # j => After(i) = Counted(b, rowOf, i)
            /\ After(j) = Counted(b, rowOf, j) \union {e}
            /\ e \notin Counted(b, rowOf, j)
        BY <4>1, <4>2 DEF Counted
      <4> HIDE DEF After
      <4>5. /\ \A i : i # j => Cardinality(After(i)) = Cardinality(Counted(b, rowOf, i))
            /\ Cardinality(After(j)) = Cardinality(Counted(b, rowOf, j)) + 1
        BY <2>8, <4>4, FS_AddElement
      <4>6. tx[e].failures <= Cardinality(Counted(b, rowOf, j))
        BY <2>4, <2>5, <2>7, <2>8 DEF Accounts
      <4>7. \A i \in DOMAIN customers'[b] : customers'[b][i] <= Cardinality(After(i))
        <5> SUFFICES ASSUME NEW i \in DOMAIN customers'[b]
                     PROVE  customers'[b][i] <= Cardinality(After(i))
          OBVIOUS
        <5>1. CASE i = j
          BY <2>6, <2>7, <2>8, <3>2, <4>5, <4>6, <5>1
        <5>2. CASE i # j
          BY <2>4, <2>6, <3>2, <4>5, <5>2 DEF Accounts
        <5> QED BY <5>1, <5>2
      <4>8. ASSUME NEW f \in Event, BuyerOf[f.payment] = b
            PROVE  IF tx'[f].customer = 0
                     THEN tx'[f].failures = 0
                     ELSE tx'[f].failures <= Cardinality(After(tx'[f].customer))
        <5>1. CASE f = e
          BY <2>3, <5>1
        <5>2. CASE f # e
          <6>1. tx'[f] = tx[f] /\ tx[f].failures \in Nat
            BY <2>3, <2>7, <5>2
          <6>2. \A i : Cardinality(Counted(b, rowOf, i)) <= Cardinality(After(i))
            BY <2>8, <4>5
          <6>3. tx[f].customer # 0 =>
                  tx[f].failures <= Cardinality(Counted(b, rowOf, tx[f].customer))
            BY <2>4, <4>8 DEF Accounts
          <6>4. \A i : /\ Cardinality(Counted(b, rowOf, i)) \in Int
                       /\ Cardinality(After(i)) \in Int
            BY <2>8, <4>5
          <6>5. tx[f].customer # 0 =>
                  tx[f].failures <= Cardinality(After(tx[f].customer))
            BY <6>1, <6>2, <6>3, <6>4
          <6> QED BY <2>4, <4>8, <6>1, <6>5 DEF Accounts
        <5> QED BY <5>1, <5>2
      <4>9. Accounts(b, g)'
        BY <4>4, <4>7, <4>8 DEF Accounts
      <4>10. customers'[b][j] >= 1 /\ j \in DOMAIN customers'[b]
        BY <2>6, <2>7, <3>2
      <4> QED BY <4>3, <4>9, <4>10 DEF SomeCounted
    <3> QED BY <3>1, <3>2
  <2> HIDE DEF b
  <2> QED BY <2>2, <2>9, <2>10 DEF CountInv
<1> QED BY <1>1, <1>2

LEMMA InitCounts ==
  ASSUME Init
  PROVE  CountInv
<1>1. \A e \in Event : tx[e].customer = 0 /\ tx[e].failures = 0
  BY DEF Init, NothingRead
<1>2. CASE NothingKnown
  <2>1. IsFiniteSet(processed)
    BY <1>2, FS_EmptySet DEF NothingKnown
  <2>2. ASSUME NEW b \in Buyer
        PROVE  /\ FailuresOf(b) = {} /\ DOMAIN customers[b] = {}
    BY <1>2 DEF NothingKnown, FailuresOf
  <2>3. ASSUME NEW b \in Buyer
        PROVE  (\E g \in [FailuresOf(b) -> DOMAIN customers[b]] : Accounts(b, g))
               /\ SomeCounted(b)
    <3>1. PICK g : g = [x \in FailuresOf(b) |-> 1]
      OBVIOUS
    <3>2. g \in [FailuresOf(b) -> DOMAIN customers[b]] /\ Accounts(b, g)
      BY <1>1, <2>2, <3>1 DEF Accounts
    <3> QED BY <2>2, <3>2 DEF SomeCounted
  <2> QED BY <2>1, <2>3 DEF CountInv
<1>3. CASE LinkSent
  <2>1. PICK e \in Event :
          /\ e.status = "failed" /\ processed = {e}
          /\ customers = [b \in Buyer |-> IF b = BuyerOf[e.payment] THEN <<1>> ELSE <<>>]
    BY <1>3 DEF LinkSent
  <2>3. IsFiniteSet(processed) /\ Cardinality({e}) = 1
    BY <2>1, FS_Singleton
  <2>4. ASSUME NEW b \in Buyer
        PROVE  (\E g \in [FailuresOf(b) -> DOMAIN customers[b]] : Accounts(b, g))
               /\ SomeCounted(b)
    <3>1. PICK g : g = [x \in FailuresOf(b) |-> 1]
      OBVIOUS
    <3>2. CASE b = BuyerOf[e.payment]
      <4>1. FailuresOf(b) = {e} /\ customers[b] = <<1>>
        BY <2>1, <3>2 DEF FailuresOf
      <4>2. DOMAIN customers[b] = {1} /\ customers[b][1] = 1
        BY <4>1
      <4>3. Counted(b, g, 1) = {e}
        BY <3>1, <4>1 DEF Counted
      <4>4. g \in [FailuresOf(b) -> DOMAIN customers[b]] /\ Accounts(b, g)
        BY <1>1, <2>3, <3>1, <4>1, <4>2, <4>3 DEF Accounts
      <4> QED BY <4>2, <4>4 DEF SomeCounted
    <3>3. CASE b # BuyerOf[e.payment]
      <4>1. FailuresOf(b) = {} /\ DOMAIN customers[b] = {}
        BY <2>1, <3>3 DEF FailuresOf
      <4>2. g \in [FailuresOf(b) -> DOMAIN customers[b]] /\ Accounts(b, g)
        BY <1>1, <3>1, <4>1 DEF Accounts
      <4> QED BY <4>1, <4>2 DEF SomeCounted
    <3> QED BY <3>2, <3>3
  <2> QED BY <2>3, <2>4 DEF CountInv
<1> QED BY <1>2, <1>3 DEF Init

----------------------------------------------------------------------------
(* What follows *)

\* Rows and runs of the pipeline keep their types, however many workers run it.
THEOREM PipelineTypeCorrect == Spec => []TypeOK
<1>1. RunInv => TypeOK
  BY DEF RunInv
<1> QED BY <1>1, RunInvHolds, PTL

\* Of the unique constraints on orders, payments and active cases a run violates
\* only that on orders, and only once per event, however often the audit chain
\* (whose refusals are counted and may use up the retries) turns it down.
THEOREM RowConflictsAreRare == Spec => []OnlyTheChainRefusesAgain
<1>1. RunInv => OnlyTheChainRefusesAgain
  <2> SUFFICES ASSUME RunInv, NEW e \in Event
      PROVE  conflicts[e] <= refusals[e] + 1
    BY DEF OnlyTheChainRefusesAgain
  <2>1. conflicts[e] \in Nat /\ refusals[e] \in Nat
    BY DEF RunInv, TypeOK
  <2>2. conflicts[e] <= refusals[e] \/ conflicts[e] = refusals[e] + 1
    BY DEF RunInv, ConflictOver
  <2> QED BY <2>1, <2>2
<1> QED BY <1>1, RunInvHolds, PTL

\* What a run read of its order, its payment and the order's case is still so
\* when it commits, although only the order is always locked.
THEOREM ReadsStayTrue == Spec => []ReadsHold
<1>1. RunInv => ReadsHold
  <2> SUFFICES ASSUME RunInv, NEW e \in Event
      PROVE  /\ Has(e, "noPayment") => paymentStatus[e.payment] = "ABSENT" /\ PaymentUnlocked(e)
             /\ Has(e, "noCase") => Whole!ActiveCases(OrderOf(e)) = {} /\ CaseUnlocked(e)
             /\ Has(e, "ready") =>
                  /\ tx[e].order = orderStatus[OrderOf(e)]
                  /\ tx[e].payment = paymentStatus[e.payment]
                  /\ IsFailure(e) \/ IsCapture(e) => tx[e].case = CasesFound(e)
    BY DEF ReadsHold
  <2>1. Current(e, pc[e], tx[e])
    BY DEF RunInv
  <2>2. pc[e] \in AfterOrder => PaymentUnlocked(e) /\ CaseUnlocked(e)
    BY PointsKnown DEF RunInv, OrderUnlocked, PaymentUnlocked, CaseUnlocked, OrderOf
  <2> QED BY <2>1, <2>2, PointsKnown DEF Has, Current, CasesToWrite
<1> QED BY <1>1, RunInvHolds, PTL

\* The pipeline is serialised by the order's row: whatever the workers interleave,
\* lose and repeat, the committed rows change by whole runs, one event at a time.
THEOREM RunsAreSerial == Spec => RunsAreAtomic
<1>1. RunInv /\ [Next]_vars => [\E e \in Event : Whole!ProcessEvent(e)]_rows
  <2> SUFFICES ASSUME RunInv, [Next]_vars
      PROVE  (\E e \in Event : Whole!ProcessEvent(e)) \/ UNCHANGED rows
    OBVIOUS
  <2>1. ASSUME NEW e \in Event, Commit(e)
        PROVE  Whole!ProcessEvent(e)
    BY <2>1, CommitIsWhole
  <2>2. ASSUME NEW e \in Event,
               \/ InsertOrder(e) \/ InsertPayment(e) \/ InsertCase(e)
               \/ AuditRefuses(e) \/ Fail(e)
        PROVE  UNCHANGED rows
    BY <2>2 DEF InsertOrder, InsertPayment, InsertCase, Insert, AuditRefuses, Fail
  <2>3. ASSUME NEW e \in Event,
               \/ FindCustomer(e) \/ FlushCustomer(e) \/ LockOrder(e) \/ LockPayment(e)
               \/ FindCaseOfFailure(e) \/ FindCaseOfCapture(e)
        PROVE  UNCHANGED rows
    BY <2>3 DEF FindCustomer, FlushCustomer, LockOrder, LockPayment, FindCaseOfFailure,
                FindCaseOfCapture
  <2>4. CASE UNCHANGED vars
    BY <2>4 DEF vars
  <2> QED BY <2>1, <2>2, <2>3, <2>4 DEF Next, Statement
<1> QED BY <1>1, RunInvHolds, PTL DEF Spec, RunsAreAtomic

\* OrderPaymentSyncService.sync_customer: lost increments and doubled rows never make
\* total_failure_count exceed the failures there were, and one at least is counted.
THEOREM FailuresAreReal == Spec => []FailuresNotInvented
<1>1. CountInv => FailuresNotInvented
  BY DEF CountInv, Accounts, Counted, SomeCounted, FailuresNotInvented
<1>2. RunInv /\ CountInv /\ [Next]_vars => CountInv'
  BY CountKept
<1> QED BY <1>1, <1>2, InitCounts, RunInvHolds, PTL DEF Spec

=============================================================================
