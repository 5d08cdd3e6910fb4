-------------------------- MODULE OrderPaymentSync --------------------------
(***************************************************************************)
(* What a webhook says (its event type and the status of the payment it    *)
(* carries) and what the sync service makes of the order row and of the    *)
(* payment row when it is processed                                        *)
(* (packages/orchestration/services/order_payment_sync_service.py).        *)
(*                                                                         *)
(* An event e is a record with at least the fields kind, the event type,   *)
(* and status, the status of the payment entity.  The parser reads the two *)
(* from different places of the payload and nothing compares them: any     *)
(* kind may come with any status.                                          *)
(***************************************************************************)
EXTENDS RecoveryDomain

\* The event types the pipeline tells apart; "refund.processed" stands for every
\* type it does not name.
EventKinds ==
  {"payment.failed", "payment.authorized", "payment.captured",
   "payment_link.paid", "order.paid", "refund.processed"}

\* A payload without a payment entity has the status "failed"; "other" is every
\* status the sync service does not know.
EntityStatuses == {"failed", "authorized", "captured", "refunded", "other"}

\* The branch of the pipeline that opens or updates a recovery case.
IsFailure(e) == e.kind = "payment.failed" \/ e.status = "failed"

\* The branch that verifies a recovery, unless the event is a failure.
IsCapture(e) ==
  /\ ~IsFailure(e)
  /\ \/ e.kind \in {"payment.captured", "payment_link.paid", "order.paid"}
     \/ e.status = "captured"

\* An order counts as paid on an authorization too; a payment_link.paid event
\* is not among the types that mark it paid.
MarksOrderPaid(e) ==
  /\ e.status \in {"captured", "authorized"}
  /\ e.kind \in {"payment.captured", "payment.authorized", "order.paid"}

\* A PAID order keeps its status whatever arrives later.
SyncedOrder(current, e) ==
  IF current = "PAID" \/ MarksOrderPaid(e) THEN "PAID" ELSE "ATTEMPTED"

MappedStatusRaw(e) == e.status

\* A status that is not known counts as a failure.
MappedStatus(e) ==
  CASE e.status = "captured"   -> "CAPTURED"
    [] e.status = "authorized" -> "AUTHORIZED"
    [] e.status = "refunded"   -> "REFUNDED"
    [] OTHER                   -> "FAILED"

\* Only the one step CAPTURED -> FAILED is refused.
SyncedPayment(current, e) ==
  IF current = "CAPTURED" /\ MappedStatus(e) = "FAILED"
    THEN "CAPTURED"
    ELSE MappedStatus(e)

SettledPaymentAsSynced(current, e) == SyncedPayment(current, e)

\* The payment of a capture for which a verifiable case is found is CAPTURED
\* before the case is verified, whatever status the event gave it.
SettledPayment(current, e) == "CAPTURED"

=============================================================================
