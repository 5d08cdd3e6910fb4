--------------------------- MODULE MCIngestionRace ---------------------------
(* A small instance of IngestionRace: two orders of one buyer.                *)
EXTENDS IngestionRace, TLC

CONSTANTS o1, o2, p1, p2, p3, c1, c2, c3, b1

TwoOrders == {o1, o2}
ThreePayments == {p1, p2, p3}
OrderOfPayment == [p \in ThreePayments |-> IF p = p3 THEN o2 ELSE o1]
ThreeCases == {c1, c2, c3}
OrderOfCase == [c \in ThreeCases |-> IF c = c3 THEN o2 ELSE o1]
OneBuyer == {b1}
SameBuyer == [p \in ThreePayments |-> b1]
None == {}

Says(p, kind, status, category) ==
  [kind |-> kind, status |-> status, payment |-> p, category |-> category]

FirstFailure  == Says(p1, "payment.failed", "failed", "TRANSIENT")
SecondFailure == Says(p2, "payment.failed", "failed", "PERMANENT")
OtherFailure  == Says(p3, "payment.failed", "failed", "UNKNOWN")
Authorization == Says(p2, "payment.authorized", "authorized", "UNKNOWN")
Captured      == Says(p2, "payment.captured", "captured", "UNKNOWN")
LinkPaid      == Says(p3, "payment_link.paid", "authorized", "UNKNOWN")

Events ==
  {FirstFailure, SecondFailure, OtherFailure, Authorization, Captured, LinkPaid}

\* Failures of one order and of another; a payment's events in any order beside
\* a failure of the same order; both events of the other order's payment.
Company ==
  {{FirstFailure, SecondFailure, OtherFailure},
   {FirstFailure, SecondFailure, Captured},
   {FirstFailure, Authorization, Captured},
   {OtherFailure, LinkPaid, SecondFailure}}
=============================================================================
