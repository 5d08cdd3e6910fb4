--------------------------- MODULE MCRecoveryCase ---------------------------
(* A small instance of RecoveryCase: one order, its payments and the events   *)
(* the gateway delivers for them, in any order and with any of them missing.  *)
EXTENDS RecoveryCase, TLC

CONSTANTS o1, p1, p2, c1, c2

OneOrder == {o1}
TwoPayments == {p1, p2}
TwoCases == {c1, c2}
SameOrder == [p \in TwoPayments |-> o1]
SameOrderCase == [c \in TwoCases |-> o1]

Failed(p, category) ==
  [kind |-> "payment.failed", status |-> "failed", payment |-> p,
   category |-> category]
Says(p, kind, status) ==
  [kind |-> kind, status |-> status, payment |-> p, category |-> "UNKNOWN"]

\* Two failures, and a capture that names the payment link it was made through.
CoreEvents ==
  {Failed(p1, "TRANSIENT"), Failed(p2, "PERMANENT"), Says(p2, "payment_link.paid", "captured")}

\* A failure, a fraud flag on a second failure.
FraudEvents == {Failed(p1, "TRANSIENT"), Failed(p2, "FRAUD")}

\* A late authorization: the first payment fails, then is captured after all.
LateEvents ==
  {Failed(p1, "UNKNOWN"), Failed(p2, "UNKNOWN"), Says(p2, "payment.captured", "captured"),
   Says(p2, "payment.authorized", "authorized")}

\* One failure, an authorization and two captures, one of which carries a payment
\* that is only authorized; the second payment is in another currency.
CurrencyEvents ==
  {Failed(p1, "TRANSIENT"), Says(p1, "payment.authorized", "authorized"),
   Says(p1, "order.paid", "authorized"), Says(p2, "payment.captured", "captured")}
SecondPayment == {p2}

OneFailure == {Failed(p1, "TRANSIENT")}

OneCase == {c1}
SameOrderOneCase == [c \in OneCase |-> o1]

None == {}

CaseSymmetry == Permutations(TwoCases)
=============================================================================
