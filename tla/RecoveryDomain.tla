--------------------------- MODULE RecoveryDomain ---------------------------
(***************************************************************************)
(* The vocabulary of RazorFlow's pure domain package: the lifecycle enums  *)
(* and the two transition tables every service consults before it writes   *)
(* a status (packages/domain/enums.py, packages/domain/state_machine.py).  *)
(* It declares no constant and no variable.                                *)
(***************************************************************************)
EXTENDS Integers

----------------------------------------------------------------------------
(* RecoveryCase *)

TerminalStatuses == {"RECOVERED", "UNRECOVERABLE", "EXPIRED", "STOPPED"}

ActiveStatuses ==
  {"DETECTED", "ENRICHING", "DIAGNOSING", "STRATEGY_GENERATED",
   "POLICY_CHECK_PENDING", "APPROVED", "REJECTED", "ESCALATED", "EXECUTING",
   "WAITING_EXTERNAL", "VERIFYING"}

CaseStatuses == ActiveStatuses \union TerminalStatuses

\* The targets the case state machine allows from a status.
CaseTargets(s) ==
  CASE s = "DETECTED"             -> {"ENRICHING", "UNRECOVERABLE", "STOPPED"}
    [] s = "ENRICHING"            -> {"DIAGNOSING", "UNRECOVERABLE", "STOPPED"}
    [] s = "DIAGNOSING"           -> {"STRATEGY_GENERATED", "UNRECOVERABLE", "STOPPED"}
    [] s = "STRATEGY_GENERATED"   -> {"POLICY_CHECK_PENDING", "STOPPED"}
    [] s = "POLICY_CHECK_PENDING" -> {"APPROVED", "REJECTED", "ESCALATED"}
    [] s = "APPROVED"             -> {"EXECUTING", "WAITING_EXTERNAL", "STOPPED"}
    [] s = "REJECTED"             -> {"STOPPED", "UNRECOVERABLE"}
    [] s = "ESCALATED"            -> {"APPROVED", "STOPPED", "UNRECOVERABLE"}
    [] s = "EXECUTING"            -> {"WAITING_EXTERNAL", "VERIFYING",
                                      "UNRECOVERABLE", "STOPPED"}
    [] s = "WAITING_EXTERNAL"     -> {"VERIFYING", "DIAGNOSING", "EXPIRED", "STOPPED"}
    [] s = "VERIFYING"            -> {"RECOVERED", "DIAGNOSING",
                                      "UNRECOVERABLE", "STOPPED"}
    [] OTHER                      -> {}

CanTransition(from, to) == to \in CaseTargets(from)

----------------------------------------------------------------------------
(* RecoveryAttempt *)

AttemptStatuses ==
  {"DRAFT", "DISPATCHED", "ACKNOWLEDGED", "SUCCEEDED", "FAILED", "TIMED_OUT"}

AttemptTargetsUnacknowledged(s) ==
  CASE s = "DRAFT"      -> {"DISPATCHED", "FAILED"}
    [] s = "DISPATCHED" -> {"ACKNOWLEDGED", "SUCCEEDED", "FAILED", "TIMED_OUT"}
    [] OTHER            -> {"FAILED", "TIMED_OUT"}

AttemptTargets(s) ==
  CASE s = "DRAFT"        -> {"DISPATCHED", "FAILED"}
    [] s = "DISPATCHED"   -> {"ACKNOWLEDGED", "SUCCEEDED", "FAILED", "TIMED_OUT"}
    [] s = "ACKNOWLEDGED" -> {"SUCCEEDED", "FAILED", "TIMED_OUT"}
    [] OTHER              -> {}

AttemptCan(from, to) == to \in AttemptTargets(from)

----------------------------------------------------------------------------
(* Orders, payments, actions, verdicts and failure categories *)

OrderStatuses == {"ATTEMPTED", "PAID"}

PaymentStatuses == {"AUTHORIZED", "CAPTURED", "FAILED", "REFUNDED"}

Actions ==
  {"PAYMENT_LINK", "CUSTOMER_REMINDER", "WAIT_AND_REASSESS",
   "HUMAN_ESCALATION", "DO_NOTHING"}

Verdicts == {"APPROVED", "REJECTED", "ESCALATED", "MODIFIED"}

\* The seven failure categories, as far as eligibility tells them apart:
\* transient ones (time-outs, outages, drop-offs, lack of funds), a permanent
\* instrument decline, a fraud block, and an unclassified one.
Categories == {"TRANSIENT", "PERMANENT", "FRAUD", "UNKNOWN"}

=============================================================================
