---------------------------- MODULE PolicyEngine ----------------------------
(***************************************************************************)
(* Candidate generation and the deterministic policy rules, as pure        *)
(* operators over the facts they read (packages/domain/policy/engine.py,   *)
(* packages/domain/candidate_generator.py, packages/domain/strategies/).   *)
(*                                                                         *)
(* The facts are a record f:                                               *)
(*   status    status of the case when its snapshot was taken              *)
(*   expired   the recovery deadline has passed                            *)
(*   count     current_attempt_count of the case                           *)
(*   cooling   less than the policy's cooldown has passed since the last   *)
(*             attempt                                                     *)
(*   category  failure category                                            *)
(*   link      the context or the metadata names an active payment link    *)
(*   high      the amount at risk reaches the escalation threshold         *)
(*   concierge some other ground for an escalation holds (chronic          *)
(*             failures, a VIP, an amount of at least 20000 rupees)        *)
(***************************************************************************)
EXTENDS RecoveryDomain

CONSTANTS
  PolicyMaxAttempts,  \* max_allowed_attempts of the merchant's policy
  CaseMaxAttempts,    \* max_allowed_attempts stored on a new case
  Disallowed          \* disallowed_actions of the merchant's policy

ASSUME PolicyAssumption ==
  /\ PolicyMaxAttempts \in Nat
  /\ CaseMaxAttempts \in Nat
  /\ Disallowed \subseteq Actions

----------------------------------------------------------------------------
(* Candidates *)

ReminderPossibleUnlinked(f) == f.count < CaseMaxAttempts

ReminderPossible(f) == f.link /\ f.count < CaseMaxAttempts

LinkPossible(f) == f.count < CaseMaxAttempts /\ f.category # "FRAUD"

WaitPossible(f) ==
  /\ f.category \notin {"FRAUD", "PERMANENT"}
  /\ f.category = "TRANSIENT" \/ f.count < CaseMaxAttempts

EscalationPossible(f) == f.high \/ f.concierge

\* What the strategy of each action says.
Eligible(a, f) ==
  \/ a = "DO_NOTHING"
  \/ a = "PAYMENT_LINK" /\ LinkPossible(f)
  \/ a = "CUSTOMER_REMINDER" /\ ReminderPossible(f)
  \/ a = "WAIT_AND_REASSESS" /\ WaitPossible(f)
  \/ a = "HUMAN_ESCALATION" /\ EscalationPossible(f)

Candidates(f) ==
  LET open == {a \in Actions \ Disallowed : Eligible(a, f)}
  IN  IF open = {} THEN {"DO_NOTHING"} ELSE open

----------------------------------------------------------------------------
(* Policy *)

\* Rule 8 replaces a disallowed proposal by the best ranked other action.
\* The ranking compares floating-point model scores: any candidate may lead it.
Fallbacks(proposed, ranked) ==
  LET open == ranked \ (Disallowed \union {proposed})
  IN  IF open = {} THEN {"DO_NOTHING"} ELSE open

Ruling(verdict, action) == [verdict |-> verdict, action |-> action]

\* The rules in their order of precedence; the first that applies decides.
Evaluate(proposed, f, fallback) ==
  IF f.status \in TerminalStatuses
    THEN Ruling("REJECTED", "DO_NOTHING")
  ELSE IF f.expired
    THEN Ruling("MODIFIED", "DO_NOTHING")
  ELSE IF f.count >= PolicyMaxAttempts
    THEN Ruling("MODIFIED", "DO_NOTHING")
  ELSE IF f.cooling /\ proposed \notin {"WAIT_AND_REASSESS", "DO_NOTHING"}
    THEN Ruling("MODIFIED", "WAIT_AND_REASSESS")
  ELSE IF f.category = "FRAUD" /\ proposed # "DO_NOTHING"
    THEN Ruling("REJECTED", "DO_NOTHING")
  ELSE IF proposed = "CUSTOMER_REMINDER" /\ ~f.link
    THEN Ruling("MODIFIED", "PAYMENT_LINK")
  ELSE IF f.high /\ proposed # "HUMAN_ESCALATION"
    THEN Ruling("ESCALATED", "HUMAN_ESCALATION")
  ELSE IF proposed \in Disallowed
    THEN Ruling("MODIFIED", fallback)
  ELSE Ruling("APPROVED", proposed)

=============================================================================
