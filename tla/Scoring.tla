------------------------------- MODULE Scoring -------------------------------
(***************************************************************************)
(* How the decision services choose what to propose: probability of        *)
(* recovery, expected value of every candidate, ranking                    *)
(* (packages/domain/scoring, the costs in packages/domain/strategies), on  *)
(* top of PolicyEngine's candidates and rules for a given policy.          *)
(*                                                                         *)
(* A policy p is a record: attempts (the maximum), cooldown (minutes),     *)
(* threshold (rupees), disallowed, and flags, the two switches no rule     *)
(* reads.  Facts f are a record: status, expired, count, limit (the        *)
(* case's own maximum), since (minutes since the last attempt), category,  *)
(* transient, link, amount (whole rupees, positive), wins and losses       *)
(* (payments of the customer), recoveries, vip.                            *)
(* Probabilities are in 1/10000, their rounding in the code; money is in   *)
(* paise.  The code multiplies floats: a value may differ by a paisa.      *)
(***************************************************************************)
EXTENDS RecoveryDomain

CONSTANT Unscored  \* in place of a score: no model is loaded, or it raised

FailureCategories ==
  {"USER_AUTHENTICATION_DROPOFF", "INSUFFICIENT_FUNDS", "BANK_SYSTEM_OUTAGE",
   "TECHNICAL_GATEWAY_TIMEOUT", "FRAUD_RISK_BLOCK",
   "PERMANENT_INSTRUMENT_DECLINE", "UNKNOWN"}

----------------------------------------------------------------------------
(* The facts as the candidates and the rules see them *)

EngineCategory(f) ==
  IF f.category = "FRAUD_RISK_BLOCK" THEN "FRAUD"
  ELSE IF f.category = "PERMANENT_INSTRUMENT_DECLINE" THEN "PERMANENT"
  ELSE IF f.transient \/ f.category \in {"BANK_SYSTEM_OUTAGE", "TECHNICAL_GATEWAY_TIMEOUT"}
    THEN "TRANSIENT"
  ELSE "UNKNOWN"

High(p, f) == f.amount >= p.threshold

Concierge(f) ==
  \/ f.count >= 1 /\ f.losses >= 3
  \/ f.vip /\ f.amount >= 10000
  \/ f.amount >= 20000

Cooling(p, f) == f.since < p.cooldown

EngineFacts(p, f) ==
  [status |-> f.status, expired |-> f.expired, count |-> f.count,
   cooling |-> Cooling(p, f), category |-> EngineCategory(f), link |-> f.link,
   high |-> High(p, f), concierge |-> Concierge(f)]

Engine(p, limit) == INSTANCE PolicyEngine WITH
  PolicyMaxAttempts <- p.attempts, CaseMaxAttempts <- limit, Disallowed <- p.disallowed

Proposable(p, f) == Engine(p, f.limit)!Candidates(EngineFacts(p, f))

----------------------------------------------------------------------------
(* Probability of recovery *)

Contacting == {"PAYMENT_LINK", "CUSTOMER_REMINDER"}

\* Per cent, before the customer's history is taken into account.
BaseProbability(a, category) ==
  CASE category = "USER_AUTHENTICATION_DROPOFF"  ->
         IF a \in Contacting THEN 65 ELSE IF a = "HUMAN_ESCALATION" THEN 70 ELSE 30
    [] category = "INSUFFICIENT_FUNDS"           ->
         IF a \in Contacting THEN 50 ELSE IF a = "WAIT_AND_REASSESS" THEN 40 ELSE 25
    [] category = "BANK_SYSTEM_OUTAGE"           ->
         IF a = "WAIT_AND_REASSESS" THEN 75 ELSE IF a = "PAYMENT_LINK" THEN 45 ELSE 20
    [] category = "TECHNICAL_GATEWAY_TIMEOUT"    ->
         IF a = "WAIT_AND_REASSESS" THEN 70 ELSE IF a = "PAYMENT_LINK" THEN 60 ELSE 30
    [] category = "PERMANENT_INSTRUMENT_DECLINE" ->
         IF a = "PAYMENT_LINK" THEN 20 ELSE IF a = "HUMAN_ESCALATION" THEN 35 ELSE 5
    [] OTHER                                     -> 35

History(f) ==
  100 + (CASE f.wins >= 3                   -> 15
           [] f.losses >= 3 /\ f.wins = 0   -> -20
           [] OTHER                         -> 0)
      + (IF f.recoveries > 0 THEN 10 ELSE 0)

Decay(f) == IF f.count < 4 THEN 100 - 25 * f.count ELSE 20

\* The heuristic; base and history never exceed certainty together.
Baseline(a, f) ==
  IF a = "DO_NOTHING" THEN IF f.transient THEN 500 ELSE 100
  ELSE IF f.category = "FRAUD_RISK_BLOCK" THEN 0
  ELSE (BaseProbability(a, f.category) * History(f) * Decay(f) + 50) \div 100

\* The model may answer anything; a case blocked for fraud it is never asked
\* about, and where it has no answer the heuristic has.
ScoreOfAnyCase(model, a, f) == IF model[a] = Unscored THEN Baseline(a, f) ELSE model[a]

Score(model, a, f) ==
  IF f.category = "FRAUD_RISK_BLOCK" THEN 0
  ELSE IF model[a] = Unscored THEN Baseline(a, f)
  ELSE model[a]

----------------------------------------------------------------------------
(* Expected recovery value *)

Cost(a) ==
  CASE a = "PAYMENT_LINK"      -> 200
    [] a = "CUSTOMER_REMINDER" -> 150
    [] a = "HUMAN_ESCALATION"  -> 10000
    [] OTHER                   -> 0

\* The penalty of an eligible action.
Risk(a, f) ==
  CASE a = "PAYMENT_LINK"      -> IF f.losses >= 5 /\ f.wins = 0 THEN 500 ELSE 50
    [] a = "CUSTOMER_REMINDER" -> 100
    [] OTHER                   -> 0

Gross(score, f) == (score * f.amount) \div 100

Valued(model, a, f) ==
  LET score == Score(model, a, f)
  IN  [action |-> a, score |-> score, erv |-> Gross(score, f) - Cost(a) - Risk(a, f)]

----------------------------------------------------------------------------
(* Ranking *)

TieOrder(a) ==
  CASE a = "PAYMENT_LINK"      -> 1
    [] a = "CUSTOMER_REMINDER" -> 2
    [] a = "WAIT_AND_REASSESS" -> 3
    [] a = "HUMAN_ESCALATION"  -> 4
    [] a = "DO_NOTHING"        -> 5

RanksByScore(x, y) == x.score > y.score \/ (x.score = y.score /\ x.erv > y.erv)
                      \/ (x.score = y.score /\ x.erv = y.erv
                            /\ TieOrder(x.action) < TieOrder(y.action))

RanksBefore(x, y) ==
  \/ x.erv > y.erv
  \/ x.erv = y.erv /\ x.score > y.score
  \/ /\ x.erv = y.erv /\ x.score = y.score
     /\ \/ Cost(x.action) < Cost(y.action)
        \/ Cost(x.action) = Cost(y.action) /\ TieOrder(x.action) < TieOrder(y.action)

Best(results) == CHOOSE x \in results : \A y \in results \ {x} : RanksBefore(x, y)

Ranked(model, p, f) == {Valued(model, a, f) : a \in Proposable(p, f)}

----------------------------------------------------------------------------
(* What the pipeline decides *)

\* Rule 8 takes the best ranked action that is neither disallowed nor proposed.
FallbackAction(p, proposed, ranked) ==
  LET open == {x \in ranked : x.action \notin p.disallowed \union {proposed}}
  IN  IF open = {} THEN "DO_NOTHING" ELSE Best(open).action

Services == {"DecisionService", "AIDecisionService"}

\* DecisionService proposes the best ranked candidate.  AIDecisionService proposes
\* whichever candidate its language model recommends, and the best ranked one when
\* that is switched off, fails or recommends anything else.
Proposals(service, model, p, f) ==
  IF service = "DecisionService"
    THEN {Best(Ranked(model, p, f)).action}
    ELSE Proposable(p, f)

\* Both services put their proposal to the same rules.
Decision(model, p, f, proposed) ==
  Engine(p, f.limit)!Evaluate(proposed, EngineFacts(p, f),
                              FallbackAction(p, proposed, Ranked(model, p, f)))

\* What the policy preview evaluates: a fresh case with an amount, a category
\* and a count, of a customer without a link, and nothing ranked.
PreviewFactsUncounted(p, f) ==
  [f EXCEPT !.status = "DIAGNOSING", !.expired = FALSE, !.limit = p.attempts,
            !.since = p.cooldown, !.link = FALSE, !.count = 0]

PreviewFacts(p, f) ==
  [f EXCEPT !.status = "DIAGNOSING", !.expired = FALSE, !.limit = p.attempts,
            !.since = p.cooldown, !.link = FALSE, !.wins = 4, !.losses = 1,
            !.recoveries = 4, !.vip = FALSE]

Preview(p, f, proposed) ==
  LET g == PreviewFacts(p, f)
  IN  Engine(p, g.limit)!Evaluate(proposed, EngineFacts(p, g), "DO_NOTHING")

=============================================================================
