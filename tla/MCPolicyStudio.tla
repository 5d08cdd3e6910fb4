---------------------------- MODULE MCPolicyStudio ----------------------------
(* A small instance of PolicyStudio: concurrent updates and readers of one     *)
(* merchant's policy, and evaluations over a grid of facts and model answers.  *)
EXTENDS PolicyStudio, TLC

CONSTANTS u1, u2, u3, r1, v1

ThreeUpdates == {u1, u2, u3}
OneReader == {r1}
OneEvaluation == {v1}
Company == {{u1, u2, u3}, {u1, r1}, {v1}}

\* One that forbids what is proposed most, one that forbids doing nothing and
\* escalates early, and the default ones with another limit and no cooldown.
PolicySet ==
  {[attempts |-> 2, cooldown |-> 30, threshold |-> 50000,
    disallowed |-> {"PAYMENT_LINK", "WAIT_AND_REASSESS"}, flags |-> TRUE],
   [attempts |-> 3, cooldown |-> 30, threshold |-> 20000,
    disallowed |-> {"DO_NOTHING", "HUMAN_ESCALATION"}, flags |-> TRUE],
   [attempts |-> 3, cooldown |-> 0, threshold |-> 50000,
    disallowed |-> {}, flags |-> FALSE]}

\* Amounts where a link costs more than it brings, where an escalation does,
\* and at each threshold.
FactSet ==
  [status : {"DIAGNOSING"}, expired : BOOLEAN, count : 0 .. 2, limit : {2, 3},
   since : {5}, category : FailureCategories, transient : {FALSE}, link : BOOLEAN,
   amount : {3, 500, 20000, 50000}, wins : {0}, losses : {1, 5},
   recoveries : {0, 1}, vip : {FALSE}]
  \union
  [status : {"DIAGNOSING"}, expired : {FALSE}, count : 0 .. 2, limit : {3},
   since : {5, 60}, category : FailureCategories, transient : BOOLEAN,
   link : BOOLEAN, amount : {3, 500, 10000, 50000}, wins : {0, 3},
   losses : {1, 3}, recoveries : {0}, vip : BOOLEAN]

PreviewSet ==
  [status : {"DIAGNOSING"}, expired : {FALSE}, count : {0, 2}, limit : {2},
   since : {60}, category : {"UNKNOWN", "FRAUD_RISK_BLOCK"}, transient : {FALSE},
   link : {FALSE}, amount : {500, 50000}, wins : {4}, losses : {1},
   recoveries : {4}, vip : {FALSE}]

\* No model; one that prefers a link, one a reminder, one doing nothing, one that
\* scores everything alike, and one that fails for two actions.
ModelSet ==
  {[a \in Actions |-> Unscored],
   [a \in Actions |-> IF a = "PAYMENT_LINK" THEN 9000 ELSE 2000],
   [a \in Actions |-> IF a = "CUSTOMER_REMINDER" THEN 7000 ELSE 1000],
   [a \in Actions |-> IF a = "DO_NOTHING" THEN 8000 ELSE 300],
   [a \in Actions |-> 4000],
   [a \in Actions |-> IF a \in {"PAYMENT_LINK", "HUMAN_ESCALATION"} THEN Unscored ELSE 5000]}
=============================================================================
