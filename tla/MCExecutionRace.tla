---------------------------- MODULE MCExecutionRace ----------------------------
(* A small instance of ExecutionRace: executions, simulated payments and a     *)
(* captured payment of another amount, all of one case.                        *)
EXTENDS ExecutionRace, TLC

CONSTANTS e1, e2, e3, s1, s2, w1

ThreeExecutions == {e1, e2, e3}
LiveWithoutPermission == {e3}
TwoSimulations == {s1, s2}
OneCapture == {w1}
FiveKeys == 1 .. 5
AmountOf == [v \in Verification |-> IF v \in Capture THEN 2 ELSE 1]

\* Two executions against a verification of either kind, two verifications of
\* either kind against an execution, and a call the safety mode blocks.
Company ==
  {{e1, e2, s1}, {e1, e2, w1}, {e1, s1, s2}, {e1, s1, w1}, {e1, e3}}

\* Two executions and a simulated payment.
RepeatedExecution == {{e1, e2, s1}}
=============================================================================
