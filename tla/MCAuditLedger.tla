---------------------------- MODULE MCAuditLedger ----------------------------
(* Three transactions race for the chain: an execution records two events, a  *)
(* verification and a decision one each.                                      *)
EXTENDS AuditLedger, TLC

CONSTANTS execution, verification, decision

Writers == {execution, verification, decision}
EventsRecorded == [t \in Writers |-> IF t = execution THEN 2 ELSE 1]

TwoAlike == Permutations({verification, decision})
=============================================================================
