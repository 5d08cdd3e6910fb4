----------------------- MODULE RecoveryAttempts_proofs -----------------------
(***************************************************************************)
(* What RecoveryCase promises of the attempts and outcomes of a case, for  *)
(* every merchant, set of orders, payments, events and cases, and every    *)
(* policy.  It rests on the effects of RecoveryCase_proofs: here they are  *)
(* refined to what they make of the rows of decisions and attempts.        *)
(***************************************************************************)
EXTENDS RecoveryCase_proofs

----------------------------------------------------------------------------
(* What an effect makes of the rows of a case *)

\* A case row that was not inserted yet has no attempt, decision or outcome.
NothingBeforeOpening ==
  \A c \in Case : cases[c].status = "ABSENT" =>
    attempts[c] = <<>> /\ decisions[c] = <<>> /\ outcomes[c].attempt = 0

\* No attempt is added; a waiting one may have succeeded.
AttemptsKept(c) ==
  /\ Len(attempts'[c]) = Len(attempts[c])
  /\ \A i \in 1 .. Len(attempts[c]) :
       /\ attempts'[c][i].number = attempts[c][i].number
       /\ attempts'[c][i].action = attempts[c][i].action
       /\ attempts'[c][i].link = attempts[c][i].link
       /\ attempts'[c][i].decision = attempts[c][i].decision
       /\ \/ attempts'[c][i].status = attempts[c][i].status
          \/ /\ AttemptCan(attempts[c][i].status, "SUCCEEDED")
             /\ attempts'[c][i].status = "SUCCEEDED"

\* One attempt is added, which carries out decision d with result r.
AttemptAdded(c, number, d, r) ==
  /\ Len(attempts'[c]) = Len(attempts[c]) + 1
  /\ \A i \in 1 .. Len(attempts[c]) : attempts'[c][i] = attempts[c][i]
  /\ attempts'[c][Len(attempts[c]) + 1] =
       [number |-> number, action |-> decisions[c][d].action,
        status |-> r.status, link |-> r.link, decision |-> d]

\* One decision is added, under the number of the next attempt.
DecisionAdded(c) ==
  /\ Len(decisions'[c]) = Len(decisions[c]) + 1
  /\ \A d \in 1 .. Len(decisions[c]) : decisions'[c][d] = decisions[c][d]
  /\ decisions'[c][Len(decisions[c]) + 1].number = cases[c].count + 1

\* The lists of rows are sequences.
LEMMA RowsAreSequences ==
  ASSUME TypeOK, NEW c \in Case
  PROVE  /\ attempts[c] \in Seq(Attempt)
         /\ Len(attempts[c]) \in Nat
         /\ DOMAIN attempts[c] = 1 .. Len(attempts[c])
         /\ \A i \in 1 .. Len(attempts[c]) : attempts[c][i] \in Attempt
         /\ decisions[c] \in Seq(Decision)
         /\ Len(decisions[c]) \in Nat
         /\ DOMAIN decisions[c] = 1 .. Len(decisions[c])
         /\ \A d \in 1 .. Len(decisions[c]) : decisions[c][d] \in Decision
         /\ cases[c] \in CaseRow
         /\ cases[c].count \in Nat
<1>1. attempts[c] \in Seq(Attempt) /\ decisions[c] \in Seq(Decision)
  BY DEF TypeOK
<1>2. cases[c] \in CaseRow /\ cases[c].count \in Nat
  BY DEF TypeOK, CaseRow
<1>3. /\ \A i \in 1 .. Len(attempts[c]) : attempts[c][i] \in Attempt
      /\ \A d \in 1 .. Len(decisions[c]) : decisions[c][d] \in Decision
  BY <1>1, ElementOfSeq
<1> QED BY <1>1, <1>2, <1>3, LenProperties

\* A verification adds no attempt, and credits one that it closes or that is
\* closed already.
LEMMA VerifyRows ==
  ASSUME TypeOK, NEW c \in Case, NEW s, NEW link \in Nat, Verify(c, s, link)
  PROVE  /\ AttemptsKept(c)
         /\ cases'[c].count = cases[c].count
         /\ outcomes'[c].payment = s
         /\ outcomes'[c].attempt \in 0 .. Len(attempts[c])
         /\ LET m == outcomes'[c].attempt
            IN  m > 0 => \/ attempts'[c][m].status = "SUCCEEDED"
                         \/ /\ attempts'[c][m] = attempts[c][m]
                            /\ ~AttemptCan(attempts[c][m].status, "SUCCEEDED")
<1> DEFINE m == MatchingAttempt(c, link)
<1>1. m \in 0 .. Len(attempts[c]) /\ Len(attempts[c]) \in Nat
  BY MatchingAttemptType, RowsAreSequences
<1>2. outcomes'[c] = [payment |-> s, attempt |-> m]
  BY DEF Verify, TypeOK
<1>3. cases'[c].count = cases[c].count
  BY VerifyStatus
<1>4. CASE m > 0 /\ AttemptCan(attempts[c][m].status, "SUCCEEDED")
  <2> DEFINE a == [attempts[c][m] EXCEPT !.status = "SUCCEEDED"]
  <2>1. m \in 1 .. Len(attempts[c]) /\ attempts[c] \in Seq(Attempt)
    BY <1>1, <1>4, RowsAreSequences
  <2>2. attempts[c][m] \in Attempt
    BY <2>1, RowsAreSequences
  <2>3. /\ a \in Attempt
        /\ a.status = "SUCCEEDED"
        /\ a.number = attempts[c][m].number
        /\ a.action = attempts[c][m].action
        /\ a.link = attempts[c][m].link
        /\ a.decision = attempts[c][m].decision
    BY <2>2 DEF Attempt, AttemptStatuses
  <2>4. attempts'[c] = [attempts[c] EXCEPT ![m] = a]
    BY <1>4 DEF Verify, TypeOK
  <2> HIDE DEF a, m
  <2>5. /\ Len(attempts'[c]) = Len(attempts[c])
        /\ \A i \in 1 .. Len(attempts[c]) :
             attempts'[c][i] = IF i = m THEN a ELSE attempts[c][i]
    BY <2>1, <2>3, <2>4, ExceptSeq
  <2>6. AttemptsKept(c)
    BY <1>4, <2>3, <2>5 DEF AttemptsKept
  <2> QED BY <1>1, <1>2, <1>3, <2>1, <2>3, <2>5, <2>6
<1>5. CASE ~(m > 0 /\ AttemptCan(attempts[c][m].status, "SUCCEEDED"))
  <2>1. attempts'[c] = attempts[c]
    BY <1>5 DEF Verify
  <2>2. AttemptsKept(c)
    BY <2>1 DEF AttemptsKept
  <2> HIDE DEF m
  <2> QED BY <1>1, <1>2, <1>3, <1>5, <2>1, <2>2
<1> QED BY <1>4, <1>5

\* The effects, as what they make of the rows of a case.
LEMMA RowsEffect ==
  ASSUME TypeOK, NEW c \in Case, Effect(c)
  PROVE  \/ /\ AttemptsKept(c)
            /\ \/ decisions'[c] = decisions[c]
               \/ DecisionAdded(c)
            /\ \/ cases'[c].count = cases[c].count
               \/ cases[c].status = "ABSENT" /\ cases'[c].count = 0
            /\ \/ outcomes'[c] = outcomes[c]
               \/ Settled(c)
         \/ /\ \E d \in 1 .. Len(decisions[c]), number \in Nat :
                 /\ \/ d \in LatestDecisions(c) /\ number = cases[c].count + 1
                    \/ number = decisions[c][d].number
                 /\ \E r \in ExecutorResults(c, decisions[c][d].action) :
                      AttemptAdded(c, number, d, r)
            /\ decisions'[c] = decisions[c]
            /\ cases'[c].count = cases[c].count + 1
            /\ outcomes'[c] = outcomes[c]
<1>1. cases[c] \in CaseRow
  BY RowsAreSequences
<1>2. attempts'[c] = attempts[c] => AttemptsKept(c)
  BY DEF AttemptsKept
<1>3. CASE Untouched(c)
  BY <1>1, <1>2, <1>3 DEF Untouched, CaseRow
<1>4. CASE Opened(c)
  BY <1>2, <1>4 DEF Opened, NoCase
<1>5. CASE Settled(c)
  BY <1>5, VerifyRows DEF Settled
<1>6. CASE Decided(c)
  <2>1. PICK r \in Rulings : RecordDecision(c, r)
    BY <1>6 DEF Decided
  <2> DEFINE dec == [number  |-> cases[c].count + 1, verdict |-> r.verdict,
                     action  |-> r.action]
  <2>2. dec \in Decision /\ dec.number = cases[c].count + 1
    BY RowsAreSequences DEF Decision, Rulings
  <2>3. decisions'[c] = Append(decisions[c], dec)
    BY <2>1 DEF RecordDecision, TypeOK
  <2> HIDE DEF dec
  <2>4. DecisionAdded(c)
    BY <2>2, <2>3, RowsAreSequences, AppendProperties DEF DecisionAdded
  <2>5. cases'[c].count = cases[c].count
    BY <2>1, DecisionStatus
  <2> QED BY <1>2, <1>6, <2>4, <2>5 DEF Decided
<1>7. CASE Attempted(c)
  <2>1. PICK d \in 1 .. Len(decisions[c]), number \in Nat :
          /\ \/ d \in LatestDecisions(c) /\ number = cases[c].count + 1
             \/ number = decisions[c][d].number
          /\ \E r \in ExecutorResults(c, decisions[c][d].action) :
               RecordAttempt(c, number, decisions[c][d].action, d, r)
    BY <1>7 DEF Attempted
  <2>2. PICK r \in ExecutorResults(c, decisions[c][d].action) :
          RecordAttempt(c, number, decisions[c][d].action, d, r)
    BY <2>1
  <2> DEFINE a == [number |-> number, action |-> decisions[c][d].action,
                   status |-> r.status, link |-> r.link, decision |-> d]
  <2>3. a \in Attempt
    <3>1. decisions[c][d].action \in Actions /\ d \in Nat
      BY RowsAreSequences DEF Decision
    <3>2. r \in ExecutorResult
      BY <2>2, ExecutorResultType
    <3> QED BY <3>1, <3>2 DEF Attempt, ExecutorResult, AttemptStatuses
  <2>4. attempts'[c] = Append(attempts[c], a)
    BY <2>2 DEF RecordAttempt, TypeOK
  <2>5. AttemptAdded(c, number, d, r)
    <3> HIDE DEF a
    <3>1. /\ Len(attempts'[c]) = Len(attempts[c]) + 1
          /\ \A i \in 1 .. Len(attempts[c]) : attempts'[c][i] = attempts[c][i]
          /\ attempts'[c][Len(attempts[c]) + 1] = a
      BY <2>3, <2>4, RowsAreSequences, AppendProperties
    <3> QED BY <3>1 DEF a, AttemptAdded
  <2>6. cases'[c].count = cases[c].count + 1
    BY <1>7, <2>2, AttemptStatus DEF Attempted
  <2> QED BY <1>7, <2>1, <2>5, <2>6 DEF Attempted
<1>8. CASE Reassessed(c)
  BY <1>1, <1>2, <1>8 DEF Reassessed, CaseRow
<1> QED BY <1>3, <1>4, <1>5, <1>6, <1>7, <1>8 DEF Effect

----------------------------------------------------------------------------
(* Numbers *)

\* A case row is inserted without attempts, and never removed.
LEMMA NothingBeforeInductive ==
  ASSUME TypeOK, NothingBeforeOpening, [Next]_vars
  PROVE  NothingBeforeOpening'
<1> SUFFICES ASSUME NEW c \in Case, cases'[c].status = "ABSENT"
             PROVE  /\ attempts'[c] = <<>> /\ decisions'[c] = <<>>
                    /\ outcomes'[c].attempt = 0
  BY DEF NothingBeforeOpening
<1>1. Effect(c) /\ cases[c] \in CaseRow
  BY StepEffect, RowsAreSequences
<1>2. cases[c].status = "ABSENT" /\ ~Settled(c) /\ ~Opened(c)
  <2>1. Settled(c) => cases[c].status # "ABSENT"
    BY DEF Settled, Exists
  <2>2. ~Opened(c)
    BY DEF Opened, NoCase
  <2> QED BY <1>1, <2>1, <2>2, StatusEffect DEF ActiveStatuses
<1>3. ~Decided(c) /\ ~Attempted(c) /\ ~Reassessed(c)
  BY <1>2, DecisionStatus DEF Decided, Attempted, Active, ActiveStatuses, Reassessed
<1>4. Untouched(c)
  BY <1>1, <1>2, <1>3 DEF Effect
<1> QED BY <1>2, <1>4 DEF Untouched, NothingBeforeOpening

\* A decision is numbered one beyond the attempts made so far, and an attempt
\* takes the number of a decision or the next one.
LEMMA BookkeepingInductive ==
  ASSUME TypeOK, NothingBeforeOpening, AttemptBookkeeping, [Next]_vars
  PROVE  AttemptBookkeeping'
<1> SUFFICES ASSUME NEW c \in Case
             PROVE  /\ cases'[c].count = Len(attempts'[c])
                    /\ \A i \in DOMAIN attempts'[c] : attempts'[c][i].number \in 1 .. i
                    /\ \A d \in DOMAIN decisions'[c] :
                         decisions'[c][d].number \in 1 .. cases'[c].count + 1
  BY DEF AttemptBookkeeping
<1> DEFINE n == Len(attempts[c])
           m == Len(decisions[c])
<1>1. Effect(c) /\ TypeOK'
  BY StepEffect, TypeInductive
<1>2. /\ n \in Nat /\ DOMAIN attempts[c] = 1 .. n
      /\ m \in Nat /\ DOMAIN decisions[c] = 1 .. m
  BY RowsAreSequences
<1>3. /\ DOMAIN attempts'[c] = 1 .. Len(attempts'[c])
      /\ DOMAIN decisions'[c] = 1 .. Len(decisions'[c])
  BY <1>1, LenProperties DEF TypeOK
<1>4. /\ cases[c].count = n
      /\ \A i \in 1 .. n : attempts[c][i].number \in 1 .. i
      /\ \A d \in 1 .. m : decisions[c][d].number \in 1 .. n + 1
  BY <1>2 DEF AttemptBookkeeping
<1>5. CASE /\ AttemptsKept(c)
           /\ decisions'[c] = decisions[c] \/ DecisionAdded(c)
           /\ \/ cases'[c].count = cases[c].count
              \/ cases[c].status = "ABSENT" /\ cases'[c].count = 0
  <2>1. cases'[c].count = n
    <3>1. cases[c].status = "ABSENT" => n = 0
      BY DEF NothingBeforeOpening
    <3> QED BY <1>4, <1>5, <3>1
  <2>2. Len(attempts'[c]) = n /\ \A i \in 1 .. n : attempts'[c][i].number \in 1 .. i
    BY <1>4, <1>5 DEF AttemptsKept
  <2>3. \A d \in 1 .. Len(decisions'[c]) : decisions'[c][d].number \in 1 .. n + 1
    <3>1. CASE decisions'[c] = decisions[c]
      BY <1>4, <3>1
    <3>2. CASE DecisionAdded(c)
      <4> SUFFICES ASSUME NEW d \in 1 .. m + 1
                   PROVE  decisions'[c][d].number \in 1 .. n + 1
        BY <3>2 DEF DecisionAdded
      <4>1. CASE d \in 1 .. m
        BY <1>4, <3>2, <4>1 DEF DecisionAdded
      <4>2. CASE d = m + 1
        BY <1>2, <1>4, <3>2, <4>2 DEF DecisionAdded
      <4> QED BY <1>2, <4>1, <4>2
    <3> QED BY <1>5, <3>1, <3>2
  <2> QED BY <1>3, <2>1, <2>2, <2>3
<1>6. ASSUME NEW d \in 1 .. m, NEW number \in Nat, NEW r,
             number = cases[c].count + 1 \/ number = decisions[c][d].number,
             AttemptAdded(c, number, d, r),
             decisions'[c] = decisions[c], cases'[c].count = cases[c].count + 1
      PROVE  /\ cases'[c].count = Len(attempts'[c])
             /\ \A i \in DOMAIN attempts'[c] : attempts'[c][i].number \in 1 .. i
             /\ \A k \in DOMAIN decisions'[c] :
                  decisions'[c][k].number \in 1 .. cases'[c].count + 1
  <2>1. Len(attempts'[c]) = n + 1 /\ cases'[c].count = n + 1
    BY <1>4, <1>6 DEF AttemptAdded
  <2>2. number \in 1 .. n + 1
    BY <1>2, <1>4, <1>6
  <2>3. \A i \in 1 .. n + 1 : attempts'[c][i].number \in 1 .. i
    <3> SUFFICES ASSUME NEW i \in 1 .. n + 1
                 PROVE  attempts'[c][i].number \in 1 .. i
      OBVIOUS
    <3>1. CASE i \in 1 .. n
      BY <1>4, <1>6, <3>1 DEF AttemptAdded
    <3>2. CASE i = n + 1
      BY <1>6, <2>2, <3>2 DEF AttemptAdded
    <3> QED BY <1>2, <3>1, <3>2
  <2>4. \A k \in 1 .. m : decisions'[c][k].number \in 1 .. n + 2
    BY <1>2, <1>4, <1>6
  <2>5. cases'[c].count + 1 = n + 2 /\ DOMAIN decisions'[c] = 1 .. m
    BY <1>2, <1>6, <2>1
  <2> HIDE DEF n, m
  <2> QED BY <1>3, <2>1, <2>3, <2>4, <2>5
<1>7. CASE \E d \in 1 .. m, number \in Nat :
             /\ number = cases[c].count + 1 \/ number = decisions[c][d].number
             /\ \E r : AttemptAdded(c, number, d, r)
             /\ decisions'[c] = decisions[c]
             /\ cases'[c].count = cases[c].count + 1
  BY <1>6, <1>7
<1>8. \/ /\ AttemptsKept(c)
         /\ decisions'[c] = decisions[c] \/ DecisionAdded(c)
         /\ \/ cases'[c].count = cases[c].count
            \/ cases[c].status = "ABSENT" /\ cases'[c].count = 0
      \/ \E d \in 1 .. m, number \in Nat :
           /\ number = cases[c].count + 1 \/ number = decisions[c][d].number
           /\ \E r : AttemptAdded(c, number, d, r)
           /\ decisions'[c] = decisions[c]
           /\ cases'[c].count = cases[c].count + 1
  BY <1>1, RowsEffect
<1> QED BY <1>5, <1>7, <1>8

\* No case has rows before it is opened.
THEOREM RowsNeedACase == Spec => []NothingBeforeOpening
<1>1. Init => NothingBeforeOpening
  BY DEF Init, NothingBeforeOpening, NoOutcome
<1>2. TypeOK /\ NothingBeforeOpening /\ [Next]_vars => NothingBeforeOpening'
  BY NothingBeforeInductive
<1> QED BY <1>1, <1>2, TypeCorrect, PTL DEF Spec

\* ActionOrchestrator: current_attempt_count is the number of attempts, and the
\* next attempt number is free, however late a command is executed.
THEOREM NumbersAreFree == Spec => []AttemptBookkeeping
<1>1. Init => AttemptBookkeeping
  <2> SUFFICES ASSUME Init, NEW c \in Case
               PROVE  /\ cases[c].count = Len(attempts[c])
                      /\ \A i \in DOMAIN attempts[c] : attempts[c][i].number \in 1 .. i
                      /\ \A d \in DOMAIN decisions[c] :
                           decisions[c][d].number \in 1 .. cases[c].count + 1
    BY DEF AttemptBookkeeping
  <2>1. attempts[c] = <<>> /\ decisions[c] = <<>> /\ cases[c].count = 0
    BY DEF Init, NoCase
  <2> QED BY <2>1
<1>2. TypeOK /\ NothingBeforeOpening /\ AttemptBookkeeping /\ [Next]_vars
        => AttemptBookkeeping'
  BY BookkeepingInductive
<1> QED BY <1>1, <1>2, TypeCorrect, RowsNeedACase, PTL DEF Spec

----------------------------------------------------------------------------
(* Decisions and the attempts that carry them out *)

Undecided == {"DIAGNOSING", "STRATEGY_GENERATED", "POLICY_CHECK_PENDING"}

\* The decisions ds of a case with count attempts stand in the order of their
\* numbers, and of two with one number the earlier is an escalation.  A decision
\* for the next attempt was taken after the case left Undecided; if the case waits
\* for a human it was to hand it over.
InOrder(ds, count, status) ==
  /\ \A j, k \in DOMAIN ds : j < k =>
       /\ ds[j].number <= ds[k].number
       /\ ds[j].number = ds[k].number => ds[j].action = "HUMAN_ESCALATION"
  /\ \A d \in DOMAIN ds : ds[d].number = count + 1 =>
       /\ status \notin Undecided
       /\ status = "ESCALATED" => ds[d].action = "HUMAN_ESCALATION"

DecisionsInOrder ==
  \A c \in Case : InOrder(decisions[c], cases[c].count, cases[c].status)

\* A decision is taken where none was taken for the next attempt yet, or on an
\* escalated case; it is escalated only by an escalation.
LEMMA DecidedOnce ==
  ASSUME TypeOK, NEW c \in Case, NEW r \in Rulings, RecordDecision(c, r)
  PROVE  /\ cases[c].status \in Undecided \union {"ESCALATED"}
         /\ cases'[c].status \notin Undecided
         /\ cases'[c].status = "ESCALATED" => r.action = "HUMAN_ESCALATION"
         /\ cases'[c].count = cases[c].count
<1> DEFINE s == cases[c].status
           t == VerdictTarget(r)
<1>1. t \in {"APPROVED", "REJECTED", "ESCALATED"}
  BY DEF VerdictTarget
<1>2. t = "ESCALATED" => r.action = "HUMAN_ESCALATION"
  BY DEF VerdictTarget, Rulings
<1>3. CanTransition(StatusBeforeVerdict(s), t)
  BY DEF RecordDecision
<1> HIDE DEF s, t
<1>4. s \in Undecided \union {"ESCALATED"}
  BY <1>1, <1>3 DEF CanTransition, CaseTargets, StatusBeforeVerdict, Undecided
<1>5. cases[c] \in CaseRow /\ cases'[c] = [cases[c] EXCEPT !.status = t]
  BY DEF RecordDecision, TypeOK, t
<1> QED BY <1>1, <1>2, <1>4, <1>5 DEF CaseRow, Undecided, s

\* The list of decisions grows by one that is numbered next.
LEMMA DecideInOrder ==
  ASSUME TypeOK, AttemptBookkeeping, DecisionsInOrder, NEW c \in Case, Decided(c)
  PROVE  InOrder(decisions'[c], cases'[c].count, cases'[c].status)
<1> DEFINE m == Len(decisions[c])
           n == cases[c].count
<1>1. PICK r \in Rulings : RecordDecision(c, r)
  BY DEF Decided
<1> DEFINE dec == [number |-> n + 1, verdict |-> r.verdict, action |-> r.action]
<1>2. dec \in Decision /\ dec.number = n + 1 /\ dec.action = r.action
  BY RowsAreSequences DEF Decision, Rulings
<1>3. decisions'[c] = Append(decisions[c], dec)
  BY <1>1 DEF RecordDecision, TypeOK
<1> HIDE DEF dec
<1>4. /\ Len(decisions'[c]) = m + 1
      /\ \A d \in 1 .. m : decisions'[c][d] = decisions[c][d]
      /\ decisions'[c][m + 1] = dec
  BY <1>2, <1>3, RowsAreSequences, AppendProperties
<1>5. /\ m \in Nat /\ DOMAIN decisions[c] = 1 .. m
      /\ n \in Nat /\ DOMAIN decisions'[c] = 1 .. m + 1
  BY <1>4, RowsAreSequences
<1>6. /\ cases[c].status \in Undecided \union {"ESCALATED"}
      /\ cases'[c].status \notin Undecided
      /\ cases'[c].status = "ESCALATED" => r.action = "HUMAN_ESCALATION"
      /\ cases'[c].count = n
  BY <1>1, DecidedOnce
<1>7. \A d \in 1 .. m : decisions[c][d].number \in 1 .. n + 1
  BY <1>5 DEF AttemptBookkeeping
<1>8. \A d \in 1 .. m : decisions[c][d].number = n + 1 =>
        /\ cases[c].status = "ESCALATED"
        /\ decisions[c][d].action = "HUMAN_ESCALATION"
  BY <1>5, <1>6 DEF DecisionsInOrder, InOrder
<1>9. \A j, k \in 1 .. m : j < k =>
        /\ decisions[c][j].number <= decisions[c][k].number
        /\ decisions[c][j].number = decisions[c][k].number
             => decisions[c][j].action = "HUMAN_ESCALATION"
  BY <1>5 DEF DecisionsInOrder, InOrder
<1>10. ASSUME NEW j \in 1 .. m + 1, NEW k \in 1 .. m + 1, j < k
       PROVE  /\ decisions'[c][j].number <= decisions'[c][k].number
              /\ decisions'[c][j].number = decisions'[c][k].number
                   => decisions'[c][j].action = "HUMAN_ESCALATION"
  <2>1. j \in 1 .. m
    BY <1>5, <1>10
  <2>2. CASE k \in 1 .. m
    BY <1>4, <1>9, <1>10, <2>1, <2>2
  <2>3. CASE k = m + 1
    <3>1. decisions'[c][k].number = n + 1
      BY <1>2, <1>4, <2>3
    <3>2. decisions'[c][j] = decisions[c][j]
      BY <1>4, <2>1
    <3>3. decisions[c][j].number \in 1 .. n + 1
      BY <1>7, <2>1
    <3>4. decisions[c][j].number = n + 1 => decisions[c][j].action = "HUMAN_ESCALATION"
      BY <1>8, <2>1
    <3> HIDE DEF n, m
    <3> QED BY <1>5, <3>1, <3>2, <3>3, <3>4
  <2> QED BY <1>5, <2>2, <2>3
<1>11. ASSUME NEW d \in 1 .. m + 1, decisions'[c][d].number = n + 1
       PROVE  /\ cases'[c].status \notin Undecided
              /\ cases'[c].status = "ESCALATED"
                   => decisions'[c][d].action = "HUMAN_ESCALATION"
  <2>1. CASE d \in 1 .. m
    BY <1>4, <1>6, <1>8, <1>11, <2>1
  <2>2. CASE d = m + 1
    BY <1>2, <1>4, <1>6, <2>2
  <2> QED BY <1>5, <2>1, <2>2
<1> HIDE DEF m, n
<1> QED BY <1>5, <1>6, <1>10, <1>11 DEF InOrder

\* Between two decisions of one number no attempt is made, and without an attempt
\* only an escalation is decided again.
LEMMA InOrderInductive ==
  ASSUME TypeOK, NothingBeforeOpening, AttemptBookkeeping, DecisionsInOrder,
         [Next]_vars
  PROVE  DecisionsInOrder'
<1> SUFFICES ASSUME NEW c \in Case
             PROVE  InOrder(decisions'[c], cases'[c].count, cases'[c].status)
  BY DEF DecisionsInOrder, InOrder
<1> DEFINE m == Len(decisions[c])
           n == cases[c].count
<1>1. Effect(c) /\ cases[c] \in CaseRow
  BY StepEffect, RowsAreSequences
<1>2. InOrder(decisions[c], n, cases[c].status)
  BY DEF DecisionsInOrder
<1>3. /\ n \in Nat /\ DOMAIN decisions[c] = 1 .. m
      /\ \A d \in 1 .. m : decisions[c][d].number \in 1 .. n + 1
  BY RowsAreSequences DEF AttemptBookkeeping
<1>4. CASE Untouched(c)
  <2>1. /\ cases'[c].count = n /\ cases'[c].status = cases[c].status
        /\ decisions'[c] = decisions[c]
    BY <1>1, <1>4 DEF Untouched, CaseRow
  <2> QED BY <1>2, <2>1
<1>5. CASE Opened(c)
  <2>1. decisions'[c] = <<>>
    BY <1>5 DEF Opened, NothingBeforeOpening
  <2> QED BY <2>1 DEF InOrder
<1>6. CASE Settled(c)
  <2>1. /\ cases'[c].count = n
        /\ \/ cases'[c].status = cases[c].status
           \/ cases'[c].status \in {"VERIFYING", "RECOVERED"}
    BY <1>6, VerifyStatus DEF Settled
  <2>2. decisions'[c] = decisions[c]
    BY <1>6 DEF Settled
  <2> QED BY <1>2, <2>1, <2>2 DEF InOrder, Undecided
<1>7. CASE Decided(c)
  BY <1>7, DecideInOrder
<1>8. CASE Attempted(c)
  <2>1. cases'[c].count = n + 1 /\ decisions'[c] = decisions[c]
    BY <1>8, AttemptStatus DEF Attempted
  <2>2. \A d \in 1 .. m : decisions[c][d].number # (n + 1) + 1
    <3> HIDE DEF n, m
    <3> QED BY <1>3
  <2>3. InOrder(decisions[c], n + 1, cases'[c].status)
    BY <1>2, <1>3, <2>2 DEF InOrder
  <2> QED BY <2>1, <2>3
<1>9. CASE Reassessed(c)
  <2>1. /\ cases'[c].count = n /\ cases'[c].status = "DETECTED"
        /\ decisions'[c] = decisions[c]
    BY <1>1, <1>9 DEF Reassessed, CaseRow
  <2> QED BY <1>2, <2>1 DEF InOrder, Undecided
<1> QED BY <1>1, <1>4, <1>5, <1>6, <1>7, <1>8, <1>9 DEF Effect

\* An attempt takes the number of its decision, or the next one if no decision has
\* a higher number: a decision that stands behind its own with no higher number
\* than the attempt's has the number of its own, which is then an escalation.
LEMMA SupersededInductive ==
  ASSUME TypeOK, AttemptBookkeeping, DecisionsInOrder, SupersededOnlyEscalates,
         [Next]_vars
  PROVE  SupersededOnlyEscalates'
<1> DEFINE Current(a, ds) ==
             /\ a.decision \in DOMAIN ds
             /\ a.action = ds[a.decision].action
             /\ \A k \in DOMAIN ds :
                  k > a.decision /\ ds[k].number <= a.number
                    => a.action = "HUMAN_ESCALATION"
<1> SUFFICES ASSUME NEW c \in Case, NEW i \in DOMAIN attempts'[c]
             PROVE  Current(attempts'[c][i], decisions'[c])
  BY DEF SupersededOnlyEscalates
<1> DEFINE n == Len(attempts[c])
           m == Len(decisions[c])
<1>1. Effect(c) /\ TypeOK'
  BY StepEffect, TypeInductive
<1>2. /\ n \in Nat /\ DOMAIN attempts[c] = 1 .. n
      /\ m \in Nat /\ DOMAIN decisions[c] = 1 .. m
      /\ \A d \in 1 .. m : decisions[c][d].number \in Nat
  BY RowsAreSequences DEF Decision
<1>3. /\ DOMAIN attempts'[c] = 1 .. Len(attempts'[c])
      /\ DOMAIN decisions'[c] = 1 .. Len(decisions'[c])
  BY <1>1, LenProperties DEF TypeOK
<1>4. \A j \in 1 .. n : /\ Current(attempts[c][j], decisions[c])
                        /\ attempts[c][j].number \in 1 .. n
  BY <1>2 DEF SupersededOnlyEscalates, AttemptBookkeeping
<1>5. cases[c].count = n
  BY DEF AttemptBookkeeping
<1>6. CASE /\ AttemptsKept(c)
           /\ decisions'[c] = decisions[c] \/ DecisionAdded(c)
  <2>1. /\ i \in 1 .. n
        /\ attempts'[c][i].number = attempts[c][i].number
        /\ attempts'[c][i].action = attempts[c][i].action
        /\ attempts'[c][i].decision = attempts[c][i].decision
    BY <1>3, <1>6 DEF AttemptsKept
  <2>2. Current(attempts[c][i], decisions[c]) /\ attempts[c][i].number \in 1 .. n
    BY <1>4, <2>1
  <2>3. CASE decisions'[c] = decisions[c]
    BY <2>1, <2>2, <2>3
  <2>4. CASE DecisionAdded(c)
    <3> DEFINE d == attempts[c][i].decision
    <3>1. /\ d \in 1 .. m
          /\ DOMAIN decisions'[c] = 1 .. m + 1
          /\ decisions'[c][d] = decisions[c][d]
          /\ decisions'[c][m + 1].number = n + 1
      BY <1>2, <1>3, <1>5, <2>2, <2>4 DEF DecisionAdded
    <3>2. ASSUME NEW k \in 1 .. m + 1, k > d,
                 decisions'[c][k].number <= attempts[c][i].number
          PROVE  attempts[c][i].action = "HUMAN_ESCALATION"
      <4>1. k # m + 1
        BY <1>2, <2>2, <3>1, <3>2
      <4>2. k \in 1 .. m
        BY <1>2, <4>1
      <4>3. decisions'[c][k] = decisions[c][k]
        BY <2>4, <4>2 DEF DecisionAdded
      <4> QED BY <1>2, <2>2, <3>2, <4>2, <4>3
    <3>3. /\ attempts'[c][i].decision \in DOMAIN decisions'[c]
          /\ attempts'[c][i].action = decisions'[c][d].action
      <4>1. 1 .. m \subseteq 1 .. m + 1
        BY <1>2
      <4> QED BY <2>1, <2>2, <3>1, <4>1
    <3> QED BY <2>1, <3>1, <3>2, <3>3
  <2> QED BY <1>6, <2>3, <2>4
<1>7. ASSUME NEW d \in 1 .. m, NEW number \in Nat, NEW r,
             d \in LatestDecisions(c) \/ number = decisions[c][d].number,
             AttemptAdded(c, number, d, r), decisions'[c] = decisions[c]
      PROVE  Current(attempts'[c][i], decisions'[c])
  <2>1. CASE i \in 1 .. n
    BY <1>4, <1>7, <2>1 DEF AttemptAdded
  <2>2. CASE i = n + 1
    <3>1. /\ attempts'[c][i].decision = d
          /\ attempts'[c][i].number = number
          /\ attempts'[c][i].action = decisions[c][d].action
      BY <1>7, <2>2 DEF AttemptAdded
    <3>2. ASSUME NEW k \in 1 .. m, k > d, decisions[c][k].number <= number
          PROVE  decisions[c][d].action = "HUMAN_ESCALATION"
      <4>1. decisions[c][k].number <= decisions[c][d].number
        BY <1>2, <1>7, <3>2 DEF LatestDecisions
      <4>2. /\ decisions[c][d].number <= decisions[c][k].number
            /\ decisions[c][d].number = decisions[c][k].number
                 => decisions[c][d].action = "HUMAN_ESCALATION"
        BY <1>2, <3>2 DEF DecisionsInOrder, InOrder
      <4> QED BY <1>2, <4>1, <4>2
    <3> QED BY <1>2, <1>7, <3>1, <3>2
  <2> QED BY <1>2, <1>3, <1>7, <2>1, <2>2 DEF AttemptAdded
<1>8. \/ AttemptsKept(c) /\ (decisions'[c] = decisions[c] \/ DecisionAdded(c))
      \/ \E d \in 1 .. m, number \in Nat :
           /\ d \in LatestDecisions(c) \/ number = decisions[c][d].number
           /\ \E r : AttemptAdded(c, number, d, r)
           /\ decisions'[c] = decisions[c]
  BY <1>1, RowsEffect
<1> QED BY <1>6, <1>7, <1>8

\* A case is decided again for the same attempt only while it waits for a human.
THEOREM DecidedInOrder == Spec => []DecisionsInOrder
<1>1. Init => DecisionsInOrder
  BY DEF Init, DecisionsInOrder, InOrder
<1>2. /\ TypeOK /\ NothingBeforeOpening /\ AttemptBookkeeping /\ DecisionsInOrder
      /\ [Next]_vars
      => DecisionsInOrder'
  BY InOrderInductive
<1> QED BY <1>1, <1>2, TypeCorrect, RowsNeedACase, NumbersAreFree, PTL DEF Spec

\* Every attempt carries out a decision of its own case, and one that a later
\* decision had superseded for the attempt's number only hands the case to a
\* human: two decisions of one number are an escalation and what followed it.
THEOREM SupersededHandsOver == Spec => []SupersededOnlyEscalates
<1>1. Init => SupersededOnlyEscalates
  BY DEF Init, SupersededOnlyEscalates
<1>2. /\ TypeOK /\ AttemptBookkeeping /\ DecisionsInOrder /\ SupersededOnlyEscalates
      /\ [Next]_vars
      => SupersededOnlyEscalates'
  BY SupersededInductive
<1> QED BY <1>1, <1>2, TypeCorrect, NumbersAreFree, DecidedInOrder, PTL DEF Spec

----------------------------------------------------------------------------
(* Attempts, their links and the outcome credited to one of them *)

\* No committed attempt is a draft or being dispatched, and a payment link attempt
\* either failed without a link or refers to the link it created itself.
AttemptShape(a, i) ==
  /\ a.status \in {"ACKNOWLEDGED", "SUCCEEDED", "FAILED"}
  /\ a.action = "PAYMENT_LINK" /\ a.link > 0 => a.link = i /\ a.status # "FAILED"

AttemptsInShape ==
  \A c \in Case : \A i \in DOMAIN attempts[c] : AttemptShape(attempts[c][i], i)

\* The executors report attempts of that shape.
LEMMA ResultShape ==
  ASSUME TypeOK, NEW c \in Case, NEW action, NEW r \in ExecutorResults(c, action)
  PROVE  /\ r.status \in {"ACKNOWLEDGED", "SUCCEEDED", "FAILED"}
         /\ action = "PAYMENT_LINK" /\ r.link > 0 =>
              r.link = Len(attempts[c]) + 1 /\ r.status # "FAILED"
<1>1. r.status \in {"ACKNOWLEDGED", "SUCCEEDED", "FAILED"}
  BY ExecutorResultType DEF ExecutorResult
<1>2. ASSUME action = "PAYMENT_LINK", r.link > 0
      PROVE  r.link = Len(attempts[c]) + 1 /\ r.status # "FAILED"
  BY <1>2 DEF ExecutorResults, PaymentLinkResults, Result
<1> QED BY <1>1, <1>2

\* Results keep their shape when an attempt succeeds later.
LEMMA ShapeInductive ==
  ASSUME TypeOK, AttemptsInShape, [Next]_vars
  PROVE  AttemptsInShape'
<1> SUFFICES ASSUME NEW c \in Case, NEW i \in DOMAIN attempts'[c]
             PROVE  AttemptShape(attempts'[c][i], i)
  BY DEF AttemptsInShape
<1> DEFINE n == Len(attempts[c])
<1>1. Effect(c) /\ TypeOK'
  BY StepEffect, TypeInductive
<1>2. n \in Nat /\ DOMAIN attempts[c] = 1 .. n /\ i \in 1 .. Len(attempts'[c])
  BY <1>1, RowsAreSequences, LenProperties DEF TypeOK
<1>3. \A j \in 1 .. n : AttemptShape(attempts[c][j], j)
  BY <1>2 DEF AttemptsInShape
<1>4. CASE AttemptsKept(c)
  BY <1>2, <1>3, <1>4 DEF AttemptsKept, AttemptShape
<1>5. ASSUME NEW number, NEW d, NEW r \in ExecutorResults(c, decisions[c][d].action),
             AttemptAdded(c, number, d, r)
      PROVE  AttemptShape(attempts'[c][i], i)
  <2>1. CASE i \in 1 .. n
    BY <1>3, <1>5, <2>1 DEF AttemptAdded
  <2>2. CASE i = n + 1
    <3>1. /\ attempts'[c][i].action = decisions[c][d].action
          /\ attempts'[c][i].status = r.status
          /\ attempts'[c][i].link = r.link
      BY <1>5, <2>2 DEF AttemptAdded
    <3>2. /\ r.status \in {"ACKNOWLEDGED", "SUCCEEDED", "FAILED"}
          /\ decisions[c][d].action = "PAYMENT_LINK" /\ r.link > 0 =>
               r.link = n + 1 /\ r.status # "FAILED"
      BY ResultShape
    <3> QED BY <2>2, <3>1, <3>2 DEF AttemptShape
  <2> QED BY <1>2, <1>5, <2>1, <2>2 DEF AttemptAdded
<1>6. \/ AttemptsKept(c)
      \/ \E d \in 1 .. Len(decisions[c]), number \in Nat :
           \E r \in ExecutorResults(c, decisions[c][d].action) :
             AttemptAdded(c, number, d, r)
  BY <1>1, RowsEffect
<1> QED BY <1>4, <1>5, <1>6

\* An executed action leaves an attempt with a result, and only a gateway that
\* accepted a payment link gives the attempt a link of its own.
THEOREM AttemptsHaveResults == Spec => []AttemptsInShape
<1>1. Init => AttemptsInShape
  BY DEF Init, AttemptsInShape
<1>2. TypeOK /\ AttemptsInShape /\ [Next]_vars => AttemptsInShape'
  BY ShapeInductive
<1> QED BY <1>1, <1>2, TypeCorrect, PTL DEF Spec

\* A reminder is sent for the latest open link, which the shape of payment link
\* attempts makes an attempt of its own position.
LEMMA ReminderLink ==
  ASSUME TypeOK, AttemptsInShape, NEW c \in Case,
         NEW r \in ExecutorResults(c, "CUSTOMER_REMINDER"), r.status # "FAILED"
  PROVE  /\ r.link \in 1 .. Len(attempts[c])
         /\ attempts[c][r.link].action = "PAYMENT_LINK"
         /\ attempts[c][r.link].link = r.link
         /\ attempts[c][r.link].status \in {"ACKNOWLEDGED", "SUCCEEDED"}
<1> DEFINE open == OpenLinks(c)
           last == Latest(open)
<1>1. r \in ReminderResults(c)
  BY DEF ExecutorResults
<1>2. open # {}
  BY <1>1 DEF ReminderResults, Result
<1>3. r.link = attempts[c][last].link
  BY <1>1, <1>2 DEF ReminderResults, Result
<1>4. last \in open /\ open \subseteq 1 .. Len(attempts[c])
  BY <1>2, RowsAreSequences, LatestIsGreatest DEF OpenLinks
<1>5. AttemptShape(attempts[c][last], last)
  BY <1>4, RowsAreSequences DEF AttemptsInShape
<1> HIDE DEF last
<1>6. /\ attempts[c][last].action = "PAYMENT_LINK"
      /\ attempts[c][last].link > 0
      /\ attempts[c][last].status \in {"ACKNOWLEDGED", "SUCCEEDED"}
  BY <1>4 DEF OpenLinks
<1> QED BY <1>3, <1>4, <1>5, <1>6 DEF AttemptShape

\* The link of a reminder is an earlier attempt, and stays accepted.
LEMMA RemindersInductive ==
  ASSUME TypeOK, AttemptsInShape, RemindersFollowLinks, [Next]_vars
  PROVE  RemindersFollowLinks'
<1> DEFINE Follows(as, i) ==
             as[i].action = "CUSTOMER_REMINDER" /\ as[i].status # "FAILED" =>
               /\ as[i].link \in 1 .. i - 1
               /\ as[as[i].link].action = "PAYMENT_LINK"
               /\ as[as[i].link].link = as[i].link
               /\ as[as[i].link].status \in {"ACKNOWLEDGED", "SUCCEEDED"}
<1> SUFFICES ASSUME NEW c \in Case, NEW i \in DOMAIN attempts'[c]
             PROVE  Follows(attempts'[c], i)
  BY DEF RemindersFollowLinks
<1> DEFINE n == Len(attempts[c])
<1>1. Effect(c) /\ TypeOK'
  BY StepEffect, TypeInductive
<1>2. n \in Nat /\ DOMAIN attempts[c] = 1 .. n /\ i \in 1 .. Len(attempts'[c])
  BY <1>1, RowsAreSequences, LenProperties DEF TypeOK
<1>3. \A j \in 1 .. n : Follows(attempts[c], j)
  BY <1>2 DEF RemindersFollowLinks
<1>4. CASE AttemptsKept(c)
  <2>1. i \in 1 .. n
    BY <1>2, <1>4 DEF AttemptsKept
  <2>2. \A j \in 1 .. n :
          /\ attempts'[c][j].action = attempts[c][j].action
          /\ attempts'[c][j].link = attempts[c][j].link
          /\ attempts'[c][j].status # "FAILED" => attempts[c][j].status # "FAILED"
          /\ attempts[c][j].status \in {"ACKNOWLEDGED", "SUCCEEDED"}
               => attempts'[c][j].status \in {"ACKNOWLEDGED", "SUCCEEDED"}
    BY <1>4 DEF AttemptsKept, AttemptCan, AttemptTargets
  <2>3. Follows(attempts[c], i)
    BY <1>3, <2>1
  <2>4. 1 .. i - 1 \subseteq 1 .. n
    BY <1>2, <2>1
  <2> QED BY <2>1, <2>2, <2>3, <2>4
<1>5. ASSUME NEW number, NEW d, NEW r \in ExecutorResults(c, decisions[c][d].action),
             AttemptAdded(c, number, d, r)
      PROVE  Follows(attempts'[c], i)
  <2>1. \A j \in 1 .. n : attempts'[c][j] = attempts[c][j]
    BY <1>5 DEF AttemptAdded
  <2>2. CASE i \in 1 .. n
    <3>1. 1 .. i - 1 \subseteq 1 .. n
      BY <1>2, <2>2
    <3> QED BY <1>3, <2>1, <2>2, <3>1
  <2>3. CASE i = n + 1
    <3>1. /\ attempts'[c][i].action = decisions[c][d].action
          /\ attempts'[c][i].status = r.status
          /\ attempts'[c][i].link = r.link
      BY <1>5, <2>3 DEF AttemptAdded
    <3>2. i - 1 = n
      BY <1>2, <2>3
    <3>3. decisions[c][d].action = "CUSTOMER_REMINDER" /\ r.status # "FAILED" =>
            /\ r.link \in 1 .. n
            /\ attempts[c][r.link].action = "PAYMENT_LINK"
            /\ attempts[c][r.link].link = r.link
            /\ attempts[c][r.link].status \in {"ACKNOWLEDGED", "SUCCEEDED"}
      BY ReminderLink
    <3> QED BY <2>1, <3>1, <3>2, <3>3
  <2> QED BY <1>2, <1>5, <2>2, <2>3 DEF AttemptAdded
<1>6. \/ AttemptsKept(c)
      \/ \E d \in 1 .. Len(decisions[c]), number \in Nat :
           \E r \in ExecutorResults(c, decisions[c][d].action) :
             AttemptAdded(c, number, d, r)
  BY <1>1, RowsEffect
<1> QED BY <1>4, <1>5, <1>6

\* CustomerReminderExecutor: a reminder that went out names a payment link of the
\* same case that was created before it and that the gateway accepted.
THEOREM RemindersHaveLinks == Spec => []RemindersFollowLinks
<1>1. Init => RemindersFollowLinks
  BY DEF Init, RemindersFollowLinks
<1>2. TypeOK /\ AttemptsInShape /\ RemindersFollowLinks /\ [Next]_vars
        => RemindersFollowLinks'
  BY RemindersInductive
<1> QED BY <1>1, <1>2, TypeCorrect, AttemptsHaveResults, PTL DEF Spec

\* A settlement credits an attempt that it closes or that is closed already, and
\* no step reopens one.
LEMMA CreditedInductive ==
  ASSUME TypeOK, AttemptsInShape, CreditedAttemptClosed, [Next]_vars
  PROVE  CreditedAttemptClosed'
<1> DEFINE Closed(as, k) ==
             k > 0 => k \in DOMAIN as /\ as[k].status \in {"SUCCEEDED", "FAILED"}
<1> SUFFICES ASSUME NEW c \in Case
             PROVE  Closed(attempts'[c], outcomes'[c].attempt)
  BY DEF CreditedAttemptClosed
<1> DEFINE n == Len(attempts[c])
           k == outcomes[c].attempt
<1>1. Effect(c) /\ TypeOK'
  BY StepEffect, TypeInductive
<1>2. /\ n \in Nat /\ DOMAIN attempts[c] = 1 .. n
      /\ DOMAIN attempts'[c] = 1 .. Len(attempts'[c])
  BY <1>1, RowsAreSequences, LenProperties DEF TypeOK
<1>3. Closed(attempts[c], k)
  BY DEF CreditedAttemptClosed
<1>4. CASE AttemptsKept(c) /\ outcomes'[c] = outcomes[c]
  <2>1. \A j \in 1 .. n : attempts[c][j].status \in {"SUCCEEDED", "FAILED"}
          => attempts'[c][j].status \in {"SUCCEEDED", "FAILED"}
    BY <1>4 DEF AttemptsKept
  <2>2. DOMAIN attempts'[c] = 1 .. n
    BY <1>2, <1>4 DEF AttemptsKept
  <2> QED BY <1>2, <1>3, <1>4, <2>1, <2>2
<1>5. CASE Settled(c)
  <2> DEFINE m == outcomes'[c].attempt
  <2>1. /\ AttemptsKept(c)
        /\ m \in 0 .. n
        /\ m > 0 => \/ attempts'[c][m].status = "SUCCEEDED"
                   \/ /\ attempts'[c][m] = attempts[c][m]
                      /\ ~AttemptCan(attempts[c][m].status, "SUCCEEDED")
    BY <1>5, VerifyRows DEF Settled
  <2>2. DOMAIN attempts'[c] = 1 .. n
    BY <1>2, <2>1 DEF AttemptsKept
  <2>3. \A j \in 1 .. n : attempts[c][j].status \in {"ACKNOWLEDGED", "SUCCEEDED", "FAILED"}
    BY <1>2 DEF AttemptsInShape, AttemptShape
  <2>4. AttemptCan("ACKNOWLEDGED", "SUCCEEDED")
    BY DEF AttemptCan, AttemptTargets
  <2> HIDE DEF m
  <2>5. m > 0 => m \in 1 .. n
    BY <1>2, <2>1
  <2> QED BY <2>1, <2>2, <2>3, <2>4, <2>5 DEF m
<1>6. ASSUME NEW number, NEW d, NEW r, AttemptAdded(c, number, d, r),
             outcomes'[c] = outcomes[c]
      PROVE  Closed(attempts'[c], outcomes'[c].attempt)
  <2>1. 1 .. n \subseteq 1 .. n + 1
    BY <1>2
  <2> QED BY <1>2, <1>3, <1>6, <2>1 DEF AttemptAdded
<1>7. \/ AttemptsKept(c) /\ (outcomes'[c] = outcomes[c] \/ Settled(c))
      \/ /\ \E number, d, r : AttemptAdded(c, number, d, r)
         /\ outcomes'[c] = outcomes[c]
  BY <1>1, RowsEffect
<1> QED BY <1>4, <1>5, <1>6, <1>7

\* VerificationService: whatever attempt an outcome is credited to, no result is
\* awaited of it any more.
THEOREM CreditedIsClosed == Spec => []CreditedAttemptClosed
<1>1. Init => CreditedAttemptClosed
  BY DEF Init, CreditedAttemptClosed, NoOutcome
<1>2. TypeOK /\ AttemptsInShape /\ CreditedAttemptClosed /\ [Next]_vars
        => CreditedAttemptClosed'
  BY CreditedInductive
<1> QED BY <1>1, <1>2, TypeCorrect, AttemptsHaveResults, PTL DEF Spec

----------------------------------------------------------------------------
(* Settlement by a gateway payment *)

\* A verification writes the outcome of its own case only, and only with a
\* captured payment.
LEMMA VerifyOutcome ==
  ASSUME TypeOK, NEW k \in Case, NEW s, NEW status, NEW foreign, NEW link,
         VerifyOrSkip(k, s, status, foreign, link),
         NEW c \in Case, outcomes'[c] # outcomes[c]
  PROVE  outcomes'[c].payment = s /\ status = "CAPTURED"
BY DEF VerifyOrSkip, SettlementAllowed, Verify, TypeOK

\* A verification that is allowed names the payment in the outcome of its case.
LEMMA VerifyNames ==
  ASSUME TypeOK, NEW k \in Case, NEW s, NEW status, NEW foreign, NEW link,
         VerifyOrSkip(k, s, status, foreign, link),
         SettlementAllowed(k, status, foreign)
  PROVE  outcomes'[k].payment = s
BY DEF VerifyOrSkip, Verify, TypeOK

\* The only action that names a gateway payment in an outcome is the one that
\* stores the capture the event reports.
LEMMA CaptureStep ==
  ASSUME TypeOK, Next, NEW c \in Case,
         outcomes'[c] # outcomes[c], outcomes'[c].payment \in Payment
  PROVE  paymentStatus'[outcomes'[c].payment] = "CAPTURED"
<1>1. ASSUME NEW e \in Event, CaptureForCase(e)
      PROVE  paymentStatus'[outcomes'[c].payment] = "CAPTURED"
  <2> DEFINE status == SettledPayment(paymentStatus[e.payment], e)
  <2>1. PICK k \in Verifiable(PayOrder[e.payment]) :
          \E link \in LinksNamed(e, k) :
            VerifyOrSkip(k, e.payment, status, e.payment \in Foreign, link)
    BY <1>1 DEF CaptureForCase
  <2>2. k \in Case
    BY DEF Verifiable, ActiveCases
  <2>3. outcomes'[c].payment = e.payment /\ status = "CAPTURED"
    BY <2>1, <2>2, VerifyOutcome
  <2>4. e.payment \in Payment
    BY CaseAssumption DEF RawEvent
  <2>5. SyncWith(e, status)
    BY <1>1 DEF CaptureForCase
  <2> HIDE DEF status
  <2> QED BY <2>3, <2>4, <2>5 DEF SyncWith, TypeOK
<1>2. ASSUME NEW k \in Case, Poll(k) \/ SimulatePayment(k)
      PROVE  FALSE
  <2>1. outcomes'[c].payment = Synthetic
    BY <1>2, VerifyOutcome DEF Poll, SimulatePayment
  <2> QED BY <2>1, CaseAssumption
<1>3. ASSUME NEW e \in Event, AppendFailure(e) \/ OpenCase(e) \/ SyncOnly(e)
      PROVE  FALSE
  BY <1>3 DEF AppendFailure, OpenCase, SyncOnly
<1>4. ASSUME NEW k \in Case, Decide(k) \/ DeadlinePasses(k) \/ CooldownEnds(k)
      PROVE  FALSE
  BY <1>4 DEF Decide, DeadlinePasses, CooldownEnds
<1>5. ASSUME NEW k \in Case, ExecuteLatest(k) \/ ExecuteCommand(k)
      PROVE  FALSE
  BY <1>5 DEF ExecuteLatest, ExecuteCommand, Dispatch
<1>6. ASSUME NEW due \in SUBSET Case, Reassess(due)
      PROVE  FALSE
  BY <1>6 DEF Reassess
<1> QED BY <1>1, <1>2, <1>3, <1>4, <1>5, <1>6 DEF Next, ProcessEvent, CaseStep

\* The event of a capture is processed by the one action that verifies, unless no
\* case awaits a payment; there is only one such case, and nothing but another
\* currency makes the verification skip it.
LEMMA CaptureSettles ==
  ASSUME TypeOK, OneActiveCasePerOrder, Next,
         NEW e \in processed' \ processed, IsCapture(e),
         NEW c \in Verifiable(PayOrder[e.payment]),
         cases[c].foreign = (e.payment \in Foreign)
  PROVE  outcomes'[c].payment = e.payment
<1> DEFINE status == SettledPayment(paymentStatus[e.payment], e)
<1>1. PICK x \in Event : ProcessEvent(x)
  <2>1. ASSUME NEW k \in Case, CaseStep(k)
        PROVE  UNCHANGED processed
    BY <2>1 DEF CaseStep, Decide, ExecuteLatest, ExecuteCommand, Dispatch, Poll,
                SimulatePayment, DeadlinePasses, CooldownEnds, orderVars
  <2>2. ASSUME NEW due \in SUBSET Case, Reassess(due)
        PROVE  UNCHANGED processed
    BY <2>2 DEF Reassess, orderVars
  <2> QED BY <2>1, <2>2 DEF Next
<1>2. processed' = processed \union {x}
  BY <1>1 DEF ProcessEvent, AppendFailure, OpenCase, CaptureForCase, SyncOnly, Sync,
              SyncWith
<1>3. x = e /\ e \in Event
  BY <1>1, <1>2
<1>4. CaptureForCase(e)
  BY <1>1, <1>3 DEF ProcessEvent, AppendFailure, OpenCase, SyncOnly, IsCapture
<1>5. PICK k \in Verifiable(PayOrder[e.payment]) :
        \E link \in LinksNamed(e, k) :
          VerifyOrSkip(k, e.payment, status, e.payment \in Foreign, link)
  BY <1>4 DEF CaptureForCase
<1>6. k = c /\ c \in Case
  <2>1. \A v \in Verifiable(PayOrder[e.payment]) :
          /\ v \in Case /\ CaseOrder[v] = PayOrder[e.payment]
          /\ cases[v].status \notin TerminalStatuses \union {"ABSENT"}
    BY DEF Verifiable, ActiveCases, VerifiableStatuses, TerminalStatuses
  <2> QED BY <2>1 DEF OneActiveCasePerOrder
<1>7. cases[c].status # "RECOVERED"
  BY DEF Verifiable, VerifiableStatuses
<1>8. SettlementAllowed(c, status, e.payment \in Foreign)
  BY <1>7 DEF SettlementAllowed, SettledPayment
<1> HIDE DEF status
<1> QED BY <1>5, <1>6, <1>8, VerifyNames

\* Whenever an outcome comes to name a gateway payment, that payment is CAPTURED
\* by then; and the event of a capture settles the case that awaits a payment in
\* its currency, whatever status the event gives the payment.
THEOREM SettlementIsCaptured == Spec => SettledByCapture
<1>1. TypeOK /\ OneActiveCasePerOrder /\ [Next]_vars =>
        [/\ \A c \in Case :
              outcomes'[c] # outcomes[c] /\ outcomes'[c].payment \in Payment
                => paymentStatus'[outcomes'[c].payment] = "CAPTURED"
         /\ \A e \in processed' \ processed : IsCapture(e) =>
              \A c \in Verifiable(PayOrder[e.payment]) :
                cases[c].foreign = (e.payment \in Foreign)
                  => outcomes'[c].payment = e.payment]_vars
  BY CaptureStep, CaptureSettles
<1> QED BY <1>1, TypeCorrect, OneActiveCase, PTL DEF Spec, SettledByCapture

=============================================================================
