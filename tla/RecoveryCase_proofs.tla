------------------------ MODULE RecoveryCase_proofs ------------------------
(***************************************************************************)
(* What RecoveryCase promises for every merchant, set of orders, payments, *)
(* events and cases, and every policy: machine-checked proofs.             *)
(***************************************************************************)
EXTENDS RecoveryCase, SequenceTheorems, WellFoundedInduction, TLAPS

----------------------------------------------------------------------------
(* The latest of a set of attempts *)

\* A nonempty bounded set of naturals has a greatest element.
LEMMA GreatestExists ==
  ASSUME NEW n \in Nat, NEW S, S \subseteq 0 .. n, S # {}
  PROVE  \E i \in S : \A j \in S : j <= i
<1> DEFINE T == {k \in Nat : n - k \in S}
<1>1. PICK s : s \in S
  OBVIOUS
<1>2. n - s \in T
  BY <1>1
<1>3. PICK m \in T : \A k \in T : ~(<<k, m>> \in OpToRel(<, Nat))
  BY <1>2, WFMin, NatLessThanWellFounded
<1>4. \A k \in T : m <= k
  <2> SUFFICES ASSUME NEW k \in T PROVE m <= k
    OBVIOUS
  <2>1. k \in Nat /\ m \in Nat
    OBVIOUS
  <2>2. ~(k < m)
    BY <1>3, <2>1 DEF OpToRel
  <2> QED BY <2>1, <2>2
<1>5. \A j \in S : j <= n - m
  <2> SUFFICES ASSUME NEW j \in S PROVE j <= n - m
    OBVIOUS
  <2>1. m \in Nat /\ j \in Int
    OBVIOUS
  <2>2. n - j \in T
    OBVIOUS
  <2>3. m <= n - j
    BY <2>2, <1>4
  <2> HIDE DEF T
  <2> QED BY <2>1, <2>3
<1> QED BY <1>3, <1>5

\* Latest picks a member of any nonempty set of positions of a sequence, and
\* none of the others comes after it.
LEMMA LatestIsGreatest ==
  ASSUME NEW n \in Nat, NEW S, S \subseteq 1 .. n, S # {}
  PROVE  Latest(S) \in S /\ \A j \in S : j <= Latest(S)
<1>1. S \subseteq 0 .. n
  OBVIOUS
<1>2. \E i \in S : \A j \in S : j <= i
  BY <1>1, GreatestExists
<1> QED BY <1>2 DEF Latest

----------------------------------------------------------------------------
(* Types *)

\* The attempt a settlement is matched with is one of the case's attempts, or
\* there is no attempt.
LEMMA MatchingAttemptType ==
  ASSUME TypeOK, NEW c \in Case, NEW link \in Nat
  PROVE  MatchingAttempt(c, link) \in 0 .. Len(attempts[c])
<1> DEFINE refs == {i \in DOMAIN attempts[c] : link > 0 /\ attempts[c][i].link = link}
<1>1. attempts[c] \in Seq(Attempt)
  BY DEF TypeOK
<1>2. Len(attempts[c]) \in Nat /\ refs \subseteq 1 .. Len(attempts[c])
  BY <1>1, LenProperties
<1>3. CASE refs = {}
  BY <1>2, <1>3 DEF MatchingAttempt
<1>4. CASE refs # {}
  <2>1. Latest(refs) \in refs
    BY <1>2, <1>4, LatestIsGreatest
  <2>2. MatchingAttempt(c, link) = Latest(refs)
    BY <1>4 DEF MatchingAttempt
  <2> QED BY <1>2, <2>1, <2>2
<1> QED BY <1>3, <1>4

\* Marking one attempt of a case as succeeded keeps the attempts well-typed.
LEMMA SucceedType ==
  ASSUME TypeOK, NEW c \in Case, NEW i \in 1 .. Len(attempts[c])
  PROVE  [attempts EXCEPT ![c][i].status = "SUCCEEDED"] \in [Case -> Seq(Attempt)]
<1> DEFINE a == [attempts[c][i] EXCEPT !.status = "SUCCEEDED"]
<1>1. attempts[c] \in Seq(Attempt)
  BY DEF TypeOK
<1>2. attempts[c][i] \in Attempt
  BY <1>1, ElementOfSeq
<1>3. a \in Attempt
  BY <1>2 DEF Attempt, AttemptStatuses
<1>4. [attempts[c] EXCEPT ![i] = a] \in Seq(Attempt)
  BY <1>1, <1>3, ExceptSeq
<1> QED BY <1>4 DEF TypeOK

\* A verification keeps the rows it writes well-typed.
LEMMA VerifyType ==
  ASSUME TypeOK, NEW c \in Case, NEW settling \in Settler,
         NEW status, NEW foreign \in BOOLEAN, NEW link \in Nat,
         VerifyOrSkip(c, settling, status, foreign, link)
  PROVE  /\ cases' \in [Case -> CaseRow]
         /\ attempts' \in [Case -> Seq(Attempt)]
         /\ outcomes' \in [Case -> Outcome]
         /\ ledger' \in Nat
<1>1. CASE ~SettlementAllowed(c, status, foreign)
  BY <1>1 DEF VerifyOrSkip, TypeOK
<1>2. CASE SettlementAllowed(c, status, foreign)
  <2> DEFINE match == MatchingAttempt(c, link)
  <2>1. Verify(c, settling, link)
    BY <1>2 DEF VerifyOrSkip
  <2>2. match \in 0 .. Len(attempts[c]) /\ Len(attempts[c]) \in Nat
    BY MatchingAttemptType, LenProperties DEF TypeOK
  <2>3. cases' \in [Case -> CaseRow]
    <3> DEFINE before == StatusBeforeRecovery(cases[c].status)
               after  == IF CanTransition(before, "RECOVERED") THEN "RECOVERED" ELSE before
    <3>1. cases[c] \in CaseRow
      BY DEF TypeOK
    <3>2. after \in CaseStatuses \union {"ABSENT"}
      BY <3>1 DEF CaseRow, StatusBeforeRecovery, CaseStatuses, ActiveStatuses,
                  TerminalStatuses
    <3>3. cases' = [cases EXCEPT ![c].status = after, ![c].credited = settling]
      BY <2>1 DEF Verify
    <3> HIDE DEF after
    <3> QED BY <3>1, <3>2, <3>3 DEF TypeOK, CaseRow
  <2>4. attempts' \in [Case -> Seq(Attempt)]
    BY <2>1, <2>2, SucceedType DEF Verify, TypeOK
  <2>5. outcomes' \in [Case -> Outcome]
    BY <2>1, <2>2 DEF Verify, TypeOK, Outcome, Settler
  <2>6. ledger' \in Nat
    BY <2>1 DEF Verify, TypeOK
  <2> QED BY <2>3, <2>4, <2>5, <2>6
<1> QED BY <1>1, <1>2

\* Synchronising the rows of an event keeps them well-typed.
LEMMA SyncWithType ==
  ASSUME TypeOK, NEW e \in Event, NEW status \in PaymentStatuses, SyncWith(e, status)
  PROVE  /\ orderStatus' \in [Order -> OrderStatuses \union {"ABSENT"}]
         /\ paymentStatus' \in [Payment -> PaymentStatuses \union {"ABSENT"}]
         /\ synthetic' \in [Order -> Nat]
         /\ processed' \subseteq Event
<1>1. e \in RawEvent /\ e.payment \in Payment /\ PayOrder[e.payment] \in Order
  BY CaseAssumption DEF RawEvent
<1>2. \A s \in OrderStatuses \union {"ABSENT"} : SyncedOrder(s, e) \in OrderStatuses
  BY DEF SyncedOrder, OrderStatuses
<1> QED BY <1>1, <1>2 DEF SyncWith, TypeOK

\* Whatever status a payment carries, the rows get one the table knows.
LEMMA SyncType ==
  ASSUME TypeOK, NEW e \in Event, Sync(e)
  PROVE  /\ orderStatus' \in [Order -> OrderStatuses \union {"ABSENT"}]
         /\ paymentStatus' \in [Payment -> PaymentStatuses \union {"ABSENT"}]
         /\ synthetic' \in [Order -> Nat]
         /\ processed' \subseteq Event
<1>1. \A s : SyncedPayment(s, e) \in PaymentStatuses
  BY DEF SyncedPayment, MappedStatus, PaymentStatuses
<1> QED BY <1>1, SyncWithType DEF Sync

\* What the policy may rule: an escalation hands the case to a human.
Rulings ==
  {r \in [verdict : Verdicts, action : Actions] :
     r.verdict = "ESCALATED" => r.action = "HUMAN_ESCALATION"}

\* Whatever the facts, the policy rules with a known verdict on a known action.
LEMMA EvaluateType ==
  ASSUME NEW f, NEW proposed \in Actions, NEW fallback \in Actions
  PROVE  Evaluate(proposed, f, fallback) \in Rulings
BY DEF Evaluate, Ruling, Rulings, Verdicts, Actions

\* An evaluation records some ruling.
LEMMA DecideRecords ==
  ASSUME NEW c \in Case, Decide(c)
  PROVE  \E r \in Rulings : RecordDecision(c, r)
<1>1. \A f : Candidates(f) \subseteq Actions
  BY DEF Candidates, Actions
<1>2. \A f : \A proposed \in Candidates(f) :
        Fallbacks(proposed, Candidates(f)) \subseteq Actions
  BY <1>1 DEF Fallbacks, Actions
<1>3. PICK link \in BOOLEAN, concierge \in BOOLEAN, high \in BOOLEAN :
        \E proposed \in Candidates(Facts(c, link, concierge, high)) :
        \E fallback \in Fallbacks(proposed, Candidates(Facts(c, link, concierge, high))) :
          RecordDecision(c, Evaluate(proposed, Facts(c, link, concierge, high), fallback))
  BY DEF Decide
<1>4. PICK proposed \in Candidates(Facts(c, link, concierge, high)) :
        \E fallback \in Fallbacks(proposed, Candidates(Facts(c, link, concierge, high))) :
          RecordDecision(c, Evaluate(proposed, Facts(c, link, concierge, high), fallback))
  BY <1>3
<1>5. PICK fallback \in Fallbacks(proposed, Candidates(Facts(c, link, concierge, high))) :
          RecordDecision(c, Evaluate(proposed, Facts(c, link, concierge, high), fallback))
  BY <1>4
<1>6. proposed \in Actions /\ fallback \in Actions
  BY <1>1, <1>2
<1> QED BY <1>5, <1>6, EvaluateType

\* One evaluation keeps the rows well-typed.
LEMMA DecideType ==
  ASSUME TypeOK, NEW c \in Case, Decide(c)
  PROVE  TypeOK'
<1>1. PICK r \in Rulings : RecordDecision(c, r)
  BY DecideRecords
<1>2. VerdictTarget(r) \in CaseStatuses
  BY DEF VerdictTarget, CaseStatuses, ActiveStatuses
<1>3. cases[c] \in CaseRow /\ cases[c].count \in Nat
  BY DEF TypeOK, CaseRow
<1>4. cases' \in [Case -> CaseRow]
  BY <1>1, <1>2, <1>3 DEF RecordDecision, TypeOK, CaseRow
<1>5. [number |-> cases[c].count + 1, verdict |-> r.verdict, action |-> r.action]
        \in Decision
  BY <1>3 DEF Decision, Rulings
<1>6. decisions' \in [Case -> Seq(Decision)]
  BY <1>1, <1>5 DEF RecordDecision, TypeOK
<1> QED BY <1>4, <1>6 DEF Decide, orderVars, TypeOK

ExecutorResult ==
  [status : {"ACKNOWLEDGED", "SUCCEEDED", "FAILED"},
   target : {"DIAGNOSING", "WAITING_EXTERNAL", "ESCALATED"},
   link   : Nat]

\* An executor reports a settled or acknowledged attempt, never a pending one,
\* and a link of an existing attempt or of the one being made.
LEMMA ExecutorResultType ==
  ASSUME TypeOK, NEW c \in Case, NEW action, NEW r \in ExecutorResults(c, action)
  PROVE  r \in ExecutorResult
<1> DEFINE here == Len(attempts[c])
<1>1. attempts[c] \in Seq(Attempt) /\ here \in Nat /\ DOMAIN attempts[c] = 1 .. here
  BY LenProperties DEF TypeOK
<1>3. PaymentLinkResults(c) \subseteq ExecutorResult
  BY <1>1 DEF PaymentLinkResults, Result, ExecutorResult
<1>4. ReminderResults(c) \subseteq ExecutorResult
  <2>1. CASE OpenLinks(c) = {}
    BY <2>1 DEF ReminderResults, Result, ExecutorResult
  <2>2. CASE OpenLinks(c) # {}
    <3>1. OpenLinks(c) \subseteq 1 .. here
      BY <1>1 DEF OpenLinks
    <3>2. Latest(OpenLinks(c)) \in 1 .. here
      BY <1>1, <2>2, <3>1, LatestIsGreatest
    <3>3. attempts[c][Latest(OpenLinks(c))] \in Attempt
      BY <1>1, <3>2, ElementOfSeq
    <3>4. attempts[c][Latest(OpenLinks(c))].link \in Nat
      BY <3>3 DEF Attempt
    <3> QED BY <2>2, <3>4 DEF ReminderResults, Result, ExecutorResult
  <2> QED BY <2>1, <2>2
<1>5. \A s \in {"SUCCEEDED"}, t \in {"WAITING_EXTERNAL", "ESCALATED"} :
        Result(s, t, 0) \in ExecutorResult
  BY DEF Result, ExecutorResult
<1> QED BY <1>3, <1>4, <1>5 DEF ExecutorResults

\* One execution keeps the rows well-typed.
LEMMA DispatchType ==
  ASSUME TypeOK, NEW c \in Case, NEW number \in Nat, NEW action \in Actions,
         NEW d \in Nat, Dispatch(c, number, action, d)
  PROVE  TypeOK'
<1>1. PICK r \in ExecutorResults(c, action) : RecordAttempt(c, number, action, d, r)
  BY DEF Dispatch
<1>2. r \in ExecutorResult
  BY ExecutorResultType
<1>3. cases[c] \in CaseRow /\ cases[c].count \in Nat
  BY DEF TypeOK, CaseRow
<1> DEFINE before == IF MustEnterExecuting(cases[c].status)
                       THEN "EXECUTING" ELSE cases[c].status
           after  == IF CanTransition(before, r.target) THEN r.target ELSE before
<1>4. after \in CaseStatuses \union {"ABSENT"}
  BY <1>2, <1>3 DEF ExecutorResult, CaseRow, CaseStatuses, ActiveStatuses
<1>5. cases' = [cases EXCEPT
                  ![c].status    = after,
                  ![c].count     = CountAfter(c, r),
                  ![c].cooling   = TRUE,
                  ![c].scheduled = (@ \/ action = "WAIT_AND_REASSESS")]
  BY <1>1 DEF RecordAttempt
<1>6. CountAfter(c, r) \in Nat
  BY <1>3 DEF CountAfter
<1>7. cases' \in [Case -> CaseRow]
  <2> DEFINE sched == cases[c].scheduled \/ action = "WAIT_AND_REASSESS"
             row   == [cases[c] EXCEPT !.status = after, !.count = CountAfter(c, r),
                                       !.cooling = TRUE, !.scheduled = sched]
  <2>1. cases' = [cases EXCEPT ![c] = row]
    <3> HIDE DEF after
    <3> QED BY <1>5 DEF TypeOK
  <2>2. sched \in BOOLEAN
    OBVIOUS
  <2> HIDE DEF after, sched
  <2>3. row \in CaseRow
    BY <1>3, <1>4, <1>6, <2>2 DEF CaseRow
  <2> QED BY <2>1, <2>3 DEF TypeOK
<1>8. [number |-> number, action |-> action, status |-> r.status,
       link |-> r.link, decision |-> d] \in Attempt
  BY <1>2 DEF Attempt, ExecutorResult, AttemptStatuses
<1>9. attempts' \in [Case -> Seq(Attempt)]
  BY <1>1, <1>8 DEF RecordAttempt, TypeOK
<1> QED BY <1>7, <1>9 DEF Dispatch, orderVars, TypeOK

\* Both ways to execute dispatch the action of some decision of the case.
LEMMA ExecuteDispatches ==
  ASSUME TypeOK, NEW c \in Case, ExecuteLatest(c) \/ ExecuteCommand(c)
  PROVE  \E d \in 1 .. Len(decisions[c]), number \in Nat :
           /\ decisions[c][d] \in Decision
           /\ \/ d \in LatestDecisions(c) /\ number = cases[c].count + 1
              \/ number = decisions[c][d].number
           /\ Dispatch(c, number, decisions[c][d].action, d)
<1>1. decisions[c] \in Seq(Decision) /\ cases[c].count + 1 \in Nat
  BY DEF TypeOK, CaseRow
<1>2. DOMAIN decisions[c] = 1 .. Len(decisions[c])
  BY <1>1, LenProperties
<1>3. ASSUME NEW d \in 1 .. Len(decisions[c])
      PROVE  decisions[c][d] \in Decision /\ decisions[c][d].number \in Nat
  <2>1. decisions[c][d] \in Decision
    BY <1>1, ElementOfSeq
  <2> QED BY <2>1 DEF Decision
<1>4. CASE ExecuteLatest(c)
  BY <1>1, <1>2, <1>3, <1>4 DEF ExecuteLatest, LatestDecisions
<1>5. CASE ExecuteCommand(c)
  BY <1>2, <1>3, <1>5 DEF ExecuteCommand
<1> QED BY <1>4, <1>5

\* The gateway reference of any attempt is a natural number.
LEMMA LinkType ==
  ASSUME TypeOK, NEW c \in Case, NEW S, S \subseteq DOMAIN attempts[c], S # {}
  PROVE  attempts[c][Latest(S)].link \in Nat
<1>1. attempts[c] \in Seq(Attempt)
  BY DEF TypeOK
<1>2. Len(attempts[c]) \in Nat /\ DOMAIN attempts[c] = 1 .. Len(attempts[c])
  BY <1>1, LenProperties
<1>3. Latest(S) \in 1 .. Len(attempts[c])
  BY <1>2, LatestIsGreatest
<1>4. attempts[c][Latest(S)] \in Attempt
  BY <1>1, <1>3, ElementOfSeq
<1> QED BY <1>4 DEF Attempt

\* A poll or a simulation counts the payment row it inserts.
LEMMA AddSyntheticType ==
  ASSUME TypeOK, NEW o \in Order, AddSynthetic(o)
  PROVE  synthetic' \in [Order -> Nat]
BY DEF AddSynthetic, TypeOK

\* TypeOK is inductive: every row keeps the shape its table gives it.
LEMMA TypeInductive ==
  ASSUME TypeOK, [Next]_vars
  PROVE  TypeOK'
<1>1. ASSUME NEW e \in Event, AppendFailure(e)
      PROVE  TypeOK'
  <2>1. Sync(e) /\ e.category \in Categories
    BY <1>1, CaseAssumption DEF AppendFailure, RawEvent
  <2>2. PICK c \in Case : cases' = [cases EXCEPT ![c].category = e.category]
    BY <1>1 DEF AppendFailure, ActiveCases
  <2>3. [cases[c] EXCEPT !.category = e.category] \in CaseRow
    BY <2>1 DEF TypeOK, CaseRow
  <2>4. cases' \in [Case -> CaseRow]
    BY <2>2, <2>3 DEF TypeOK
  <2> QED BY <1>1, <2>1, <2>4, SyncType DEF AppendFailure, TypeOK
<1>2. ASSUME NEW e \in Event, OpenCase(e)
      PROVE  TypeOK'
  <2>1. Sync(e) /\ e.category \in Categories
    BY <1>2, CaseAssumption DEF OpenCase, RawEvent
  <2>2. [NoCase EXCEPT !.status = "DIAGNOSING", !.category = e.category,
                       !.foreign = (e.payment \in Foreign)] \in CaseRow
    <3>1. NoCase \in CaseRow
      BY DEF NoCase, CaseRow, Categories
    <3>2. "DIAGNOSING" \in CaseStatuses
      BY DEF CaseStatuses, ActiveStatuses
    <3>3. (e.payment \in Foreign) \in BOOLEAN
      OBVIOUS
    <3> HIDE DEF NoCase
    <3> QED BY <2>1, <3>1, <3>2, <3>3 DEF CaseRow
  <2>3. cases' \in [Case -> CaseRow]
    BY <1>2, <2>2 DEF OpenCase, TypeOK
  <2> QED BY <1>2, <2>1, <2>3, SyncType DEF OpenCase, TypeOK
<1>3. ASSUME NEW e \in Event, CaptureForCase(e)
      PROVE  TypeOK'
  <2> DEFINE status == SettledPayment(paymentStatus[e.payment], e)
  <2>1. SyncWith(e, status) /\ e.payment \in Settler
    BY <1>3, CaseAssumption DEF CaptureForCase, RawEvent, Settler
  <2>2. PICK c \in Case, link \in Nat :
          VerifyOrSkip(c, e.payment, status, e.payment \in Foreign, link)
    <3>1. PICK c \in Case :
            \E link \in LinksNamed(e, c) :
              VerifyOrSkip(c, e.payment, status, e.payment \in Foreign, link)
      BY <1>3 DEF CaptureForCase, Verifiable, ActiveCases
    <3>2. LinksNamed(e, c) \subseteq Nat
      BY DEF LinksNamed
    <3> QED BY <3>1, <3>2
  <2>3. /\ cases' \in [Case -> CaseRow]
        /\ attempts' \in [Case -> Seq(Attempt)]
        /\ outcomes' \in [Case -> Outcome]
        /\ ledger' \in Nat
    <3>1. (e.payment \in Foreign) \in BOOLEAN
      OBVIOUS
    <3> QED BY <2>1, <2>2, <3>1, VerifyType
  <2>4. status \in PaymentStatuses
    BY DEF SettledPayment, PaymentStatuses
  <2> HIDE DEF status
  <2>5. /\ orderStatus' \in [Order -> OrderStatuses \union {"ABSENT"}]
        /\ paymentStatus' \in [Payment -> PaymentStatuses \union {"ABSENT"}]
        /\ synthetic' \in [Order -> Nat]
        /\ processed' \subseteq Event
    BY <2>1, <2>4, SyncWithType
  <2> QED BY <1>3, <2>3, <2>5 DEF CaptureForCase, TypeOK
<1>4. ASSUME NEW e \in Event, SyncOnly(e)
      PROVE  TypeOK'
  BY <1>4, SyncType DEF SyncOnly, TypeOK
<1>5. ASSUME NEW c \in Case, ExecuteLatest(c) \/ ExecuteCommand(c)
      PROVE  TypeOK'
  <2>1. PICK d \in 1 .. Len(decisions[c]), number \in Nat :
          /\ decisions[c][d] \in Decision
          /\ Dispatch(c, number, decisions[c][d].action, d)
    BY <1>5, ExecuteDispatches
  <2>2. decisions[c][d].action \in Actions /\ d \in Nat
    BY <2>1 DEF Decision
  <2> QED BY <2>1, <2>2, DispatchType
<1>6. ASSUME NEW c \in Case, Poll(c)
      PROVE  TypeOK'
  <2>1. CaseOrder[c] \in Order /\ Synthetic \in Settler /\ cases[c].foreign \in BOOLEAN
    BY CaseAssumption DEF Settler, TypeOK, CaseRow
  <2>2. PolledLinks(c) # {} /\ PolledLinks(c) \subseteq DOMAIN attempts[c]
    BY <1>6 DEF Poll, PolledLinks
  <2>3. attempts[c][Latest(PolledLinks(c))].link \in Nat
    BY <2>2, LinkType
  <2>4. /\ cases' \in [Case -> CaseRow]
        /\ attempts' \in [Case -> Seq(Attempt)]
        /\ outcomes' \in [Case -> Outcome]
        /\ ledger' \in Nat
    BY <1>6, <2>1, <2>3, VerifyType DEF Poll
  <2>5. orderStatus' \in [Order -> OrderStatuses \union {"ABSENT"}]
    BY <1>6 DEF Poll, OrderStatuses, TypeOK
  <2>6. synthetic' \in [Order -> Nat]
    BY <1>6, <2>1, AddSyntheticType DEF Poll
  <2> QED BY <1>6, <2>4, <2>5, <2>6 DEF Poll, TypeOK
<1>7. ASSUME NEW c \in Case, SimulatePayment(c)
      PROVE  TypeOK'
  <2>1. CaseOrder[c] \in Order /\ Synthetic \in Settler /\ cases[c].foreign \in BOOLEAN
    BY CaseAssumption DEF Settler, TypeOK, CaseRow
  <2>2. /\ cases' \in [Case -> CaseRow]
        /\ attempts' \in [Case -> Seq(Attempt)]
        /\ outcomes' \in [Case -> Outcome]
        /\ ledger' \in Nat
    BY <1>7, <2>1, VerifyType DEF SimulatePayment
  <2>3. synthetic' \in [Order -> Nat]
    BY <1>7, <2>1, AddSyntheticType DEF SimulatePayment
  <2> QED BY <1>7, <2>2, <2>3 DEF SimulatePayment, TypeOK
<1>8. ASSUME NEW c \in Case, DeadlinePasses(c) \/ CooldownEnds(c)
      PROVE  TypeOK'
  <2>1. /\ [cases[c] EXCEPT !.expired = TRUE] \in CaseRow
        /\ [cases[c] EXCEPT !.cooling = FALSE] \in CaseRow
    BY DEF TypeOK, CaseRow
  <2>2. cases' \in [Case -> CaseRow]
    BY <1>8, <2>1 DEF DeadlinePasses, CooldownEnds, TypeOK
  <2> QED BY <1>8, <2>2 DEF DeadlinePasses, CooldownEnds, orderVars, TypeOK
<1>9. ASSUME NEW due \in SUBSET Case, Reassess(due)
      PROVE  TypeOK'
  <2> DEFINE Redetected(row) ==
               [row EXCEPT !.status = "DETECTED", !.scheduled = FALSE]
  <2>1. "DETECTED" \in CaseStatuses
    BY DEF CaseStatuses, ActiveStatuses
  <2>2. \A row \in CaseRow : Redetected(row) \in CaseRow
    BY <2>1 DEF CaseRow
  <2>3. \A c \in Case : Redetected(cases[c]) \in CaseRow
    BY <2>2 DEF TypeOK
  <2>4. cases' \in [Case -> CaseRow]
    BY <1>9, <2>3 DEF Reassess, TypeOK
  <2> QED BY <1>9, <2>4 DEF Reassess, orderVars, TypeOK
<1>10. CASE UNCHANGED vars
  BY <1>10 DEF vars, TypeOK
<1> QED BY <1>1, <1>2, <1>3, <1>4, <1>5, <1>6, <1>7, <1>8, <1>9, <1>10, DecideType
        DEF Next, ProcessEvent, CaseStep

\* Every reachable state is well-typed.
THEOREM TypeCorrect == Spec => []TypeOK
<1>1. Init => TypeOK
  BY DEF Init, TypeOK, CaseRow, NoCase, Outcome, NoOutcome, Categories
<1>2. TypeOK /\ [Next]_vars => TypeOK'
  BY TypeInductive
<1> QED BY <1>1, <1>2, PTL DEF Spec

----------------------------------------------------------------------------
(* What a step does to one case.  The properties below are proved of these *)
(* six effects rather than of every action of Next.                        *)

\* Nothing a property speaks of changes.
Untouched(c) ==
  /\ \/ cases'[c] = cases[c]
     \/ \E k \in Categories : cases'[c] = [cases[c] EXCEPT !.category = k]
     \/ cases'[c] = [cases[c] EXCEPT !.expired = TRUE]
     \/ cases'[c] = [cases[c] EXCEPT !.cooling = FALSE]
  /\ decisions'[c] = decisions[c]
  /\ attempts'[c] = attempts[c]
  /\ outcomes'[c] = outcomes[c]

\* The row is inserted, for an order that had no active case; no other case
\* changes in that step.
Opened(c) ==
  /\ cases[c].status = "ABSENT"
  /\ ActiveCases(CaseOrder[c]) = {}
  /\ \E k \in Categories, f \in BOOLEAN :
       cases'[c] = [NoCase EXCEPT !.status = "DIAGNOSING", !.category = k, !.foreign = f]
  /\ \A other \in Case \ {c} : cases'[other] = cases[other]
  /\ UNCHANGED <<decisions, attempts, outcomes>>

\* A payment for the case's own order, in its currency, settles it.
Settled(c) ==
  \E s \in Settler, link \in Nat :
    /\ Exists(c)
    /\ cases[c].status # "RECOVERED"
    /\ s \in Payment => /\ PayOrder[s] = CaseOrder[c]
                       /\ (s \in Foreign) = cases[c].foreign
    /\ Verify(c, s, link)
    /\ UNCHANGED decisions

Decided(c) ==
  /\ \E r \in Rulings : RecordDecision(c, r)
  /\ UNCHANGED <<attempts, outcomes>>

\* A decision is executed: under a fresh number if it is the latest one,
\* otherwise under its own.
Attempted(c) ==
  /\ Active(c)
  /\ \E d \in 1 .. Len(decisions[c]), number \in Nat :
       /\ decisions[c][d] \in Decision
       /\ \/ d \in LatestDecisions(c) /\ number = cases[c].count + 1
          \/ number = decisions[c][d].number
       /\ \E r \in ExecutorResults(c, decisions[c][d].action) :
            RecordAttempt(c, number, decisions[c][d].action, d, r)
  /\ UNCHANGED <<decisions, outcomes>>

Reassessed(c) ==
  /\ cases[c].status = "WAITING_EXTERNAL"
  /\ cases'[c] = [cases[c] EXCEPT !.status = "DETECTED", !.scheduled = FALSE]
  /\ UNCHANGED <<decisions, attempts, outcomes>>

Effect(c) ==
  Untouched(c) \/ Opened(c) \/ Settled(c) \/ Decided(c) \/ Attempted(c) \/ Reassessed(c)

\* A verification settles its case or leaves it alone, and leaves every other
\* case alone.
LEMMA VerificationEffect ==
  ASSUME TypeOK, NEW c \in Case, NEW s \in Settler, NEW status, NEW foreign,
         NEW link \in Nat, Exists(c),
         s \in Payment => PayOrder[s] = CaseOrder[c] /\ (s \in Foreign) = foreign,
         VerifyOrSkip(c, s, status, foreign, link), UNCHANGED decisions,
         NEW k \in Case
  PROVE  Untouched(k) \/ Settled(k)
<1>1. CASE ~SettlementAllowed(c, status, foreign)
  BY <1>1 DEF VerifyOrSkip, Untouched
<1>2. CASE SettlementAllowed(c, status, foreign) /\ k = c
  BY <1>2 DEF VerifyOrSkip, SettlementAllowed, Settled
<1>3. CASE SettlementAllowed(c, status, foreign) /\ k # c
  <2>1. Verify(c, s, link)
    BY <1>3 DEF VerifyOrSkip
  <2>2. cases'[k] = cases[k] /\ outcomes'[k] = outcomes[k]
    BY <1>3, <2>1 DEF Verify, TypeOK
  <2>3. attempts'[k] = attempts[k]
    BY <1>3, <2>1 DEF Verify, TypeOK
  <2> QED BY <2>2, <2>3 DEF Untouched
<1> QED BY <1>1, <1>2, <1>3

\* Every step has one of the six effects on every case.
LEMMA StepEffect ==
  ASSUME TypeOK, [Next]_vars, NEW c \in Case
  PROVE  Effect(c)
<1>1. ASSUME NEW e \in Event, AppendFailure(e)
      PROVE  Effect(c)
  <2>1. PICK k \in Case : cases' = [cases EXCEPT ![k].category = e.category]
    BY <1>1 DEF AppendFailure, ActiveCases
  <2>2. e.category \in Categories
    BY CaseAssumption DEF RawEvent
  <2> QED BY <1>1, <2>1, <2>2 DEF AppendFailure, Effect, Untouched, TypeOK
<1>2. ASSUME NEW e \in Event, OpenCase(e)
      PROVE  Effect(c)
  <2>1. PICK k \in Case :
          /\ ~Exists(k)
          /\ CaseOrder[k] = PayOrder[e.payment]
          /\ cases' = [cases EXCEPT ![k] =
                         [NoCase EXCEPT !.status = "DIAGNOSING",
                                        !.category = e.category,
                                        !.foreign = (e.payment \in Foreign)]]
    BY <1>2 DEF OpenCase
  <2>2. e.category \in Categories /\ (e.payment \in Foreign) \in BOOLEAN
    BY CaseAssumption DEF RawEvent
  <2>3. CASE c = k
    <3>1. cases[c].status = "ABSENT" /\ ActiveCases(CaseOrder[c]) = {}
      BY <1>2, <2>1, <2>3 DEF OpenCase, OrderNeedsCase, Exists
    <3>2. \A other \in Case \ {c} : cases'[other] = cases[other]
      BY <2>1, <2>3 DEF TypeOK
    <3>3. cases'[c] = [NoCase EXCEPT !.status = "DIAGNOSING",
                                     !.category = e.category,
                                     !.foreign = (e.payment \in Foreign)]
      BY <2>1, <2>3 DEF TypeOK
    <3> QED BY <1>2, <2>2, <3>1, <3>2, <3>3 DEF Opened, OpenCase, Effect
  <2>4. CASE c # k
    BY <1>2, <2>1, <2>4 DEF OpenCase, Effect, Untouched, TypeOK
  <2> QED BY <2>3, <2>4
<1>3. ASSUME NEW e \in Event, CaptureForCase(e)
      PROVE  Effect(c)
  <2> DEFINE status == SettledPayment(paymentStatus[e.payment], e)
  <2>1. e.payment \in Settler
    BY CaseAssumption DEF RawEvent, Settler
  <2>2. PICK k \in Verifiable(PayOrder[e.payment]) :
          \E link \in LinksNamed(e, k) :
            VerifyOrSkip(k, e.payment, status, e.payment \in Foreign, link)
    BY <1>3 DEF CaptureForCase
  <2>3. k \in Case /\ CaseOrder[k] = PayOrder[e.payment] /\ Exists(k)
    BY DEF Verifiable, ActiveCases, Active, Exists, ActiveStatuses
  <2>4. PICK link \in Nat :
          VerifyOrSkip(k, e.payment, status, e.payment \in Foreign, link)
    BY <2>2 DEF LinksNamed
  <2>5. UNCHANGED decisions
    BY <1>3 DEF CaptureForCase
  <2> QED BY <2>1, <2>3, <2>4, <2>5, VerificationEffect DEF Effect
<1>4. ASSUME NEW e \in Event, SyncOnly(e)
      PROVE  Effect(c)
  BY <1>4 DEF SyncOnly, Effect, Untouched
<1>5. ASSUME NEW k \in Case, Decide(k)
      PROVE  Effect(c)
  <2>1. PICK r \in Rulings : RecordDecision(k, r)
    BY <1>5, DecideRecords
  <2>2. UNCHANGED <<attempts, outcomes>>
    BY <1>5 DEF Decide
  <2>3. CASE c = k
    BY <2>1, <2>2, <2>3 DEF Decided, Effect
  <2>4. CASE c # k
    BY <2>1, <2>2, <2>4 DEF RecordDecision, Untouched, Effect, TypeOK
  <2> QED BY <2>3, <2>4
<1>6. ASSUME NEW k \in Case, ExecuteLatest(k) \/ ExecuteCommand(k)
      PROVE  Effect(c)
  <2>1. PICK d \in 1 .. Len(decisions[k]), number \in Nat :
          /\ decisions[k][d] \in Decision
          /\ \/ d \in LatestDecisions(k) /\ number = cases[k].count + 1
             \/ number = decisions[k][d].number
          /\ Dispatch(k, number, decisions[k][d].action, d)
    BY <1>6, ExecuteDispatches
  <2>2. PICK r \in ExecutorResults(k, decisions[k][d].action) :
          RecordAttempt(k, number, decisions[k][d].action, d, r)
    BY <2>1 DEF Dispatch
  <2>3. Active(k) /\ UNCHANGED <<decisions, outcomes>>
    BY <2>1 DEF Dispatch
  <2>4. CASE c = k
    BY <2>1, <2>2, <2>3, <2>4 DEF Attempted, Effect
  <2>5. CASE c # k
    BY <2>2, <2>3, <2>5 DEF RecordAttempt, Untouched, Effect, TypeOK
  <2> QED BY <2>4, <2>5
<1>7. ASSUME NEW k \in Case, Poll(k) \/ SimulatePayment(k)
      PROVE  Effect(c)
  <2>1. Synthetic \in Settler /\ Synthetic \notin Payment
    BY CaseAssumption DEF Settler
  <2>2. PICK link \in Nat : VerifyOrSkip(k, Synthetic, "CAPTURED", cases[k].foreign, link)
    <3>1. CASE Poll(k)
      <4>1. PolledLinks(k) # {} /\ PolledLinks(k) \subseteq DOMAIN attempts[k]
        BY <3>1 DEF Poll, PolledLinks
      <4> QED BY <3>1, <4>1, LinkType DEF Poll
    <3>2. CASE SimulatePayment(k)
      BY <3>2 DEF SimulatePayment
    <3> QED BY <1>7, <3>1, <3>2
  <2>3. Exists(k) /\ UNCHANGED decisions
    BY <1>7 DEF Poll, SimulatePayment
  <2> QED BY <2>1, <2>2, <2>3, VerificationEffect DEF Effect
<1>8. ASSUME NEW k \in Case, DeadlinePasses(k) \/ CooldownEnds(k)
      PROVE  Effect(c)
  BY <1>8 DEF DeadlinePasses, CooldownEnds, Untouched, Effect, TypeOK
<1>9. ASSUME NEW due \in SUBSET Case, Reassess(due)
      PROVE  Effect(c)
  BY <1>9 DEF Reassess, Reassessed, Untouched, Effect
<1>10. CASE UNCHANGED vars
  BY <1>10 DEF vars, Untouched, Effect
<1> QED BY <1>1, <1>2, <1>3, <1>4, <1>5, <1>6, <1>7, <1>8, <1>9, <1>10
        DEF Next, ProcessEvent, CaseStep

----------------------------------------------------------------------------
(* Statuses *)

\* Only an active status has a successor.
LEMMA TransitionFromActive ==
  ASSUME NEW s, NEW t, CanTransition(s, t)
  PROVE  s \in ActiveStatuses
BY DEF CanTransition, CaseTargets, ActiveStatuses

\* Of the four terminal statuses the services ever reach only RECOVERED.
RecoveredOnly ==
  \A c \in Case : cases[c].status \notin TerminalStatuses \ {"RECOVERED"}

\* A verification leaves the status, or moves it to VERIFYING or RECOVERED.
LEMMA VerifyStatus ==
  ASSUME TypeOK, NEW c \in Case, NEW s, NEW link, Verify(c, s, link)
  PROVE  /\ \/ cases'[c].status = cases[c].status
            \/ /\ cases'[c].status \in {"VERIFYING", "RECOVERED"}
               /\ cases[c].status \in ActiveStatuses
         /\ cases'[c].credited = s
         /\ cases'[c].foreign = cases[c].foreign
         /\ cases'[c].count = cases[c].count
<1> DEFINE before == StatusBeforeRecovery(cases[c].status)
           after  == IF CanTransition(before, "RECOVERED") THEN "RECOVERED" ELSE before
<1>1. cases' = [cases EXCEPT ![c].status = after, ![c].credited = s]
  BY DEF Verify
<1>2. \/ after = cases[c].status
      \/ after \in {"VERIFYING", "RECOVERED"} /\ cases[c].status \in ActiveStatuses
  BY TransitionFromActive DEF StatusBeforeRecovery
<1>3. cases[c] \in CaseRow
  BY DEF TypeOK
<1> HIDE DEF after
<1>4. /\ cases'[c].status = after
      /\ cases'[c].credited = s
      /\ cases'[c].foreign = cases[c].foreign
      /\ cases'[c].count = cases[c].count
  BY <1>1, <1>3 DEF TypeOK, CaseRow
<1> QED BY <1>2, <1>4

\* A decision is recorded for an active case only, and leaves it active.
LEMMA DecisionStatus ==
  ASSUME TypeOK, NEW c \in Case, NEW r \in Rulings, RecordDecision(c, r)
  PROVE  /\ cases[c].status \in ActiveStatuses
         /\ cases'[c].status \in {"APPROVED", "ESCALATED", "REJECTED"}
         /\ cases'[c].credited = cases[c].credited
         /\ cases'[c].foreign = cases[c].foreign
         /\ cases'[c].count = cases[c].count
<1>1. StatusBeforeVerdict(cases[c].status) \in ActiveStatuses
  BY TransitionFromActive DEF RecordDecision
<1>2. cases[c].status \in ActiveStatuses
  BY <1>1 DEF StatusBeforeVerdict, ActiveStatuses
<1>3. VerdictTarget(r) \in {"APPROVED", "ESCALATED", "REJECTED"}
  BY DEF VerdictTarget
<1>4. cases[c] \in CaseRow
  BY DEF TypeOK
<1>5. cases'[c] = [cases[c] EXCEPT !.status = VerdictTarget(r)]
  BY DEF RecordDecision, TypeOK
<1> QED BY <1>2, <1>3, <1>4, <1>5 DEF CaseRow

\* An execution moves an active case to an active status and counts one attempt.
LEMMA AttemptStatus ==
  ASSUME TypeOK, NEW c \in Case, NEW number, NEW action, NEW d,
         NEW r \in ExecutorResults(c, action),
         RecordAttempt(c, number, action, d, r), Active(c)
  PROVE  /\ cases'[c].status \in ActiveStatuses
         /\ cases'[c].credited = cases[c].credited
         /\ cases'[c].foreign = cases[c].foreign
         /\ cases'[c].count = cases[c].count + 1
<1> DEFINE before == IF MustEnterExecuting(cases[c].status)
                       THEN "EXECUTING" ELSE cases[c].status
           after  == IF CanTransition(before, r.target) THEN r.target ELSE before
           sched  == cases[c].scheduled \/ action = "WAIT_AND_REASSESS"
<1>1. r \in ExecutorResult
  BY ExecutorResultType
<1>2. after \in ActiveStatuses
  BY <1>1 DEF ExecutorResult, Active, ActiveStatuses
<1>3. cases' = [cases EXCEPT
                  ![c].status    = after,
                  ![c].count     = CountAfter(c, r),
                  ![c].cooling   = TRUE,
                  ![c].scheduled = (@ \/ action = "WAIT_AND_REASSESS")]
  BY DEF RecordAttempt
<1>4. cases[c] \in CaseRow
  BY DEF TypeOK
<1> HIDE DEF after
<1>5. /\ cases'[c].status = after
      /\ cases'[c].credited = cases[c].credited
      /\ cases'[c].foreign = cases[c].foreign
      /\ cases'[c].count = CountAfter(c, r)
  BY <1>3, <1>4 DEF TypeOK, CaseRow
<1> QED BY <1>2, <1>5 DEF CountAfter

\* What each effect makes of the columns of the row: a status becomes active only
\* by opening the case, and RECOVERED only by settling it.
LEMMA StatusEffect ==
  ASSUME TypeOK, NEW c \in Case, Effect(c)
  PROVE  \/ /\ cases'[c].status = cases[c].status
            /\ cases'[c].credited = cases[c].credited
            /\ cases'[c].foreign = cases[c].foreign
            /\ outcomes'[c] = outcomes[c]
         \/ Opened(c) /\ cases'[c].status = "DIAGNOSING"
         \/ /\ Settled(c)
            /\ \/ cases'[c].status = cases[c].status
               \/ /\ cases'[c].status \in {"VERIFYING", "RECOVERED"}
                  /\ cases[c].status \in ActiveStatuses
         \/ /\ cases[c].status \in ActiveStatuses
            /\ cases'[c].status \in ActiveStatuses
            /\ cases'[c].credited = cases[c].credited
            /\ cases'[c].foreign = cases[c].foreign
            /\ outcomes'[c] = outcomes[c]
<1>1. cases[c] \in CaseRow
  BY DEF TypeOK
<1>2. CASE Untouched(c)
  BY <1>1, <1>2 DEF Untouched, CaseRow
<1>3. CASE Opened(c)
  BY <1>3 DEF Opened, NoCase
<1>4. CASE Settled(c)
  BY <1>4, VerifyStatus DEF Settled
<1>5. CASE Decided(c)
  BY <1>5, DecisionStatus DEF Decided, ActiveStatuses
<1>6. CASE Attempted(c)
  BY <1>6, AttemptStatus DEF Attempted, Active
<1>7. CASE Reassessed(c)
  BY <1>1, <1>7 DEF Reassessed, ActiveStatuses, CaseRow
<1> QED BY <1>2, <1>3, <1>4, <1>5, <1>6, <1>7 DEF Effect

\* No executor result, ruling or verification has a terminal target but RECOVERED.
LEMMA RecoveredOnlyInductive ==
  ASSUME TypeOK, RecoveredOnly, [Next]_vars
  PROVE  RecoveredOnly'
<1> SUFFICES ASSUME NEW c \in Case
             PROVE  cases'[c].status \notin TerminalStatuses \ {"RECOVERED"}
  BY DEF RecoveredOnly
<1>1. Effect(c)
  BY StepEffect
<1>2. \/ cases'[c].status = cases[c].status
      \/ cases'[c].status \in ActiveStatuses \union {"RECOVERED"}
  BY <1>1, StatusEffect DEF ActiveStatuses
<1> QED BY <1>2 DEF RecoveredOnly, ActiveStatuses, TerminalStatuses

\* A case that is over is RECOVERED: although the transition table offers
\* UNRECOVERABLE, EXPIRED and STOPPED, no service ever assigns them.
THEOREM OnlyRecoveryEnds == Spec => []RecoveredOnly
<1>1. Init => RecoveredOnly
  BY DEF Init, RecoveredOnly, NoCase, TerminalStatuses
<1>2. TypeOK /\ RecoveredOnly /\ [Next]_vars => RecoveredOnly'
  BY RecoveredOnlyInductive
<1> QED BY <1>1, <1>2, TypeCorrect, PTL DEF Spec

----------------------------------------------------------------------------
(* One active case per order *)

\* A case that becomes active is being opened for an order without one, and is
\* the only case that changes.
LEMMA OneActiveInductive ==
  ASSUME TypeOK, OneActiveCasePerOrder, [Next]_vars
  PROVE  OneActiveCasePerOrder'
<1> DEFINE Live(s) == s \notin TerminalStatuses \union {"ABSENT"}
<1>1. \A c \in Case : Live(cases[c].status) <=> cases[c].status \in ActiveStatuses
  BY DEF TypeOK, CaseRow, CaseStatuses, ActiveStatuses, TerminalStatuses
<1>2. ASSUME NEW c \in Case, Live(cases'[c].status)
      PROVE  Live(cases[c].status) \/ Opened(c)
  <2>1. Effect(c)
    BY StepEffect
  <2> QED BY <1>1, <1>2, <2>1, StatusEffect
<1> SUFFICES ASSUME NEW c1 \in Case, NEW c2 \in Case,
                    CaseOrder[c1] = CaseOrder[c2],
                    Live(cases'[c1].status), Live(cases'[c2].status),
                    c1 # c2
             PROVE  FALSE
  BY DEF OneActiveCasePerOrder
<1>3. ASSUME NEW c \in Case, NEW k \in Case, c # k, CaseOrder[c] = CaseOrder[k],
             Opened(c), Live(cases'[k].status)
      PROVE  FALSE
  <2>1. cases'[k] = cases[k]
    BY <1>3 DEF Opened
  <2>2. cases[k].status \in ActiveStatuses
    BY <1>1, <1>3, <2>1
  <2>3. k \in ActiveCases(CaseOrder[c])
    BY <1>3, <2>2 DEF ActiveCases, Active
  <2> QED BY <1>3, <2>3 DEF Opened
<1>4. Live(cases[c1].status) /\ Live(cases[c2].status)
  BY <1>2, <1>3
<1> QED BY <1>4 DEF OneActiveCasePerOrder

\* CaseCreationService: at every moment, an order has at most one case that is
\* not over, whatever events, decisions, executions and captures commit.
THEOREM OneActiveCase == Spec => []OneActiveCasePerOrder
<1>1. Init => OneActiveCasePerOrder
  BY DEF Init, OneActiveCasePerOrder, NoCase
<1>2. TypeOK /\ OneActiveCasePerOrder /\ [Next]_vars => OneActiveCasePerOrder'
  BY OneActiveInductive
<1> QED BY <1>1, <1>2, TypeCorrect, PTL DEF Spec

----------------------------------------------------------------------------
(* Recovery *)

\* The step that makes a case RECOVERED writes its outcome, and no later step
\* changes outcome, credit or currency.
LEMMA RecoveredInductive ==
  ASSUME TypeOK, RecoveredHasProof, [Next]_vars
  PROVE  RecoveredHasProof'
<1> SUFFICES ASSUME NEW c \in Case, cases'[c].status = "RECOVERED"
             PROVE  LET p == outcomes'[c].payment
                    IN  /\ p # NoPayment
                        /\ cases'[c].credited = p
                        /\ p \in Payment => /\ PayOrder[p] = CaseOrder[c]
                                           /\ (p \in Foreign) = cases'[c].foreign
  BY DEF RecoveredHasProof
<1>1. Effect(c)
  BY StepEffect
<1>2. CASE Settled(c)
  <2>1. PICK s \in Settler, link \in Nat :
          /\ s \in Payment => /\ PayOrder[s] = CaseOrder[c]
                             /\ (s \in Foreign) = cases[c].foreign
          /\ Verify(c, s, link)
    BY <1>2 DEF Settled
  <2>2. outcomes'[c].payment = s
    BY <2>1 DEF Verify, TypeOK
  <2>3. cases'[c].credited = s /\ cases'[c].foreign = cases[c].foreign
    BY <2>1, VerifyStatus
  <2>4. s # NoPayment
    BY CaseAssumption DEF Settler
  <2> QED BY <2>1, <2>2, <2>3, <2>4
<1>3. CASE ~Settled(c)
  <2>1. /\ cases'[c].status = cases[c].status
        /\ cases'[c].credited = cases[c].credited
        /\ cases'[c].foreign = cases[c].foreign
        /\ outcomes'[c] = outcomes[c]
    BY <1>1, <1>3, StatusEffect DEF ActiveStatuses
  <2> QED BY <2>1 DEF RecoveredHasProof
<1> QED BY <1>2, <1>3

\* VerificationService: a case is RECOVERED only with an outcome that names the
\* payment it was credited with, of its own order and currency.
THEOREM RecoveryIsProven == Spec => []RecoveredHasProof
<1>1. Init => RecoveredHasProof
  BY DEF Init, RecoveredHasProof, NoCase
<1>2. TypeOK /\ RecoveredHasProof /\ [Next]_vars => RecoveredHasProof'
  BY RecoveredInductive
<1> QED BY <1>1, <1>2, TypeCorrect, PTL DEF Spec

\* Of services that work on a case one after another none touches a case that is
\* over: neither status, credit, attempts, decisions nor outcome.  Services that
\* read the case before it was over are out of this theorem's reach.
THEOREM TerminalForGoodInTurn == Spec => TerminalIsFinalInTurn
<1>1. ASSUME TypeOK, RecoveredOnly, [Next]_vars,
             NEW c \in Case, cases[c].status \in TerminalStatuses
      PROVE  /\ cases'[c].status = cases[c].status
             /\ cases'[c].credited = cases[c].credited
             /\ attempts'[c] = attempts[c]
             /\ decisions'[c] = decisions[c]
             /\ outcomes'[c] = outcomes[c]
  <2>1. cases[c].status = "RECOVERED" /\ cases[c].status \notin ActiveStatuses
    BY <1>1 DEF RecoveredOnly, TerminalStatuses, ActiveStatuses
  <2>2. Effect(c) /\ cases[c] \in CaseRow
    BY <1>1, StepEffect DEF TypeOK
  <2>3. ~Opened(c) /\ ~Settled(c) /\ ~Attempted(c) /\ ~Reassessed(c)
    BY <2>1 DEF Opened, Settled, Attempted, Active, Reassessed
  <2>4. ~Decided(c)
    BY <1>1, <2>1, DecisionStatus DEF Decided
  <2>5. Untouched(c)
    BY <2>2, <2>3, <2>4 DEF Effect
  <2> QED BY <2>2, <2>5 DEF Untouched, CaseRow
<1>2. TypeOK /\ RecoveredOnly /\ [Next]_vars =>
        [\A c \in Case : cases[c].status \in TerminalStatuses =>
           /\ cases'[c].status = cases[c].status
           /\ cases'[c].credited = cases[c].credited
           /\ attempts'[c] = attempts[c]
           /\ decisions'[c] = decisions[c]
           /\ outcomes'[c] = outcomes[c]]_vars
  BY <1>1
<1> QED BY <1>2, TypeCorrect, OnlyRecoveryEnds, PTL DEF Spec, TerminalIsFinalInTurn

=============================================================================
