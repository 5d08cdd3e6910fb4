------------------------- MODULE PolicyStudio_proofs -------------------------
(***************************************************************************)
(* For any merchants' policies, facts of cases, answers of the model and   *)
(* concurrent requests: what the pipeline authorises, and what the policy  *)
(* row and the audit chain keep of each other.                             *)
(*                                                                         *)
(* The first half is about operators only: the ranking has a best          *)
(* candidate, and the rules do with it one of a few things.  The second    *)
(* half carries that to the answers given, and shows that every version    *)
(* of the policy a request may be holding is whole.                        *)
(***************************************************************************)
EXTENDS PolicyStudio, SequenceTheorems, TLAPS

AnyModel == [Actions -> (0 .. 10000) \union {Unscored}]

----------------------------------------------------------------------------
(* Scores and values are numbers *)

LEMMA ProductIsNat == \A m, n \in Nat : m * n \in Nat
  OBVIOUS

LEMMA BaselineIsNat ==
  ASSUME NEW f \in CaseFacts, NEW a \in Actions
  PROVE  Baseline(a, f) \in Nat
<1> DEFINE factors == BaseProbability(a, f.category) * History(f) * Decay(f)
           n == (factors + 50) \div 100
<1>1. BaseProbability(a, f.category) \in Nat
  BY DEF BaseProbability
<1>2. History(f) \in Nat
  BY DEF History
<1>3. Decay(f) \in Nat
  BY DEF Decay, CaseFacts
<1>4. factors \in Nat
  BY <1>1, <1>2, <1>3, ProductIsNat
<1> HIDE DEF factors
<1>5. n \in Nat
  BY <1>4
<1>6. Baseline(a, f) =
        IF a = "DO_NOTHING" THEN IF f.transient THEN 500 ELSE 100
        ELSE IF f.category = "FRAUD_RISK_BLOCK" THEN 0
        ELSE n
  BY Zenon DEF Baseline, n, factors
<1> HIDE DEF n
<1> QED BY <1>5, <1>6

LEMMA ScoreIsNat ==
  ASSUME NEW model \in AnyModel, NEW f \in CaseFacts, NEW a \in Actions
  PROVE  Score(model, a, f) \in Nat
<1> DEFINE Points == 0 .. 10000
<1>1. \A n \in Points : n \in Nat
  OBVIOUS
<1>2. 0 \in Nat /\ Baseline(a, f) \in Nat
  BY BaselineIsNat
<1> HIDE DEF Points
<1>3. model \in [Actions -> Points \union {Unscored}]
  BY DEF AnyModel, Points
<1>4. model[a] = Unscored \/ model[a] \in Nat
  BY <1>1, <1>3, Zenon
<1> QED BY <1>2, <1>4, Zenon DEF Score

\* An expected value is an integer; that of doing nothing costs nothing.
LEMMA ValuesAreNumbers ==
  ASSUME NEW model \in AnyModel, NEW f \in CaseFacts, NEW a \in Actions
  PROVE  LET x == Valued(model, a, f)
         IN  /\ x.action = a /\ x.score \in Nat /\ x.erv \in Int
             /\ a = "DO_NOTHING" => x.erv >= 0
             /\ f.category = "FRAUD_RISK_BLOCK" => x.erv = 0 - Cost(a) - Risk(a, f)
<1> DEFINE score == Score(model, a, f)
           gross == Gross(score, f)
<1>1. score \in Nat /\ f.amount \in Nat
  BY ScoreIsNat DEF CaseFacts
<1>2. f.category = "FRAUD_RISK_BLOCK" => score = 0
  BY DEF Score
<1> HIDE DEF score
<1>3. score * f.amount \in Nat /\ (score = 0 => score * f.amount = 0)
  BY <1>1, ProductIsNat
<1>4. gross \in Nat /\ (score = 0 => gross = 0)
  BY <1>3 DEF Gross
<1> HIDE DEF gross
<1>5. Cost(a) \in Nat /\ Risk(a, f) \in Nat
  BY DEF Cost, Risk
<1>6. a = "DO_NOTHING" => Cost(a) = 0 /\ Risk(a, f) = 0
  BY DEF Cost, Risk
<1>7. Valued(model, a, f) =
        [action |-> a, score |-> score, erv |-> gross - Cost(a) - Risk(a, f)]
  BY Zenon DEF Valued, score, gross
<1> QED BY <1>1, <1>2, <1>4, <1>5, <1>6, <1>7

----------------------------------------------------------------------------
(* The ranking has a best candidate *)

Beats(model, f, a, b) == RanksBefore(Valued(model, a, f), Valued(model, b, f))

\* Ties are broken down to the action itself.
LEMMA RankingTotal ==
  ASSUME NEW model \in AnyModel, NEW f \in CaseFacts, NEW a \in Actions, NEW b \in Actions,
         a # b
  PROVE  Beats(model, f, a, b) \/ Beats(model, f, b, a)
<1> DEFINE x == Valued(model, a, f)
           y == Valued(model, b, f)
<1>1. /\ x.action = a /\ x.score \in Nat /\ x.erv \in Int
      /\ y.action = b /\ y.score \in Nat /\ y.erv \in Int
  BY ValuesAreNumbers
<1>2. /\ TieOrder(a) \in Nat /\ TieOrder(b) \in Nat /\ TieOrder(a) # TieOrder(b)
      /\ Cost(a) \in Nat /\ Cost(b) \in Nat
  BY DEF TieOrder, Cost, Actions
<1> HIDE DEF x, y
<1>3. RanksBefore(x, y) \/ RanksBefore(y, x)
  BY <1>1, <1>2 DEF RanksBefore
<1> QED BY <1>3 DEF Beats, x, y

LEMMA RankingTransitive ==
  ASSUME NEW model \in AnyModel, NEW f \in CaseFacts,
         NEW a \in Actions, NEW b \in Actions, NEW c \in Actions,
         Beats(model, f, a, b), Beats(model, f, b, c)
  PROVE  Beats(model, f, a, c)
<1> DEFINE x == Valued(model, a, f)
           y == Valued(model, b, f)
           z == Valued(model, c, f)
<1>1. /\ x.action = a /\ x.score \in Nat /\ x.erv \in Int
      /\ y.action = b /\ y.score \in Nat /\ y.erv \in Int
      /\ z.action = c /\ z.score \in Nat /\ z.erv \in Int
  BY ValuesAreNumbers
<1>2. \A d \in Actions : TieOrder(d) \in Nat /\ Cost(d) \in Nat
  BY DEF TieOrder, Cost, Actions
<1>3. RanksBefore(x, y) /\ RanksBefore(y, z)
  BY DEF Beats
<1> HIDE DEF x, y, z
<1>4. RanksBefore(x, z)
  BY <1>1, <1>2, <1>3 DEF RanksBefore
<1> QED BY <1>4 DEF Beats, x, y, z

\* The best of a set of actions, if any.
Leads(model, f, A, a) == a \in A /\ \A b \in A \ {a} : Beats(model, f, a, b)

LEMMA LeaderOfMore ==
  ASSUME NEW model \in AnyModel, NEW f \in CaseFacts, NEW A \in SUBSET Actions,
         NEW b \in Actions, A = {} \/ \E a \in A : Leads(model, f, A, a)
  PROVE  \E a \in A \union {b} : Leads(model, f, A \union {b}, a)
<1>1. CASE A = {}
  BY <1>1 DEF Leads
<1>2. CASE b \in A
  <2>1. A \union {b} = A
    BY <1>2
  <2> QED BY <1>2, <2>1
<1>3. CASE A # {} /\ b \notin A
  <2>1. PICK a \in A : Leads(model, f, A, a)
    BY <1>3
  <2>2. CASE Beats(model, f, a, b)
    BY <2>1, <2>2 DEF Leads
  <2>3. CASE Beats(model, f, b, a)
    <3>1. \A c \in A : Beats(model, f, b, c)
      BY <2>1, <2>3, RankingTransitive DEF Leads
    <3> QED BY <3>1 DEF Leads
  <2> QED BY <1>3, <2>2, <2>3, RankingTotal
<1> QED BY <1>1, <1>2, <1>3

\* Action by action, every set of actions that is not empty has a best one.
LEMMA LeaderExists ==
  ASSUME NEW model \in AnyModel, NEW f \in CaseFacts, NEW A \in SUBSET Actions, A # {}
  PROVE  \E a \in A : Leads(model, f, A, a)
<1> DEFINE Led(S) == S = {} \/ \E a \in S : Leads(model, f, S, a)
           A1 == A \intersect {"PAYMENT_LINK"}
           A2 == A \intersect {"PAYMENT_LINK", "CUSTOMER_REMINDER"}
           A3 == A \intersect {"PAYMENT_LINK", "CUSTOMER_REMINDER", "WAIT_AND_REASSESS"}
           A4 == A \intersect {"PAYMENT_LINK", "CUSTOMER_REMINDER", "WAIT_AND_REASSESS",
                               "HUMAN_ESCALATION"}
<1>1. \A S \in SUBSET Actions : \A b \in Actions : Led(S) => Led(S \union {b})
  BY LeaderOfMore
<1>2. Led({})
  OBVIOUS
<1> HIDE DEF Led
<1>3. /\ A1 = {} \/ A1 = {} \union {"PAYMENT_LINK"}
      /\ A2 = A1 \/ A2 = A1 \union {"CUSTOMER_REMINDER"}
      /\ A3 = A2 \/ A3 = A2 \union {"WAIT_AND_REASSESS"}
      /\ A4 = A3 \/ A4 = A3 \union {"HUMAN_ESCALATION"}
      /\ A = A4 \/ A = A4 \union {"DO_NOTHING"}
  BY DEF Actions
<1>4. /\ A1 \in SUBSET Actions /\ A2 \in SUBSET Actions /\ A3 \in SUBSET Actions
      /\ A4 \in SUBSET Actions /\ {} \in SUBSET Actions
  BY DEF Actions
<1>5. /\ "PAYMENT_LINK" \in Actions /\ "CUSTOMER_REMINDER" \in Actions
      /\ "WAIT_AND_REASSESS" \in Actions /\ "HUMAN_ESCALATION" \in Actions
      /\ "DO_NOTHING" \in Actions
  BY DEF Actions
<1> HIDE DEF A1, A2, A3, A4
<1>6. Led(A1)
  BY <1>1, <1>2, <1>3, <1>4, <1>5
<1>7. Led(A2)
  BY <1>1, <1>3, <1>4, <1>5, <1>6
<1>8. Led(A3)
  BY <1>1, <1>3, <1>4, <1>5, <1>7
<1>9. Led(A4)
  BY <1>1, <1>3, <1>4, <1>5, <1>8
<1>10. Led(A)
  BY <1>1, <1>3, <1>4, <1>5, <1>9
<1> QED BY <1>10 DEF Led

\* The head of the ranking is one of the actions, and brings the most.
LEMMA BestIsBest ==
  ASSUME NEW model \in AnyModel, NEW f \in CaseFacts, NEW A \in SUBSET Actions, A # {}
  PROVE  LET best == Best({Valued(model, a, f) : a \in A})
         IN  /\ best.action \in A
             /\ \A a \in A : Valued(model, a, f).erv <= Valued(model, best.action, f).erv
<1> DEFINE results == {Valued(model, a, f) : a \in A}
           best == Best(results)
<1>1. PICK a \in A : Leads(model, f, A, a)
  BY LeaderExists
<1>2. \E x \in results : \A y \in results \ {x} : RanksBefore(x, y)
  <2>1. Valued(model, a, f) \in results
    OBVIOUS
  <2>2. \A y \in results \ {Valued(model, a, f)} : RanksBefore(Valued(model, a, f), y)
    BY <1>1 DEF Leads, Beats
  <2> QED BY <2>1, <2>2
<1>3. best \in results /\ \A y \in results \ {best} : RanksBefore(best, y)
  <2> HIDE DEF results
  <2> QED BY <1>2, Zenon DEF Best
<1>4. PICK b \in A : best = Valued(model, b, f)
  BY <1>3
<1>5. best.action = b
  BY <1>4, ValuesAreNumbers
<1>6. ASSUME NEW c \in A
      PROVE  Valued(model, c, f).erv <= Valued(model, b, f).erv
  <2>1. /\ Valued(model, c, f).erv \in Int /\ Valued(model, b, f).erv \in Int
    BY ValuesAreNumbers
  <2>2. CASE Valued(model, c, f) = best
    BY <1>4, <2>1, <2>2
  <2>3. CASE Valued(model, c, f) # best
    <3>1. RanksBefore(Valued(model, b, f), Valued(model, c, f))
      BY <1>3, <1>4, <2>3
    <3> QED BY <2>1, <3>1 DEF RanksBefore
  <2> QED BY <2>2, <2>3
<1> HIDE DEF best, results
<1> QED BY <1>4, <1>5, <1>6 DEF best, results

----------------------------------------------------------------------------
(* Candidates and rules *)

\* What may be proposed: never a disallowed action, unless nothing else is left.
LEMMA ProposableActions ==
  ASSUME NEW p \in Policy, NEW f \in CaseFacts
  PROVE  LET open == Proposable(p, f)
         IN  /\ open \in SUBSET Actions /\ open # {}
             /\ \A a \in open : a \in p.disallowed => open = {"DO_NOTHING"}
             /\ "DO_NOTHING" \notin p.disallowed => "DO_NOTHING" \in open
             /\ "CUSTOMER_REMINDER" \in open => f.link
             /\ f.category = "FRAUD_RISK_BLOCK" =>
                  "PAYMENT_LINK" \notin open /\ "WAIT_AND_REASSESS" \notin open
<1> DEFINE g == EngineFacts(p, f)
           eligible(a) == Engine(p, f.limit)!Eligible(a, g)
           open == {a \in Actions \ p.disallowed : eligible(a)}
<1>1. Proposable(p, f) = IF open = {} THEN {"DO_NOTHING"} ELSE open
  BY DEF Proposable, Engine!Candidates, Engine!Actions, Actions
<1>2. g.link = f.link /\ g.category = EngineCategory(f)
  BY DEF EngineFacts
<1>3. /\ eligible("DO_NOTHING")
      /\ eligible("CUSTOMER_REMINDER") => f.link
      /\ f.category = "FRAUD_RISK_BLOCK" =>
           ~eligible("PAYMENT_LINK") /\ ~eligible("WAIT_AND_REASSESS")
  BY <1>2 DEF Engine!Eligible, Engine!ReminderPossible, Engine!LinkPossible,
              Engine!WaitPossible, EngineCategory
<1> HIDE DEF g, eligible
<1>4. "DO_NOTHING" \in Actions
  BY DEF Actions
<1> QED BY <1>1, <1>3, <1>4

\* The rules as they read the facts of a case that is still active, when the only
\* fallback is to do nothing.
Ruled(p, f, proposed) ==
  IF f.expired \/ f.count >= p.attempts
    THEN [verdict |-> "MODIFIED", action |-> "DO_NOTHING"]
  ELSE IF Cooling(p, f) /\ proposed \notin {"WAIT_AND_REASSESS", "DO_NOTHING"}
    THEN [verdict |-> "MODIFIED", action |-> "WAIT_AND_REASSESS"]
  ELSE IF f.category = "FRAUD_RISK_BLOCK" /\ proposed # "DO_NOTHING"
    THEN [verdict |-> "REJECTED", action |-> "DO_NOTHING"]
  ELSE IF proposed = "CUSTOMER_REMINDER" /\ ~f.link
    THEN [verdict |-> "MODIFIED", action |-> "PAYMENT_LINK"]
  ELSE IF High(p, f) /\ proposed # "HUMAN_ESCALATION"
    THEN [verdict |-> "ESCALATED", action |-> "HUMAN_ESCALATION"]
  ELSE IF proposed \in p.disallowed
    THEN [verdict |-> "MODIFIED", action |-> "DO_NOTHING"]
  ELSE [verdict |-> "APPROVED", action |-> proposed]

LEMMA RulesReadFacts ==
  ASSUME NEW p \in Policy, NEW f, f.status \in ActiveStatuses, NEW limit, NEW proposed
  PROVE  Engine(p, limit)!Evaluate(proposed, EngineFacts(p, f), "DO_NOTHING")
           = Ruled(p, f, proposed)
<1> DEFINE g == EngineFacts(p, f)
<1>1. /\ g.status = f.status /\ g.expired = f.expired /\ g.count = f.count
      /\ g.cooling = Cooling(p, f) /\ g.category = EngineCategory(f)
      /\ g.link = f.link /\ g.high = High(p, f)
  BY DEF EngineFacts
<1>2. g.status \notin Engine(p, limit)!TerminalStatuses
  BY <1>1 DEF Engine!TerminalStatuses, ActiveStatuses
<1>3. g.category = "FRAUD" <=> f.category = "FRAUD_RISK_BLOCK"
  BY <1>1 DEF EngineCategory
<1> HIDE DEF g
<1>4. Engine(p, limit)!Evaluate(proposed, g, "DO_NOTHING") = Ruled(p, f, proposed)
  BY <1>1, <1>2, <1>3 DEF Engine!Evaluate, Engine!Ruling, Ruled
<1> QED BY <1>4 DEF g

LEMMA RulingIsTyped ==
  ASSUME NEW p, NEW f, NEW proposed \in Actions
  PROVE  Ruled(p, f, proposed) \in Ruling
BY DEF Ruled, Ruling, Verdicts, Actions

\* Either service proposes a candidate; DecisionService one that brings the most.
LEMMA ProposalsAreCandidates ==
  ASSUME NEW model \in AnyModel, NEW p \in Policy, NEW f \in CaseFacts, NEW service,
         NEW proposed \in Proposals(service, model, p, f)
  PROVE  /\ proposed \in Proposable(p, f)
         /\ service = "DecisionService" =>
              \A a \in Proposable(p, f) :
                Valued(model, a, f).erv <= Valued(model, proposed, f).erv
<1> DEFINE best == Best(Ranked(model, p, f)).action
<1>1. /\ best \in Proposable(p, f)
      /\ \A a \in Proposable(p, f) :
           Valued(model, a, f).erv <= Valued(model, best, f).erv
  BY ProposableActions, BestIsBest DEF Ranked
<1>2. IF service = "DecisionService" THEN proposed = best ELSE proposed \in Proposable(p, f)
  BY DEF Proposals
<1> HIDE DEF best
<1> QED BY <1>1, <1>2

\* What the pipeline decides: the rules applied to the proposal, whatever model
\* ranked the candidates.  Rule 8 never has another action to fall back to.
LEMMA DecisionIsRuled ==
  ASSUME NEW model, NEW p \in Policy, NEW f \in CaseFacts,
         NEW proposed \in Proposable(p, f)
  PROVE  Decision(model, p, f, proposed) = Ruled(p, f, proposed)
<1> DEFINE ranked == Ranked(model, p, f)
           fallback == FallbackAction(p, proposed, ranked)
           g == EngineFacts(p, f)
<1>1. Decision(model, p, f, proposed) = Engine(p, f.limit)!Evaluate(proposed, g, fallback)
  BY DEF Decision
<1>2. proposed \in p.disallowed => fallback = "DO_NOTHING"
  <2>1. HAVE proposed \in p.disallowed
  <2>2. Proposable(p, f) = {"DO_NOTHING"} /\ proposed = "DO_NOTHING"
    BY <2>1, ProposableActions
  <2>3. \A x \in ranked : x.action = "DO_NOTHING"
    BY <2>2 DEF Ranked, Valued
  <2> HIDE DEF ranked
  <2> QED BY <2>2, <2>3 DEF FallbackAction
<1> HIDE DEF ranked, fallback, g
<1>3. Engine(p, f.limit)!Evaluate(proposed, g, fallback)
        = Engine(p, f.limit)!Evaluate(proposed, g, "DO_NOTHING")
  BY <1>2 DEF Engine!Evaluate
<1>4. Engine(p, f.limit)!Evaluate(proposed, g, "DO_NOTHING") = Ruled(p, f, proposed)
  BY RulesReadFacts DEF g, CaseFacts
<1> QED BY <1>1, <1>3, <1>4

\* A preview is the same rules on a fresh case.
LEMMA PreviewIsRuled ==
  ASSUME NEW p \in Policy, NEW f \in CaseFacts, NEW a
  PROVE  LET g == PreviewFacts(p, f)
         IN  /\ Preview(p, f, a) = Ruled(p, g, a)
             /\ ~g.expired /\ ~Cooling(p, g) /\ ~g.link
             /\ g.count = f.count /\ g.amount = f.amount /\ g.category = f.category
<1> DEFINE g == PreviewFacts(p, f)
<1>1. DOMAIN f = {"status", "expired", "count", "limit", "since", "category", "transient",
                  "link", "amount", "wins", "losses", "recoveries", "vip"}
  BY DEF CaseFacts
<1>2. /\ g.status = "DIAGNOSING" /\ g.expired = FALSE /\ g.since = p.cooldown
      /\ g.link = FALSE
  BY <1>1 DEF PreviewFacts
<1>3. g.count = f.count /\ g.amount = f.amount /\ g.category = f.category
  BY <1>1 DEF PreviewFacts
<1> HIDE DEF g
<1>4. ~Cooling(p, g)
  BY <1>2 DEF Cooling, Policy
<1>5. Engine(p, g.limit)!Evaluate(a, EngineFacts(p, g), "DO_NOTHING") = Ruled(p, g, a)
  BY <1>2, RulesReadFacts DEF ActiveStatuses
<1>6. Preview(p, f, a) = Ruled(p, g, a)
  BY <1>5 DEF Preview, g
<1> QED BY <1>2, <1>3, <1>4, <1>6 DEF g

----------------------------------------------------------------------------
(* Types *)

Entry == [version : Nat, policy : ArchivedPolicy]

Row == [version : Nat, policy : Policy, history : Seq(Entry)]

VersionCreated == [version : Nat, policy : Policy]

Points == {"idle", "absent", "loaded", "flushed", "done"}

DecisionAnswer(p, f, model, service, a) ==
  [kind |-> "decision", policy |-> p, facts |-> f, model |-> model, by |-> service,
   proposed |-> a, ruling |-> Decision(model, p, f, a)]

PreviewAnswer(p, f, a) ==
  [kind |-> "preview", policy |-> p, facts |-> f, proposed |-> a, ruling |-> Preview(p, f, a)]

Decisions ==
  {DecisionAnswer(p, f, model, service, a) :
     p \in Policy, f \in CaseFacts, model \in AnyModel, service \in Services, a \in Actions}

\* The decisions that answer a proposal of their service.
Proper(x) == x.proposed \in Proposals(x.by, x.model, x.policy, x.facts)

Previews == {PreviewAnswer(p, f, a) : p \in Policy, f \in CaseFacts, a \in Actions}

\* The rows a request holds are typed like the committed one, and an answer is the
\* outcome of a decision or of a preview, for an evaluation of a proper decision.
StudioTyped ==
  /\ config \in Row
  /\ audit \in Seq(VersionCreated)
  /\ holder \in Request \union {NoOne}
  /\ pc \in [Actor -> Points]
  /\ seen \in [Request -> Row]
  /\ answer \in [Actor -> {Unanswered} \union Decisions \union Previews]
  /\ \A v \in Evaluation :
       answer[v] # Unanswered => answer[v] \in Decisions /\ Proper(answer[v])
  /\ \A r \in Request : answer[r] # Unanswered => answer[r] \in Previews

LEMMA DefaultsAreTyped ==
  DefaultPolicy \in Policy /\ Absent \in Row /\ DefaultConfig \in Row
<1>1. DefaultPolicy \in Policy
  BY DEF DefaultPolicy, Policy
<1>2. <<>> \in Seq(Entry)
  OBVIOUS
<1> QED BY <1>1, <1>2 DEF Absent, DefaultConfig, Row

LEMMA NewConfigIsTyped ==
  ASSUME NEW u, seen[u] \in Row, NEW p \in Policy
  PROVE  NewConfig(u, p) \in Row /\ ArchiveEntry(u, p) \in Entry
<1>1. \A q \in Policy : Archived(q) \in ArchivedPolicy
  BY DEF Archived, ArchivedPolicy, Policy
<1>2. seen[u].policy \in Policy
  BY DEF Row
<1>3. Archived(seen[u].policy) \in ArchivedPolicy
  BY <1>1, <1>2, Zenon
<1>4. ArchiveEntry(u, p) \in Entry
  BY <1>3 DEF ArchiveEntry, Entry, Row
<1>5. seen[u].history \in Seq(Entry) /\ seen[u].version \in Nat
  BY DEF Row
<1> HIDE DEF Entry
<1>6. Append(seen[u].history, ArchiveEntry(u, p)) \in Seq(Entry)
  BY <1>4, <1>5
<1> QED BY <1>4, <1>5, <1>6 DEF NewConfig, NewVersion, Row

LEMMA ActorsApart ==
  /\ \A r \in Request : r \in Actor /\ r \notin Evaluation
  /\ \A v \in Evaluation : v \in Actor
  /\ \A u \in Update : u \in Request
  /\ \A r \in Reader : r \in Request
  /\ Policies \subseteq Policy
BY StudioAssumption DEF Request, Actor

\* Every action keeps the types.
LEMMA StudioTypedInductive ==
  ASSUME StudioTyped, [Next]_vars
  PROVE  StudioTyped'
<1>1. ASSUME NEW r \in Request, Load(r)
      PROVE  StudioTyped'
  <2>1. seen' \in [Request -> Row]
    BY <1>1, DefaultsAreTyped DEF Load, StudioTyped
  <2>2. pc' \in [Actor -> Points]
    BY <1>1, ActorsApart DEF Load, At, StudioTyped, Points
  <2> QED BY <1>1, <2>1, <2>2 DEF Load, StudioTyped
<1>2. ASSUME NEW r \in Request, Create(r) \/ Abort(r)
      PROVE  StudioTyped'
  <2>1. pc' \in [Actor -> Points]
    BY <1>2, ActorsApart DEF Create, Abort, At, StudioTyped, Points
  <2>2. holder' \in Request \union {NoOne}
    BY <1>2 DEF Create, Abort, Release, StudioTyped
  <2> QED BY <1>2, <2>1, <2>2 DEF Create, Abort, StudioTyped
<1>3. ASSUME NEW u \in Update, Flush(u)
      PROVE  StudioTyped'
  <2>1. pc' \in [Actor -> Points]
    BY <1>3, ActorsApart DEF Flush, At, StudioTyped, Points
  <2>2. holder' \in Request \union {NoOne}
    BY <1>3, ActorsApart DEF Flush
  <2> QED BY <1>3, <2>1, <2>2 DEF Flush, StudioTyped
<1>4. ASSUME NEW u \in Update, Commit(u)
      PROVE  StudioTyped'
  <2>1. PICK p \in Policy :
          /\ config' = NewConfig(u, p)
          /\ audit' = Append(audit, [version |-> NewVersion(u), policy |-> p])
    BY <1>4, ActorsApart DEF Commit
  <2>2. seen[u] \in Row
    BY ActorsApart DEF StudioTyped
  <2>3. config' \in Row
    BY <2>1, <2>2, NewConfigIsTyped
  <2>4. [version |-> NewVersion(u), policy |-> p] \in VersionCreated
    BY <2>2 DEF NewVersion, VersionCreated, Row
  <2> HIDE DEF VersionCreated
  <2>5. audit' \in Seq(VersionCreated)
    BY <2>1, <2>4 DEF StudioTyped
  <2>6. pc' \in [Actor -> Points]
    BY <1>4, ActorsApart DEF Commit, At, StudioTyped, Points
  <2>7. holder' \in Request \union {NoOne}
    BY <1>4 DEF Commit, Release, StudioTyped
  <2> QED BY <1>4, <2>3, <2>5, <2>6, <2>7 DEF Commit, StudioTyped
<1>5. ASSUME NEW r \in Reader, AnswerReader(r)
      PROVE  StudioTyped'
  <2>1. PICK p \in Policies \union {seen[r].policy}, f \in Previewed, a \in Actions :
          answer' = [answer EXCEPT ![r] = PreviewAnswer(p, f, a)]
    BY <1>5 DEF AnswerReader, PreviewAnswer
  <2>2. p \in Policy /\ f \in CaseFacts
    BY ActorsApart, StudioAssumption DEF StudioTyped, Row
  <2>3. PreviewAnswer(p, f, a) \in Previews
    BY <2>2 DEF Previews
  <2>4. /\ answer' \in [Actor -> {Unanswered} \union Decisions \union Previews]
        /\ \A v \in Evaluation : answer'[v] = answer[v]
        /\ \A q \in Request : answer'[q] # Unanswered => answer'[q] \in Previews
    BY <2>1, <2>3, ActorsApart DEF StudioTyped
  <2>5. pc' \in [Actor -> Points]
    BY <1>5, ActorsApart DEF AnswerReader, At, StudioTyped, Points
  <2>6. holder' \in Request \union {NoOne}
    BY <1>5 DEF AnswerReader, Release, StudioTyped
  <2> QED BY <1>5, <2>4, <2>5, <2>6 DEF AnswerReader, StudioTyped
<1>6. ASSUME NEW v \in Evaluation, Evaluate(v)
      PROVE  StudioTyped'
  <2>1. PICK p \in Policies \union {DefaultPolicy}, f \in Facts, model \in Models,
             service \in Services :
          \E a \in Proposals(service, model, p, f) :
            answer' = [answer EXCEPT ![v] = DecisionAnswer(p, f, model, service, a)]
    BY <1>6 DEF Evaluate, DecisionAnswer
  <2>2. p \in Policy /\ f \in CaseFacts /\ model \in AnyModel
    BY ActorsApart, DefaultsAreTyped, StudioAssumption DEF AnyModel
  <2>3. PICK a \in Proposals(service, model, p, f) :
          answer' = [answer EXCEPT ![v] = DecisionAnswer(p, f, model, service, a)]
    BY <2>1
  <2>4. a \in Actions
    BY <2>2, ProposalsAreCandidates, ProposableActions
  <2>5. DecisionAnswer(p, f, model, service, a) \in Decisions
    BY <2>2, <2>4 DEF Decisions
  <2>6. Proper(DecisionAnswer(p, f, model, service, a))
    BY DEF Proper, DecisionAnswer
  <2>7. /\ answer' \in [Actor -> {Unanswered} \union Decisions \union Previews]
        /\ answer'[v] = DecisionAnswer(p, f, model, service, a)
        /\ \A w \in Actor \ {v} : answer'[w] = answer[w]
    BY <2>3, <2>5, ActorsApart DEF StudioTyped
  <2> HIDE DEF Proper, DecisionAnswer
  <2>8. /\ \A w \in Evaluation :
             answer'[w] # Unanswered => answer'[w] \in Decisions /\ Proper(answer'[w])
        /\ \A q \in Request : answer'[q] # Unanswered => answer'[q] \in Previews
    BY <2>5, <2>6, <2>7, ActorsApart DEF StudioTyped
  <2>9. \A w \in Evaluation : Proper(answer[w])' <=> Proper(answer'[w])
    BY DEF Proper
  <2>10. pc' \in [Actor -> Points]
    BY <1>6, ActorsApart DEF Evaluate, At, StudioTyped, Points
  <2> QED BY <1>6, <2>7, <2>8, <2>9, <2>10 DEF Evaluate, StudioTyped
<1>7. CASE UNCHANGED vars
  BY <1>7 DEF vars, StudioTyped
<1> QED BY <1>1, <1>2, <1>3, <1>4, <1>5, <1>6, <1>7 DEF Next

LEMMA StudioAlwaysTyped == Spec => []StudioTyped
<1>1. Init => StudioTyped
  <2> SUFFICES ASSUME Init
               PROVE  StudioTyped
    OBVIOUS
  <2>1. audit \in Seq(VersionCreated)
    BY DEF Init
  <2>2. pc \in [Actor -> Points]
    BY DEF Init, Points
  <2>3. config \in Row /\ seen \in [Request -> Row]
    BY DefaultsAreTyped DEF Init
  <2>4. answer \in [Actor -> {Unanswered}] /\ \A r \in Actor : answer[r] = Unanswered
    BY ActorsApart DEF Init
  <2> HIDE DEF Init
  <2>5. answer \in [Actor -> {Unanswered} \union Decisions \union Previews]
    BY <2>4, Zenon
  <2>6. holder = NoOne
    BY DEF Init
  <2>7. /\ \A v \in Evaluation :
             answer[v] # Unanswered => answer[v] \in Decisions /\ Proper(answer[v])
        /\ \A r \in Request : answer[r] # Unanswered => answer[r] \in Previews
    BY <2>4, ActorsApart
  <2>8. holder \in Request \union {NoOne}
    BY <2>6
  <2> HIDE DEF Decisions, Previews, Proper
  <2> QED BY <2>1, <2>2, <2>3, <2>5, <2>7, <2>8 DEF StudioTyped
<1>2. StudioTyped /\ [Next]_vars => StudioTyped'
  BY StudioTypedInductive
<1> QED BY <1>1, <1>2, PTL DEF Spec

\* An evaluation's answer is a decision: of typed facts, under some policy, on a
\* proposal of one of the two services.
LEMMA DecidedIsDecision ==
  ASSUME StudioTyped, NEW v \in Decided
  PROVE  \E p \in Policy, f \in CaseFacts, model \in AnyModel :
           /\ answer[v].policy = p /\ answer[v].facts = f /\ answer[v].model = model
           /\ answer[v].proposed \in Proposable(p, f)
           /\ answer[v].by = "DecisionService" =>
                \A a \in Proposable(p, f) :
                  Valued(model, a, f).erv <= Valued(model, answer[v].proposed, f).erv
           /\ answer[v].ruling = Ruled(p, f, answer[v].proposed)
<1>1. answer[v] \in Decisions /\ Proper(answer[v])
  BY DEF StudioTyped, Decided
<1>2. PICK p \in Policy, f \in CaseFacts, model \in AnyModel, service \in Services,
           a \in Actions :
        answer[v] = DecisionAnswer(p, f, model, service, a)
  BY <1>1 DEF Decisions
<1>3. /\ a \in Proposals(service, model, p, f)
      /\ answer[v].policy = p /\ answer[v].facts = f /\ answer[v].model = model
      /\ answer[v].by = service /\ answer[v].proposed = a
      /\ answer[v].ruling = Decision(model, p, f, a)
  BY <1>1, <1>2 DEF DecisionAnswer, Proper
<1> QED BY <1>3, ProposalsAreCandidates, DecisionIsRuled

\* Every reachable state is well-typed; a ruling authorises one of the actions.
THEOREM StudioTypeCorrect == Spec => []TypeOK
<1>1. ASSUME StudioTyped
      PROVE  TypeOK
  <2>1. \A x \in Previews : x.proposed \in Actions /\ x.ruling \in Ruling
    <3>1. ASSUME NEW p \in Policy, NEW f \in CaseFacts, NEW a \in Actions
          PROVE  /\ PreviewAnswer(p, f, a).proposed \in Actions
                 /\ PreviewAnswer(p, f, a).ruling \in Ruling
      BY PreviewIsRuled, RulingIsTyped DEF PreviewAnswer
    <3> QED BY <3>1 DEF Previews
  <2>2. ASSUME NEW r \in Actor, answer[r] # Unanswered
        PROVE  answer[r].proposed \in Actions /\ answer[r].ruling \in Ruling
    <3>1. CASE r \in Request
      BY <1>1, <2>1, <2>2, <3>1 DEF StudioTyped
    <3>2. CASE r \in Evaluation
      <4>1. r \in Decided
        BY <2>2, <3>2 DEF Decided
      <4> QED BY <1>1, <4>1, DecidedIsDecision, ProposableActions, RulingIsTyped
    <3> QED BY <3>1, <3>2 DEF Actor
  <2>3. \A i \in DOMAIN config.history : config.history[i] \in Entry
    BY <1>1 DEF StudioTyped, Row
  <2> QED BY <1>1, <2>2, <2>3 DEF StudioTyped, TypeOK, Row, Entry, VersionCreated, Points
<1> QED BY <1>1, StudioAlwaysTyped, PTL

----------------------------------------------------------------------------
(* What is authorised *)

\* Whichever service decides, a case blocked for fraud is left alone or handed to a
\* human, or waits in a cooldown; the last only if a reminder or an escalation was
\* proposed, which DecisionService never does while doing nothing is allowed.
THEOREM FraudIsNotContacted == Spec => []FraudNotContacted
<1>1. ASSUME StudioTyped
      PROVE  FraudNotContacted
  <2> SUFFICES ASSUME NEW v \in Decided, answer[v].facts.category = "FRAUD_RISK_BLOCK"
      PROVE  \/ Authorized(v) \in {"DO_NOTHING", "HUMAN_ESCALATION"}
             \/ /\ Authorized(v) = "WAIT_AND_REASSESS"
                /\ Cooling(answer[v].policy, answer[v].facts)
                /\ answer[v].by = "DecisionService" =>
                     "DO_NOTHING" \in answer[v].policy.disallowed
    BY DEF FraudNotContacted
  <2>1. PICK p \in Policy, f \in CaseFacts, model \in AnyModel :
          /\ answer[v].policy = p /\ answer[v].facts = f /\ answer[v].model = model
          /\ answer[v].proposed \in Proposable(p, f)
          /\ answer[v].by = "DecisionService" =>
               \A a \in Proposable(p, f) :
                 Valued(model, a, f).erv <= Valued(model, answer[v].proposed, f).erv
          /\ answer[v].ruling = Ruled(p, f, answer[v].proposed)
    BY <1>1, DecidedIsDecision
  <2> DEFINE a == answer[v].proposed
  <2>2. a \in Actions /\ a \notin {"PAYMENT_LINK", "WAIT_AND_REASSESS"}
    BY <2>1, ProposableActions
  <2>3. ASSUME answer[v].by = "DecisionService", "DO_NOTHING" \notin p.disallowed
        PROVE  a = "DO_NOTHING"
    <3>1. Valued(model, a, f).erv >= 0
      <4>1. "DO_NOTHING" \in Proposable(p, f)
        BY <2>3, ProposableActions
      <4>2. /\ Valued(model, "DO_NOTHING", f).erv \in Int /\ Valued(model, a, f).erv \in Int
            /\ Valued(model, "DO_NOTHING", f).erv >= 0
        BY <2>2, ValuesAreNumbers DEF Actions
      <4>3. Valued(model, "DO_NOTHING", f).erv <= Valued(model, a, f).erv
        BY <2>1, <2>3, <4>1
      <4> QED BY <4>2, <4>3
    <3>2. Valued(model, a, f).erv = 0 - Cost(a) - Risk(a, f)
      BY <2>1, <2>2, ValuesAreNumbers
    <3>3. a \in {"CUSTOMER_REMINDER", "HUMAN_ESCALATION"} => Cost(a) > 0
      BY DEF Cost
    <3>4. Cost(a) \in Nat /\ Risk(a, f) \in Nat
      BY DEF Cost, Risk
    <3> HIDE DEF a
    <3> QED BY <2>2, <3>1, <3>2, <3>3, <3>4 DEF Actions
  <2>4. a = "DO_NOTHING" => Authorized(v) \in {"DO_NOTHING", "HUMAN_ESCALATION"}
    BY <2>1 DEF Authorized, Ruled
  <2>5. \/ Authorized(v) = "DO_NOTHING" \/ a = "DO_NOTHING"
        \/ Authorized(v) = "WAIT_AND_REASSESS" /\ Cooling(p, f)
    BY <2>1, <2>2 DEF Authorized, Ruled
  <2> QED BY <2>1, <2>3, <2>4, <2>5
<1> QED BY <1>1, StudioAlwaysTyped, PTL

\* No rule makes a link or a reminder of another action, and DecisionService proposes
\* one only where it is expected to bring at least as much as any other candidate,
\* and never at an expected loss where doing nothing is allowed.
THEOREM MoneyGoesWhereProposed == Spec => []SpendsAsProposed
<1>1. ASSUME StudioTyped
      PROVE  SpendsAsProposed
  <2> SUFFICES ASSUME NEW v \in Decided, Authorized(v) \in Contacting
      PROVE  LET a == answer[v]
                 erv(x) == Valued(a.model, x, a.facts).erv
             IN  /\ Authorized(v) = a.proposed
                 /\ a.proposed \in Proposable(a.policy, a.facts)
                 /\ a.by = "DecisionService" =>
                      /\ \A x \in Proposable(a.policy, a.facts) : erv(x) <= erv(a.proposed)
                      /\ "DO_NOTHING" \notin a.policy.disallowed => erv(a.proposed) >= 0
    BY DEF SpendsAsProposed
  <2>1. PICK p \in Policy, f \in CaseFacts, model \in AnyModel :
          /\ answer[v].policy = p /\ answer[v].facts = f /\ answer[v].model = model
          /\ answer[v].proposed \in Proposable(p, f)
          /\ answer[v].by = "DecisionService" =>
               \A a \in Proposable(p, f) :
                 Valued(model, a, f).erv <= Valued(model, answer[v].proposed, f).erv
          /\ answer[v].ruling = Ruled(p, f, answer[v].proposed)
    BY <1>1, DecidedIsDecision
  <2> DEFINE a == answer[v].proposed
  <2>2. a = "CUSTOMER_REMINDER" => f.link
    BY <2>1, ProposableActions
  <2>3. Authorized(v) = a
    BY <2>1, <2>2 DEF Authorized, Ruled, Contacting
  <2>4. a \in Actions
    BY <2>1, ProposableActions
  <2>5. answer[v].by = "DecisionService" /\ "DO_NOTHING" \notin p.disallowed
          => Valued(model, a, f).erv >= 0
    <3>1. /\ Valued(model, "DO_NOTHING", f).erv \in Int /\ Valued(model, a, f).erv \in Int
          /\ Valued(model, "DO_NOTHING", f).erv >= 0
      BY <2>4, ValuesAreNumbers DEF Actions
    <3>2. answer[v].by = "DecisionService" /\ "DO_NOTHING" \notin p.disallowed =>
            Valued(model, "DO_NOTHING", f).erv <= Valued(model, a, f).erv
      BY <2>1, ProposableActions
    <3> QED BY <3>1, <3>2
  <2> QED BY <2>1, <2>3, <2>5
<1> QED BY <1>1, StudioAlwaysTyped, PTL

\* The merchant's list of disallowed actions is overruled only by the rules that
\* rank above it, and never for a payment link or a reminder.
THEOREM DisallowedIsGuarded == Spec => []DisallowedOnlyByGuards
<1>1. ASSUME StudioTyped
      PROVE  DisallowedOnlyByGuards
  <2> SUFFICES ASSUME NEW v \in Decided, Authorized(v) \in answer[v].policy.disallowed
               PROVE  \/ Authorized(v) = "DO_NOTHING"
                      \/ /\ Authorized(v) = "WAIT_AND_REASSESS"
                         /\ Cooling(answer[v].policy, answer[v].facts)
                      \/ /\ Authorized(v) = "HUMAN_ESCALATION"
                         /\ High(answer[v].policy, answer[v].facts)
    BY DEF DisallowedOnlyByGuards
  <2>1. PICK p \in Policy, f \in CaseFacts :
          /\ answer[v].policy = p /\ answer[v].facts = f
          /\ answer[v].proposed \in Proposable(p, f)
          /\ answer[v].ruling = Ruled(p, f, answer[v].proposed)
    BY <1>1, DecidedIsDecision
  <2>2. answer[v].proposed = "CUSTOMER_REMINDER" => f.link
    BY <2>1, ProposableActions
  <2> QED BY <2>1, <2>2 DEF Authorized, Ruled
<1> QED BY <1>1, StudioAlwaysTyped, PTL

\* For what the pipeline proposes, other than a reminder, for a case that is neither
\* expired nor in a cooldown, the preview rules as the decision did.
THEOREM PreviewsForetell == Spec => []PreviewForetells
<1>1. ASSUME StudioTyped
      PROVE  PreviewForetells
  <2> SUFFICES ASSUME NEW v \in Decided, ~answer[v].facts.expired,
                      ~Cooling(answer[v].policy, answer[v].facts),
                      answer[v].proposed # "CUSTOMER_REMINDER"
               PROVE  Preview(answer[v].policy, answer[v].facts, answer[v].proposed)
                        = answer[v].ruling
    BY DEF PreviewForetells
  <2>1. PICK p \in Policy, f \in CaseFacts :
          answer[v].ruling = Ruled(p, f, answer[v].proposed)
          /\ answer[v].policy = p /\ answer[v].facts = f
    BY <1>1, DecidedIsDecision
  <2>2. answer[v].policy = p /\ answer[v].facts = f
    BY <2>1
  <2> DEFINE a == answer[v].proposed
             g == PreviewFacts(p, f)
  <2>3. /\ Preview(p, f, a) = Ruled(p, g, a)
        /\ ~g.expired /\ ~Cooling(p, g) /\ ~g.link
        /\ g.count = f.count /\ g.amount = f.amount /\ g.category = f.category
    BY PreviewIsRuled
  <2>4. High(p, g) <=> High(p, f)
    BY <2>3 DEF High
  <2> HIDE DEF a, g
  <2>5. Ruled(p, g, a) = Ruled(p, f, a)
    BY <2>2, <2>3, <2>4 DEF Ruled, a
  <2> QED BY <2>1, <2>2, <2>3, <2>5 DEF a
<1> QED BY <1>1, StudioAlwaysTyped, PTL

----------------------------------------------------------------------------
(* The history of the policy *)

Event(version, policy) == [version |-> version, policy |-> policy]

\* One entry for each version before a row's own, in order.
WholeHistory(row) ==
  /\ row.version >= 1
  /\ Len(row.history) = row.version - 1
  /\ \A i \in DOMAIN row.history : row.history[i].version = i

\* A policy of version 1 is the default one, a later one that of an event.
PolicyAudited(row, log) ==
  IF row.version = 1 THEN row.policy = DefaultPolicy
                     ELSE \E j \in DOMAIN log : log[j] = Event(row.version, row.policy)

EntryAudited(entry, log) ==
  IF entry.version = 1
    THEN entry.policy = Archived(DefaultPolicy)
    ELSE \E j \in DOMAIN log : /\ log[j].version = entry.version
                               /\ Archived(log[j].policy) = entry.policy

RowAudited(row, log) ==
  /\ PolicyAudited(row, log)
  /\ \A i \in DOMAIN row.history : EntryAudited(row.history[i], log)

\* Whatever row a request may compute a new version from is whole and audited.
HistoryInv ==
  /\ config # Absent => WholeHistory(config) /\ RowAudited(config, audit)
  /\ config # Absent => /\ audit # <<>>
                        /\ audit[Len(audit)] = Event(config.version, config.policy)
  /\ \A r \in Request : pc[r] \in {"absent", "loaded", "flushed"} =>
       WholeHistory(seen[r]) /\ RowAudited(seen[r], audit)

\* Another event takes nothing from what was audited.
LEMMA AuditGrows ==
  ASSUME NEW log \in Seq(VersionCreated), NEW e \in VersionCreated, NEW row,
         RowAudited(row, log)
  PROVE  RowAudited(row, Append(log, e))
<1>1. /\ DOMAIN log \subseteq DOMAIN Append(log, e)
      /\ \A j \in DOMAIN log : Append(log, e)[j] = log[j]
  <2> HIDE DEF VersionCreated
  <2> QED OBVIOUS
<1>2. PolicyAudited(row, Append(log, e))
  BY <1>1 DEF RowAudited, PolicyAudited
<1>3. \A i \in DOMAIN row.history : EntryAudited(row.history[i], Append(log, e))
  BY <1>1 DEF RowAudited, EntryAudited
<1> QED BY <1>2, <1>3 DEF RowAudited

\* The row and the log after an update of a row.
NextRow(row, p) ==
  [version |-> row.version + 1, policy |-> p,
   history |-> Append(row.history, [version |-> row.version, policy |-> Archived(row.policy)])]

NextLog(row, p, log) == Append(log, Event(row.version + 1, p))

\* A new version archives the one it replaces; nothing in between is missing.
LEMMA VersionFollows ==
  ASSUME NEW old \in Row, WholeHistory(old), NEW log \in Seq(VersionCreated),
         RowAudited(old, log), NEW p \in Policy
  PROVE  LET new == NextRow(old, p)
             newLog == NextLog(old, p, log)
         IN  /\ WholeHistory(new) /\ RowAudited(new, newLog)
             /\ newLog # <<>> /\ newLog[Len(newLog)] = Event(new.version, new.policy)
<1> DEFINE new == NextRow(old, p)
           newLog == NextLog(old, p, log)
           e == Event(old.version + 1, p)
           entry == [version |-> old.version, policy |-> Archived(old.policy)]
<1>1. old.version \in Nat /\ old.history \in Seq(Entry) /\ old.version >= 1
  BY DEF Row, WholeHistory
<1>2. e \in VersionCreated
  BY <1>1 DEF Event, VersionCreated
<1>3. /\ new.version = old.version + 1 /\ new.policy = p
      /\ new.history = Append(old.history, entry)
      /\ newLog = Append(log, e)
  BY DEF NextRow, NextLog
<1>4. entry.version = old.version /\ entry.policy = Archived(old.policy)
  OBVIOUS
<1> HIDE DEF e, entry, new, newLog, VersionCreated, Entry
<1>5. /\ Len(newLog) \in DOMAIN newLog /\ newLog[Len(newLog)] = e /\ newLog # <<>>
  BY <1>2, <1>3
<1>6. /\ DOMAIN new.history = DOMAIN old.history \union {old.version}
      /\ Len(new.history) = old.version
      /\ new.history[old.version] = entry
      /\ \A i \in DOMAIN old.history : new.history[i] = old.history[i]
  <2>1. Len(old.history) = old.version - 1
    BY DEF WholeHistory
  <2>2. /\ Len(Append(old.history, entry)) = Len(old.history) + 1
        /\ Append(old.history, entry)[Len(old.history) + 1] = entry
        /\ \A i \in 1 .. Len(old.history) : Append(old.history, entry)[i] = old.history[i]
        /\ DOMAIN Append(old.history, entry) = 1 .. (Len(old.history) + 1)
        /\ DOMAIN old.history = 1 .. Len(old.history)
    BY <1>1
  <2>3. Len(old.history) + 1 = old.version
    BY <1>1, <2>1
  <2>4. 1 .. old.version = (1 .. (old.version - 1)) \union {old.version}
    BY <1>1
  <2> QED BY <1>3, <2>1, <2>2, <2>3, <2>4
<1>7. WholeHistory(new)
  BY <1>1, <1>3, <1>4, <1>6 DEF WholeHistory
<1>8. RowAudited(old, newLog)
  BY <1>2, <1>3, AuditGrows
<1>9. EntryAudited(entry, newLog)
  <2>1. CASE old.version = 1
    BY <1>4, <1>8, <2>1 DEF EntryAudited, RowAudited, PolicyAudited
  <2>2. CASE old.version # 1
    <3>1. PICK j \in DOMAIN newLog : newLog[j] = Event(old.version, old.policy)
      BY <1>8, <2>2 DEF RowAudited, PolicyAudited
    <3>2. newLog[j].version = entry.version /\ Archived(newLog[j].policy) = entry.policy
      BY <1>4, <3>1 DEF Event
    <3> QED BY <1>4, <2>2, <3>2 DEF EntryAudited
  <2> QED BY <2>1, <2>2
<1>10. \A i \in DOMAIN new.history : EntryAudited(new.history[i], newLog)
  BY <1>6, <1>8, <1>9 DEF RowAudited
<1>11. PolicyAudited(new, newLog)
  BY <1>1, <1>3, <1>5 DEF PolicyAudited, e
<1> QED BY <1>3, <1>5, <1>7, <1>10, <1>11 DEF RowAudited, e, new, newLog

LEMMA DefaultIsWhole ==
  ASSUME NEW log
  PROVE  WholeHistory(DefaultConfig) /\ RowAudited(DefaultConfig, log)
BY DEF WholeHistory, DefaultConfig, RowAudited, PolicyAudited

\* Concurrent updates may overwrite each other, but each writes a whole row.
LEMMA HistoryInductive ==
  ASSUME StudioTyped, HistoryInv, [Next]_vars
  PROVE  HistoryInv'
<1> DEFINE Loaded == {"absent", "loaded", "flushed"}
<1>1. ASSUME NEW r \in Request, Load(r)
      PROVE  HistoryInv'
  <2>1. UNCHANGED <<config, audit>>
    BY <1>1 DEF Load
  <2>2. WholeHistory(seen'[r]) /\ RowAudited(seen'[r], audit)
    <3>1. seen'[r] = IF config = Absent THEN DefaultConfig ELSE config
      BY <1>1 DEF Load, StudioTyped
    <3> QED BY <3>1, DefaultIsWhole DEF HistoryInv
  <2>3. \A q \in Request \ {r} : seen'[q] = seen[q] /\ pc'[q] = pc[q]
    BY <1>1, ActorsApart DEF Load, At, StudioTyped
  <2> QED BY <2>1, <2>2, <2>3 DEF HistoryInv
<1>2. ASSUME NEW r \in Request,
             Create(r) \/ Abort(r) \/ (r \in Update /\ Flush(r)) \/ (r \in Reader /\ AnswerReader(r))
      PROVE  HistoryInv'
  <2>1. UNCHANGED <<config, audit, seen>>
    BY <1>2 DEF Create, Abort, Flush, AnswerReader
  <2>2. \A q \in Request : pc'[q] \in Loaded => pc[q] \in Loaded
    BY <1>2, ActorsApart DEF Create, Abort, Flush, AnswerReader, At, Has, StudioTyped
  <2> QED BY <2>1, <2>2 DEF HistoryInv
<1>3. ASSUME NEW u \in Update, Commit(u)
      PROVE  HistoryInv'
  <2>1. PICK p \in Policy :
          /\ config' = NewConfig(u, p)
          /\ audit' = Append(audit, [version |-> NewVersion(u), policy |-> p])
    BY <1>3, ActorsApart DEF Commit
  <2>2. /\ seen[u] \in Row /\ u \in Request /\ audit \in Seq(VersionCreated)
        /\ WholeHistory(seen[u]) /\ RowAudited(seen[u], audit)
    BY <1>3, ActorsApart DEF Commit, Has, StudioTyped, HistoryInv
  <2>3. config' = NextRow(seen[u], p) /\ audit' = NextLog(seen[u], p, audit)
    BY <2>1 DEF NewConfig, NewVersion, ArchiveEntry, Event, NextRow, NextLog
  <2>4. /\ WholeHistory(config') /\ RowAudited(config', audit')
        /\ audit' # <<>> /\ audit'[Len(audit')] = Event(config'.version, config'.policy)
    BY <2>2, <2>3, VersionFollows
  <2>5. Event(seen[u].version + 1, p) \in VersionCreated
    BY <2>2 DEF Event, VersionCreated, Row
  <2>6. \A q \in Request : pc'[q] \in Loaded =>
          WholeHistory(seen'[q]) /\ RowAudited(seen'[q], audit')
    <3> SUFFICES ASSUME NEW q \in Request, pc'[q] \in Loaded
                 PROVE  WholeHistory(seen'[q]) /\ RowAudited(seen'[q], audit')
      OBVIOUS
    <3>1. pc[q] \in Loaded /\ seen'[q] = seen[q]
      BY <1>3, <2>2, ActorsApart DEF Commit, At, StudioTyped
    <3>2. WholeHistory(seen[q]) /\ RowAudited(seen[q], audit)
      BY <3>1 DEF HistoryInv
    <3> QED BY <2>2, <2>3, <2>5, <3>1, <3>2, AuditGrows DEF NextLog
  <2> QED BY <2>4, <2>6 DEF HistoryInv
<1>4. ASSUME NEW v \in Evaluation, Evaluate(v)
      PROVE  HistoryInv'
  <2>1. UNCHANGED <<config, audit, seen>> /\ \A q \in Request : pc'[q] = pc[q]
    BY <1>4, ActorsApart DEF Evaluate, At, StudioTyped
  <2> QED BY <2>1 DEF HistoryInv
<1>5. CASE UNCHANGED vars
  BY <1>5 DEF vars, HistoryInv
<1> QED BY <1>1, <1>2, <1>3, <1>4, <1>5, ActorsApart DEF Next

LEMMA HistoryAlways == Spec => []HistoryInv
<1>1. Init => HistoryInv
  BY ActorsApart DEF Init, HistoryInv
<1>2. StudioTyped /\ HistoryInv /\ [Next]_vars => HistoryInv'
  BY HistoryInductive
<1> QED BY <1>1, <1>2, StudioAlwaysTyped, PTL DEF Spec

\* Whatever updates overwrite each other, the history of the active version has one
\* entry for each version before it, in order.
THEOREM HistoryIsContiguous == Spec => []HistoryContiguous
<1>1. HistoryInv => HistoryContiguous
  BY DEF HistoryInv, WholeHistory, HistoryContiguous, Absent
<1> QED BY <1>1, HistoryAlways, PTL

\* The audit chain has what concurrent updates take from the history: its last event
\* is the active policy, and every archived policy is the default or an event's.
THEOREM HistoryHasEvents == Spec => []HistoryIsAudited
<1>1. HistoryInv => HistoryIsAudited
  BY DEF HistoryInv, RowAudited, EntryAudited, HistoryIsAudited, Absent, Event
<1> QED BY <1>1, HistoryAlways, PTL

=============================================================================
