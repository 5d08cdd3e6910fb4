------------------------- MODULE ExecutionRace_proofs -------------------------
(***************************************************************************)
(* For any number of concurrent executions, simulated payments and         *)
(* captures of one case: its rows stay consistent although every session   *)
(* writes what it computed from an object it loaded long before.           *)
(*                                                                         *)
(* The invariant has four parts: an execution that passed the idempotency  *)
(* lookup holds the row lock and its object is not stale in what matters   *)
(* (Counting, Locking); of the verifications that found no outcome only    *)
(* one has gone on (Crediting); and every link was made under the number   *)
(* of a recorded attempt or the next one (Linking).                        *)
(***************************************************************************)
EXTENDS ExecutionRace, GatewayAdapter_proofs, FiniteSetTheorems, SequenceTheorems,
        WellFoundedInduction

----------------------------------------------------------------------------
(* The invariant *)

Executed == {"PAYMENT_LINK", "CUSTOMER_REMINDER", "WAIT_AND_REASSESS", "HUMAN_ESCALATION"}

AtPoints == {"idle", "loaded", "matched", "applied", "working", "done"}

Under == {"loaded", "matched", "applied", "working"}

Typed ==
  /\ action \in Executed
  /\ row \in CaseRow
  /\ attempts \in Seq(Attempt)
  /\ outcome.settling \in Verification \union {NoOne}
  /\ outcome.attempt \in 0 .. Len(attempts)
  /\ holder \in Actor \union {NoOne}
  /\ pc \in [Actor -> AtPoints]
  /\ seen \in [Actor -> CaseRow]
  /\ match \in [Verification -> Nat]
  /\ \A v \in Verification : match[v] <= Len(attempts)
  /\ found \in [Verification -> BOOLEAN]
  /\ IInv

\* The attempts the case had when its latest decision was made.
Base == IF action = "CUSTOMER_REMINDER" THEN 2 ELSE 0

Unfinished == {e \in Execution : pc[e] # "done"}

\* The attempts made since have the action of the decision, so an execution whose
\* object counts fewer than there are finds its key used.
Counting ==
  /\ CountMatchesAttempts
  /\ Base <= row.count
  /\ \A i \in DOMAIN attempts : i > Base => attempts[i].action = action
  /\ \A e \in Execution : pc[e] \in Under =>
       Base <= seen[e].count /\ seen[e].count <= row.count
  /\ \A e \in Execution : Has(e, "working") => seen[e].count = row.count
  /\ row.count + Cardinality(Unfinished) <= Cardinality(Execution) + 2

Locking ==
  /\ \A e \in Execution : Has(e, "working") => holder = e
  /\ \A v \in Verification : Has(v, "applied") /\ ~found[v] => holder = v

\* An object loaded with an amount was loaded after an outcome was created.
Crediting ==
  /\ CreditHasOutcome
  /\ \A v \in Verification : pc[v] \in Under /\ seen[v].amount > 0 => outcome # NoOutcome
  /\ \A v \in Verification : Has(v, "applied") => (found[v] <=> outcome # NoOutcome)

Linking ==
  /\ \A i \in DOMAIN attempts : attempts[i].link > 0 => links[attempts[i].link] > 0
  /\ action = "CUSTOMER_REMINDER" => OpenLinks # {}
  /\ \A k \in Key : links[k] > 0 => k <= Len(attempts) + 1
  /\ \A e \in Execution : asked[e].op = "link" =>
       /\ asked[e].key <= Len(attempts) + 1
       /\ result[e] = "success" => links[asked[e].key] > 0
  /\ \A e \in Execution : Has(e, "working") /\ action = "PAYMENT_LINK" =>
       asked[e] = [op |-> "link", key |-> Number(e)]

RaceInv == Typed /\ Counting /\ Locking /\ Crediting /\ Linking

----------------------------------------------------------------------------
(* The latest of a set of attempts *)

\* A nonempty bounded set of naturals has a greatest element.
LEMMA GreatestExists ==
  ASSUME NEW n \in Nat, NEW S, S \subseteq 0 .. n, S # {}
  PROVE  \E i \in S : \A j \in S : j <= i
<1> DEFINE T == {k \in Nat : n - k \in S}
<1>1. PICK s : s \in S
  OBVIOUS
<1>2. n - s \in T
  BY <1>1
<1>3. PICK m \in T : \A k \in T : ~(<<k, m>> \in OpToRel(<, Nat))
  BY <1>2, WFMin, NatLessThanWellFounded
<1>4. \A k \in T : m <= k
  <2> SUFFICES ASSUME NEW k \in T PROVE m <= k
    OBVIOUS
  <2>1. k \in Nat /\ m \in Nat
    OBVIOUS
  <2>2. ~(k < m)
    BY <1>3, <2>1 DEF OpToRel
  <2> QED BY <2>1, <2>2
<1>5. \A j \in S : j <= n - m
  <2> SUFFICES ASSUME NEW j \in S PROVE j <= n - m
    OBVIOUS
  <2>1. m \in Nat /\ j \in Int
    OBVIOUS
  <2>2. n - j \in T
    OBVIOUS
  <2>3. m <= n - j
    BY <2>2, <1>4
  <2> HIDE DEF T
  <2> QED BY <2>1, <2>3
<1> QED BY <1>3, <1>5

LEMMA LatestIsOpen ==
  ASSUME Typed, OpenLinks # {}
  PROVE  LatestOpenLink \in OpenLinks
<1>1. Len(attempts) \in Nat /\ OpenLinks \subseteq 0 .. Len(attempts)
  BY DEF Typed, OpenLinks
<1>2. \E i \in OpenLinks : \A j \in OpenLinks : j <= i
  BY <1>1, GreatestExists
<1> HIDE DEF OpenLinks
<1> QED BY <1>2 DEF LatestOpenLink

LEMMA MatchIsAttempt ==
  ASSUME Typed, NEW link
  PROVE  MatchingAttempt(link) \in 0 .. Len(attempts)
<1> DEFINE refs == {i \in DOMAIN attempts : link > 0 /\ attempts[i].link = link}
<1>1. Len(attempts) \in Nat /\ refs \subseteq 0 .. Len(attempts)
  BY DEF Typed
<1>2. refs # {} => \E i \in refs : \A j \in refs : j <= i
  BY <1>1, GreatestExists
<1>3. MatchingAttempt(link) =
        IF refs = {} THEN Len(attempts) ELSE CHOOSE i \in refs : \A j \in refs : j <= i
  BY DEF MatchingAttempt
<1> HIDE DEF refs
<1>4. ASSUME refs # {} PROVE MatchingAttempt(link) \in refs
  <2> DEFINE latest == CHOOSE i \in refs : \A j \in refs : j <= i
  <2>1. latest \in refs
    BY <1>2, <1>4
  <2>2. MatchingAttempt(link) = latest
    BY <1>3, <1>4
  <2> QED BY <2>1, <2>2
<1>5. CASE refs # {}
  <2>1. MatchingAttempt(link) \in refs
    BY <1>4, <1>5
  <2> HIDE DEF MatchingAttempt
  <2> QED BY <1>1, <2>1
<1>6. CASE refs = {}
  <2>1. MatchingAttempt(link) = Len(attempts)
    BY <1>3, <1>6
  <2> HIDE DEF MatchingAttempt
  <2> QED BY <1>1, <2>1
<1> QED BY <1>5, <1>6

----------------------------------------------------------------------------
(* What the gateway and the adapter do meanwhile *)

\* A link that was made stays; a new one was asked for; success is reported of a link
\* only once it was made.
LinksFollow ==
  /\ asked' = asked
  /\ \A k \in Key : links[k] > 0 => links'[k] > 0
  /\ \A k \in Key : links'[k] > 0 /\ ~(links[k] > 0) =>
       \E c \in Call : asked[c].op = "link" /\ asked[c].key = k
  /\ \A c \in Call : result'[c] = "success" /\ asked[c].op = "link" =>
       result[c] = "success" \/ links'[asked[c].key] > 0

LEMMA PerformLinks ==
  ASSUME IInv, NEW c \in Call, asked[c] # NotAsked, Perform(c)
  PROVE  /\ \A k \in Key : links[k] > 0 => links'[k] > 0
         /\ \A k \in Key : links'[k] > 0 /\ ~(links[k] > 0) =>
              asked[c].op = "link" /\ asked[c].key = k
         /\ asked[c].op = "link" => links'[asked[c].key] > 0
<1>1. asked[c] \in Request /\ links \in [Key -> Nat]
  BY DEF IInv, GatewayTypeOK
<1>2. CASE asked[c].op = "link"
  <2> DEFINE k == asked[c].key
             n == LinksAfter(k)
  <2>1. k \in Key
    BY <1>1, <1>2 DEF Request
  <2>2. links' = [links EXCEPT ![k] = n]
    BY <1>2 DEF Perform
  <2>3. n \in Nat /\ n > 0
    BY <1>1, <2>1 DEF LinksAfter
  <2> HIDE DEF n
  <2> QED BY <1>1, <1>2, <2>1, <2>2, <2>3
<1>3. CASE asked[c].op # "link"
  BY <1>3 DEF Perform
<1> QED BY <1>2, <1>3

LEMMA RetryResult ==
  ASSUME IInv, NEW c \in Call, NEW w, RetryOrReturn(c, w)
  PROVE  \A d \in Call : result'[d] = "success" => result[d] = "success"
BY DEF RetryOrReturn, Return, IInv, GatewayTypeOK

LEMMA GatewayMoves ==
  ASSUME IInv, GatewayStep \/ \E c \in Call : Abandon(c)
  PROVE  IInv' /\ LinksFollow
<1>1. IInv'
  BY StepKeeps DEF GatewayNext
<1>2. ASSUME NEW c \in Call, Succeed(c)
      PROVE  LinksFollow
  <2>1. asked[c] # NotAsked /\ Perform(c) /\ asked' = asked
    BY <1>2 DEF Succeed, Waiting
  <2>2. \A d \in Call \ {c} : result'[d] = result[d]
    BY <1>2 DEF Succeed, Return, IInv, GatewayTypeOK
  <2> QED BY <2>1, <2>2, PerformLinks DEF LinksFollow
<1>3. ASSUME NEW c \in Call, Refuse(c) \/ Fail(c)
      PROVE  LinksFollow
  <2>1. asked[c] # NotAsked /\ asked' = asked /\ (Perform(c) \/ UNCHANGED links)
    BY <1>3 DEF Refuse, Fail, Waiting
  <2>2. \A d \in Call : result'[d] = "success" => result[d] = "success"
    <3>1. CASE Refuse(c)
      BY <3>1 DEF Refuse, Return, IInv, GatewayTypeOK
    <3>2. CASE Fail(c)
      BY <3>2, RetryResult DEF Fail
    <3> QED BY <1>3, <3>1, <3>2
  <2>3. CASE Perform(c)
    BY <2>1, <2>2, <2>3, PerformLinks DEF LinksFollow
  <2>4. CASE UNCHANGED links
    BY <2>1, <2>2, <2>4 DEF LinksFollow
  <2> QED BY <2>1, <2>3, <2>4
<1>4. ASSUME NEW c \in Call, TimeOut(c)
      PROVE  LinksFollow
  <2>1. \A d \in Call : result'[d] = "success" => result[d] = "success"
    BY <1>4, RetryResult DEF TimeOut
  <2> QED BY <1>4, <2>1 DEF TimeOut, LinksFollow
<1>5. ASSUME NEW c \in Call, Break(c) \/ Abandon(c)
      PROVE  LinksFollow
  <2>1. \A d \in Call : result'[d] = "success" => result[d] = "success"
    BY <1>5 DEF Break, Abandon, Return, IInv, GatewayTypeOK
  <2> QED BY <1>5, <2>1 DEF Break, Abandon, LinksFollow
<1>6. ASSUME NEW r \in Wire, ActUnheard(r[1], r[2])
      PROVE  LinksFollow
  <2>1. r[1] \in Call /\ r[2] \in 1 .. MaxRetries + 1
    BY DEF Wire
  <2>2. asked[r[1]] # NotAsked
    BY <1>6, <2>1, GatewayAssumption DEF ActUnheard, IInv, AtMostOnce, GatewayTypeOK
  <2>3. Perform(r[1]) /\ asked' = asked /\ result' = result
    BY <1>6 DEF ActUnheard
  <2> QED BY <2>1, <2>2, <2>3, PerformLinks DEF LinksFollow
<1> QED BY <1>1, <1>2, <1>3, <1>4, <1>5, <1>6 DEF GatewayStep, CallStep

\* Only the call that is made changes, and it has not been answered yet.
LEMMA AskMoves ==
  ASSUME IInv, NEW c \in Call, NEW request \in Request, Ask(c, request)
  PROVE  /\ IInv' /\ links' = links
         /\ asked'[c] = request /\ result'[c] # "success"
         /\ \A d \in Call \ {c} : asked'[d] = asked[d] /\ result'[d] = result[d]
<1>1. IInv'
  BY AskKeeps
<1>2. result[c] = "none"
  BY DEF Ask, IInv, AtMostOnce
<1>3. asked'[c] = request /\ \A d \in Call \ {c} : asked'[d] = asked[d]
  BY DEF Ask, IInv, GatewayTypeOK
<1>4. result'[c] # "success" /\ \A d \in Call \ {c} : result'[d] = result[d]
  BY <1>2 DEF Ask, IInv, GatewayTypeOK
<1> QED BY <1>1, <1>3, <1>4 DEF Ask

----------------------------------------------------------------------------
(* Counting requests *)

LEMMA ActorsKnown ==
  /\ \A e \in Execution : e \in Actor /\ e \in Call /\ e \notin Verification
  /\ \A v \in Verification : v \in Actor /\ v \notin Execution /\ v # NoOne
  /\ \A v \in Simulation : v \in Verification
  /\ \A v \in Capture : v \in Verification
  /\ \A v \in Verification : Amount[v] \in Nat /\ Amount[v] > 0
  /\ NoOne \notin Actor
BY RaceAssumption DEF Actor, Verification, Execution

LEMMA UnfinishedIsFinite ==
  /\ IsFiniteSet(Unfinished) /\ Cardinality(Unfinished) \in Nat
  /\ Cardinality(Execution) \in Nat
  /\ Cardinality(Unfinished) <= Cardinality(Execution)
<1>1. IsFiniteSet(Execution) /\ Unfinished \subseteq Execution
  BY RaceAssumption DEF Unfinished
<1> QED BY <1>1, FS_Subset, FS_CardinalityType

\* Requests finish; none comes back.
LEMMA FewerUnfinished ==
  ASSUME \A e \in Execution : pc[e] = "done" => pc'[e] = "done"
  PROVE  /\ Cardinality(Unfinished') \in Nat
         /\ Cardinality(Unfinished') <= Cardinality(Unfinished)
<1>1. Unfinished' \subseteq Unfinished
  BY DEF Unfinished
<1> QED BY <1>1, UnfinishedIsFinite, FS_Subset, FS_CardinalityType

LEMMA OneLessUnfinished ==
  ASSUME NEW e \in Execution, pc[e] # "done", pc'[e] = "done",
         \A f \in Execution \ {e} : pc'[f] = pc[f]
  PROVE  Cardinality(Unfinished') = Cardinality(Unfinished) - 1
<1>1. Unfinished' = Unfinished \ {e} /\ e \in Unfinished
  BY DEF Unfinished
<1> QED BY <1>1, UnfinishedIsFinite, FS_RemoveElement

\* There is a key for every attempt an execution may still make.
LEMMA NumberIsKey ==
  ASSUME RaceInv, NEW e \in Execution, pc[e] \in {"loaded", "working"}
  PROVE  /\ Number(e) \in Key /\ Number(e) \in Nat \ {0}
         /\ Number(e) <= Len(attempts) + 1
<1>1. /\ seen[e].count \in Nat /\ row.count \in Nat /\ seen[e].count <= row.count
      /\ row.count = Len(attempts)
      /\ row.count + Cardinality(Unfinished) <= Cardinality(Execution) + 2
  BY ActorsKnown DEF RaceInv, Typed, Counting, CountMatchesAttempts, CaseRow, Under
<1>2. Cardinality(Unfinished) >= 1
  <2>1. e \in Unfinished
    BY DEF Unfinished
  <2>2. Cardinality(Unfinished) # 0
    BY <2>1, UnfinishedIsFinite, FS_EmptySet
  <2> QED BY <2>2, UnfinishedIsFinite
<1>3. Key = 1 .. (Cardinality(Execution) + 2)
  BY RaceAssumption
<1> QED BY <1>1, <1>2, <1>3, UnfinishedIsFinite DEF Number

\* What an attempt or a call refers to is a key.
LEMMA AttemptLinkIsKey ==
  ASSUME RaceInv, NEW i \in DOMAIN attempts, attempts[i].link > 0
  PROVE  attempts[i].link \in Key
<1>1. attempts[i] \in Attempt
  BY DEF RaceInv, Typed
<1> QED BY <1>1 DEF Attempt

LEMMA AskedLinkIsKey ==
  ASSUME RaceInv, NEW e \in Execution, asked[e].op = "link"
  PROVE  asked[e].key \in Key
<1>1. asked[e] \in Request \union {NotAsked}
  BY DEF RaceInv, Typed, IInv, GatewayTypeOK, Execution
<1>2. asked[e] # NotAsked
  BY DEF NotAsked
<1> QED BY <1>1, <1>2 DEF Request

----------------------------------------------------------------------------
(* What a step needs to keep each part of the invariant *)

LEMMA CountingKept ==
  ASSUME RaceInv, action' = action, row'.count = row.count,
         DOMAIN attempts' = DOMAIN attempts, Len(attempts') = Len(attempts),
         \A i \in DOMAIN attempts : /\ attempts'[i].number = attempts[i].number
                                    /\ attempts'[i].action = attempts[i].action,
         \A e \in Execution : pc[e] = "done" => pc'[e] = "done",
         \A e \in Execution : pc'[e] \in Under =>
           \/ pc[e] \in Under /\ seen'[e] = seen[e]
           \/ seen'[e] = row,
         \A e \in Execution : pc'[e] = "working" => seen'[e].count = row.count
  PROVE  Counting'
<1>1. Base' = Base /\ Base \in Nat /\ row.count \in Nat /\ Base <= row.count
  BY DEF Base, RaceInv, Typed, Counting, CaseRow
<1> HIDE DEF Base
<1>2. CountMatchesAttempts'
  BY DEF CountMatchesAttempts, RaceInv, Counting
<1>3. row.count + Cardinality(Unfinished') <= Cardinality(Execution) + 2
  <2>1. /\ Cardinality(Unfinished') \in Nat
        /\ Cardinality(Unfinished') <= Cardinality(Unfinished)
    BY FewerUnfinished
  <2> QED BY <1>1, <2>1, UnfinishedIsFinite DEF RaceInv, Counting
<1>4. \A e \in Execution : pc'[e] \in Under =>
        Base <= seen'[e].count /\ seen'[e].count <= row.count
  BY <1>1 DEF RaceInv, Counting
<1>5. \A i \in DOMAIN attempts' : i > Base => attempts'[i].action = action
  BY DEF RaceInv, Counting
<1> QED BY <1>1, <1>2, <1>3, <1>4, <1>5 DEF Counting, Has

LEMMA LinkingKept ==
  ASSUME RaceInv, LinksFollow, action' = action,
         DOMAIN attempts' = DOMAIN attempts, Len(attempts') = Len(attempts),
         \A i \in DOMAIN attempts : /\ attempts'[i].link = attempts[i].link
                                    /\ attempts'[i].action = attempts[i].action
                                    /\ attempts'[i].status \in {attempts[i].status, "SUCCEEDED"},
         \A e \in Execution : pc'[e] = "working" => pc[e] = "working" /\ seen'[e] = seen[e]
  PROVE  Linking'
<1>1. asked' = asked
  BY DEF LinksFollow
<1>2. \A i \in DOMAIN attempts : attempts[i].link > 0 => links'[attempts[i].link] > 0
  BY AttemptLinkIsKey DEF RaceInv, Linking, LinksFollow
<1>3. \A k \in Key : links'[k] > 0 => k <= Len(attempts) + 1
  BY DEF RaceInv, Linking, LinksFollow, Execution
<1>4. \A e \in Execution : asked[e].op = "link" =>
        /\ asked[e].key <= Len(attempts) + 1
        /\ result'[e] = "success" => links'[asked[e].key] > 0
  BY AskedLinkIsKey, ActorsKnown DEF RaceInv, Linking, LinksFollow
<1>5. \A e \in Execution : Has(e, "working")' /\ action = "PAYMENT_LINK" =>
        asked[e] = [op |-> "link", key |-> Number(e)']
  BY DEF RaceInv, Linking, Has, Number
<1>6. action = "CUSTOMER_REMINDER" => OpenLinks' # {}
  <2>1. OpenLinks \subseteq OpenLinks'
    BY DEF OpenLinks
  <2> QED BY <2>1 DEF RaceInv, Linking
<1> QED BY <1>1, <1>2, <1>3, <1>4, <1>5, <1>6 DEF Linking

LEMMA GatewayRests ==
  ASSUME IInv, UNCHANGED gatewayVars
  PROVE  IInv' /\ LinksFollow
<1>1. IInv'
  BY StepKeeps
<1> QED BY <1>1 DEF gatewayVars, LinksFollow

----------------------------------------------------------------------------
(* Steps that leave the case alone *)

\* A request loads the case, or ends without a trace in it.
Quiet(a) ==
  /\ UNCHANGED <<action, caseVars>>
  /\ holder' \in {holder, Release(a)}
  /\ pc' \in [Actor -> AtPoints] /\ seen' \in [Actor -> CaseRow]
  /\ match' \in [Verification -> Nat] /\ found' \in [Verification -> BOOLEAN]
  /\ \A b \in Actor \ {a} : pc'[b] = pc[b] /\ seen'[b] = seen[b]
  /\ \A v \in Verification : match'[v] \in {0, match[v]} /\ (v # a => found'[v] = found[v])
  /\ \/ pc'[a] = "done"
     \/ pc[a] = "idle" /\ pc'[a] = "loaded" /\ seen'[a] = row

LEMMA EndMoves ==
  ASSUME Typed, NEW a \in Actor, End(a)
  PROVE  /\ pc' \in [Actor -> AtPoints] /\ seen' \in [Actor -> CaseRow]
         /\ pc'[a] = "done"
         /\ \A b \in Actor \ {a} : pc'[b] = pc[b] /\ seen'[b] = seen[b]
<1>1. Nothing \in CaseRow
  BY DEF Nothing, CaseRow, CaseStatuses, ActiveStatuses
<1> QED BY <1>1 DEF End, Typed, AtPoints

LEMMA EndVerificationMoves ==
  ASSUME Typed, NEW v \in Verification, EndVerification(v)
  PROVE  /\ pc' \in [Actor -> AtPoints] /\ seen' \in [Actor -> CaseRow]
         /\ pc'[v] = "done"
         /\ \A b \in Actor \ {v} : pc'[b] = pc[b] /\ seen'[b] = seen[b]
         /\ match' \in [Verification -> Nat] /\ found' \in [Verification -> BOOLEAN]
         /\ match'[v] = 0
         /\ \A w \in Verification \ {v} : match'[w] = match[w] /\ found'[w] = found[w]
<1>1. End(v) /\ v \in Actor
  BY ActorsKnown DEF EndVerification
<1>2. /\ match' \in [Verification -> Nat] /\ found' \in [Verification -> BOOLEAN]
      /\ match'[v] = 0
      /\ \A w \in Verification \ {v} : match'[w] = match[w] /\ found'[w] = found[w]
  BY DEF EndVerification, Typed
<1> QED BY <1>1, <1>2, EndMoves

LEMMA LoadMoves ==
  ASSUME Typed, NEW a \in Actor, Has(a, "idle"),
         pc' = [pc EXCEPT ![a] = "loaded"], seen' = [seen EXCEPT ![a] = row],
         UNCHANGED <<action, caseVars, holder, match, found>>
  PROVE  Quiet(a)
BY DEF Has, Quiet, Typed, AtPoints

LEMMA QuietKeeps ==
  ASSUME RaceInv, NEW a \in Actor, Quiet(a), IInv', LinksFollow
  PROVE  RaceInv'
<1> USE ActorsKnown
<1>1. Typed'
  <2>1. holder' \in Actor \union {NoOne}
    BY DEF Quiet, Release, RaceInv, Typed
  <2>2. \A v \in Verification : match'[v] <= Len(attempts')
    BY DEF Quiet, caseVars, RaceInv, Typed
  <2> QED BY <2>1, <2>2 DEF Quiet, caseVars, RaceInv, Typed
<1>2. \A b \in Actor : pc[b] = "done" => pc'[b] = "done"
  BY DEF Quiet
<1>3. \A b \in Actor : pc'[b] \in Under =>
        \/ b # a /\ pc'[b] = pc[b] /\ seen'[b] = seen[b]
        \/ b = a /\ pc'[a] = "loaded" /\ seen'[a] = row
  BY DEF Quiet, Under
<1>4. Counting'
  <2>1. /\ UNCHANGED <<action, row, attempts>>
        /\ \A e \in Execution : pc'[e] = "working" => seen'[e].count = row.count
    BY <1>3 DEF RaceInv, Counting, Has, Under, Quiet, caseVars
  <2>2. \A e \in Execution : pc'[e] \in Under =>
          (pc[e] \in Under /\ seen'[e] = seen[e]) \/ seen'[e] = row
    BY <1>3
  <2> QED BY <1>2, <2>1, <2>2, CountingKept
<1>5. Locking'
  <2>1. \A b \in Actor : holder = b /\ b # a => holder' = b
    BY DEF Quiet, Release
  <2>2. \A b \in Actor : pc'[b] \in {"working", "applied"} => b # a /\ pc[b] = pc'[b]
    BY <1>3 DEF Under
  <2> QED BY <2>1, <2>2 DEF RaceInv, Locking, Has, Quiet
<1>6. Crediting'
  <2>1. UNCHANGED <<row, outcome>>
    BY DEF Quiet, caseVars
  <2>2. \A v \in Verification : pc'[v] \in Under /\ seen'[v].amount > 0 => outcome # NoOutcome
    BY <1>3 DEF RaceInv, Crediting, CreditHasOutcome
  <2>3. \A v \in Verification : pc'[v] = "applied" => (found'[v] <=> outcome # NoOutcome)
    BY <1>3 DEF RaceInv, Crediting, Has, Quiet, Under
  <2> QED BY <2>1, <2>2, <2>3 DEF RaceInv, Crediting, CreditHasOutcome, Has
<1>7. Linking'
  <2>1. UNCHANGED <<action, attempts>>
    BY DEF Quiet, caseVars
  <2>2. \A e \in Execution : pc'[e] = "working" => pc[e] = "working" /\ seen'[e] = seen[e]
    BY <1>3 DEF Under
  <2> QED BY <2>1, <2>2, LinkingKept
<1> QED BY <1>1, <1>4, <1>5, <1>6, <1>7 DEF RaceInv

LEMMA LoadForExecutionKeeps ==
  ASSUME RaceInv, NEW e \in Execution, LoadForExecution(e)
  PROVE  RaceInv'
<1>1. Quiet(e)
  BY LoadMoves, ActorsKnown DEF LoadForExecution, RaceInv
<1>2. IInv' /\ LinksFollow
  BY GatewayRests DEF LoadForExecution, RaceInv, Typed
<1> QED BY <1>1, <1>2, QuietKeeps, ActorsKnown

LEMMA RefusedBeginKeeps ==
  ASSUME RaceInv, NEW e \in Execution, Begin(e), ~Admissible(e)
  PROVE  RaceInv'
<1>1. e \in Actor /\ End(e) /\ UNCHANGED <<holder, gatewayVars, action, caseVars, match, found>>
  BY ActorsKnown DEF Begin
<1>2. Quiet(e)
  BY <1>1, EndMoves, ActorsKnown DEF Quiet, RaceInv, Typed
<1>3. IInv' /\ LinksFollow
  BY <1>1, GatewayRests DEF RaceInv, Typed
<1> QED BY <1>1, <1>2, <1>3, QuietKeeps

LEMMA AbortExecutionKeeps ==
  ASSUME RaceInv, NEW e \in Execution, AbortExecution(e)
  PROVE  RaceInv'
<1>1. /\ e \in Actor /\ End(e) /\ UNCHANGED <<action, caseVars, match, found>>
      /\ holder' = Release(e)
  BY ActorsKnown DEF AbortExecution
<1>2. Quiet(e)
  BY <1>1, EndMoves, ActorsKnown DEF Quiet, RaceInv, Typed
<1>3. IInv' /\ LinksFollow
  BY <1>1, GatewayRests, GatewayMoves, ActorsKnown DEF AbortExecution, RaceInv, Typed
<1> QED BY <1>1, <1>2, <1>3, QuietKeeps

LEMMA LoadForSimulationKeeps ==
  ASSUME RaceInv, NEW v \in Verification, LoadForSimulation(v)
  PROVE  RaceInv'
<1>1. Quiet(v)
  BY LoadMoves, ActorsKnown DEF LoadForSimulation, RaceInv
<1>2. IInv' /\ LinksFollow
  BY GatewayRests DEF LoadForSimulation, RaceInv, Typed
<1> QED BY <1>1, <1>2, QuietKeeps, ActorsKnown

LEMMA LoadForCaptureKeeps ==
  ASSUME RaceInv, NEW v \in Verification, LoadForCapture(v)
  PROVE  RaceInv'
<1>1. IInv' /\ LinksFollow
  BY GatewayRests DEF LoadForCapture, RaceInv, Typed
<1>2. CASE row.status \in VerifiableStatuses
  <2>1. Quiet(v)
    BY <1>2, LoadMoves, ActorsKnown DEF LoadForCapture, RaceInv
  <2> QED BY <1>1, <2>1, QuietKeeps, ActorsKnown
<1>3. CASE row.status \notin VerifiableStatuses
  <2>1. v \in Actor /\ End(v) /\ UNCHANGED <<action, caseVars, holder, match, found>>
    BY <1>3, ActorsKnown DEF LoadForCapture
  <2>2. Quiet(v)
    BY <2>1, EndMoves DEF Quiet, RaceInv, Typed
  <2> QED BY <1>1, <2>1, <2>2, QuietKeeps
<1> QED BY <1>2, <1>3

\* A verification that ends without having written.
LEMMA EndVerificationKeeps ==
  ASSUME RaceInv, NEW v \in Verification, EndVerification(v),
         UNCHANGED <<action, caseVars, gatewayVars>>, holder' \in {holder, Release(v)}
  PROVE  RaceInv'
<1>1. v \in Actor
  BY ActorsKnown
<1>2. Quiet(v)
  BY <1>1, EndVerificationMoves DEF Quiet, RaceInv, Typed
<1>3. IInv' /\ LinksFollow
  BY GatewayRests DEF RaceInv, Typed
<1> QED BY <1>1, <1>2, <1>3, QuietKeeps

LEMMA GatewayStepKeeps ==
  ASSUME RaceInv, GatewayStep,
         UNCHANGED <<action, caseVars, holder, pc, seen, match, found>>
  PROVE  RaceInv'
<1>1. IInv' /\ LinksFollow
  BY GatewayMoves DEF RaceInv, Typed
<1>2. UNCHANGED <<action, row, attempts, outcome, holder, pc, seen, match, found>>
  BY DEF caseVars
<1>3. Typed'
  BY <1>1, <1>2 DEF RaceInv, Typed
<1>4. Counting' /\ Locking' /\ Crediting'
  <2>1. Unfinished' = Unfinished /\ Base' = Base
    BY <1>2 DEF Unfinished, Base
  <2> HIDE DEF Base, Unfinished
  <2> QED BY <1>2, <2>1 DEF RaceInv, Counting, Locking, Crediting, CountMatchesAttempts,
                            CreditHasOutcome, Has
<1>5. Linking'
  BY <1>1, <1>2, LinkingKept
<1> QED BY <1>3, <1>4, <1>5 DEF RaceInv

----------------------------------------------------------------------------
(* An execution begins *)

\* An object that counts fewer attempts than there are finds its key used.
LEMMA AdmittedIsCurrent ==
  ASSUME RaceInv, NEW e \in Execution, pc[e] \in Under, ~KeyUsed(e)
  PROVE  seen[e].count = row.count
<1> DEFINE i == seen[e].count + 1
<1>1. /\ Base \in Nat /\ seen[e].count \in Nat /\ row.count \in Nat
      /\ Base <= seen[e].count /\ seen[e].count <= row.count
  BY ActorsKnown DEF RaceInv, Typed, Counting, Base, CaseRow
<1>2. row.count = Len(attempts) /\ attempts \in Seq(Attempt)
  BY DEF RaceInv, Typed, Counting, CountMatchesAttempts
<1>3. ASSUME seen[e].count # row.count PROVE FALSE
  <2>1. i \in DOMAIN attempts /\ i > Base
    BY <1>1, <1>2, <1>3
  <2>2. attempts[i].number = i /\ attempts[i].action = action
    BY <2>1 DEF RaceInv, Counting, CountMatchesAttempts
  <2> QED BY <2>1, <2>2 DEF KeyUsed, Number
<1> QED BY <1>3

LEMMA AdmittedBeginKeeps ==
  ASSUME RaceInv, NEW e \in Execution, Begin(e), Admissible(e)
  PROVE  RaceInv'
<1> USE ActorsKnown
<1>1. /\ pc[e] = "loaded" /\ pc' = [pc EXCEPT ![e] = "working"]
      /\ holder = NoOne /\ holder' = e
      /\ UNCHANGED <<seen, action, row, attempts, outcome, match, found>>
  BY DEF Begin, Has, LockedBy, caseVars
<1>2. seen[e].count = row.count
  BY <1>1, AdmittedIsCurrent DEF Admissible, Under
<1>3. /\ pc'[e] = "working" /\ pc' \in [Actor -> AtPoints]
      /\ \A b \in Actor \ {e} : pc'[b] = pc[b]
  BY <1>1 DEF RaceInv, Typed, AtPoints
<1>4. \A f \in Execution : pc[f] # "working"
  BY <1>1 DEF RaceInv, Locking, Has
<1>5. \A v \in Verification : pc[v] = "applied" => found[v]
  BY <1>1 DEF RaceInv, Locking, Has
<1>6. GatewayRequest(e) \in Request
  BY <1>1, NumberIsKey DEF GatewayRequest, Request
<1>7. /\ IInv' /\ links' = links
      /\ \A d \in Call \ {e} : asked'[d] = asked[d] /\ result'[d] = result[d]
      /\ \/ asked'[e] = GatewayRequest(e) /\ result'[e] # "success"
         \/ ~CallsGateway /\ asked'[e] = asked[e] /\ result'[e] = result[e]
  <2>1. CASE CallsGateway
    <3>1. Ask(e, GatewayRequest(e)) /\ e \in Call /\ IInv
      BY <2>1 DEF Begin, RaceInv, Typed
    <3> QED BY <3>1, <1>6, AskMoves
  <2>2. CASE ~CallsGateway
    <3>1. UNCHANGED gatewayVars
      BY <2>2 DEF Begin
    <3> QED BY <2>2, <3>1, GatewayRests DEF RaceInv, Typed, gatewayVars
  <2> QED BY <2>1, <2>2
<1>8. Typed'
  BY <1>1, <1>3, <1>7 DEF RaceInv, Typed
<1>9. Counting'
  <2>1. \A f \in Execution : pc'[f] \in Under => pc[f] \in Under /\ seen'[f] = seen[f]
    BY <1>1, <1>3 DEF Under
  <2>2. \A f \in Execution : pc'[f] = "working" => seen'[f].count = row.count
    BY <1>1, <1>2, <1>3, <1>4
  <2>3. \A f \in Execution : pc[f] = "done" => pc'[f] = "done"
    BY <1>1, <1>3
  <2> QED BY <1>1, <2>1, <2>2, <2>3, CountingKept
<1>10. Locking'
  BY <1>1, <1>3, <1>4, <1>5 DEF Locking, Has
<1>11. Crediting'
  BY <1>1, <1>3 DEF RaceInv, Crediting, CreditHasOutcome, Has
<1>12. Linking'
  <2>1. OpenLinks' = OpenLinks
    BY <1>1 DEF OpenLinks
  <2>2. \A f \in Execution : asked'[f].op = "link" =>
          /\ asked'[f].key <= Len(attempts) + 1
          /\ result'[f] = "success" => links[asked'[f].key] > 0
    <3>1. GatewayRequest(e).op = "link" => GatewayRequest(e).key <= Len(attempts) + 1
      BY <1>1, NumberIsKey DEF GatewayRequest
    <3> QED BY <3>1, <1>7 DEF RaceInv, Linking
  <2>3. action = "PAYMENT_LINK" => asked'[e] = [op |-> "link", key |-> Number(e)]
    BY <1>7 DEF CallsGateway, GatewayRequest
  <2>4. \A f \in Execution : pc'[f] = "working" => f = e
    BY <1>3, <1>4
  <2>5. Number(e)' = Number(e)
    BY <1>1 DEF Number
  <2> HIDE DEF OpenLinks
  <2> QED BY <1>1, <1>7, <2>1, <2>2, <2>3, <2>4, <2>5 DEF RaceInv, Linking, Has
<1> QED BY <1>8, <1>9, <1>10, <1>11, <1>12 DEF RaceInv

----------------------------------------------------------------------------
(* An execution commits *)

LEMMA ResultShape ==
  ASSUME RaceInv, NEW e \in Execution, Has(e, "working")
  PROVE  /\ ExecutorResult(e).status \in AttemptStatuses
         /\ ExecutorResult(e).target \in CaseStatuses
         /\ ExecutorResult(e).link \in Key \union {0}
         /\ ExecutorResult(e).link > 0 => links[ExecutorResult(e).link] > 0
<1>1. CASE action = "PAYMENT_LINK"
  <2>1. ExecutorResult(e) = LinkResult(e)
    BY <1>1 DEF ExecutorResult
  <2>2. Number(e) \in Key /\ Key \subseteq Nat \ {0}
    BY NumberIsKey, GatewayAssumption DEF Has
  <2> HIDE DEF Number
  <2>3. asked[e].op = "link" /\ asked[e].key = Number(e)
    <3>1. asked[e] = [op |-> "link", key |-> Number(e)]
      BY <1>1 DEF RaceInv, Linking
    <3> QED BY <3>1
  <2>4. result[e] = "success" => links[Number(e)] > 0
    BY <2>3 DEF RaceInv, Linking
  <2> QED BY <2>1, <2>2, <2>4
          DEF LinkResult, Result, AttemptStatuses, CaseStatuses, ActiveStatuses
<1>2. CASE action = "CUSTOMER_REMINDER"
  <2>1. ExecutorResult(e) = ReminderResult(e)
    BY <1>2 DEF ExecutorResult
  <2>2. LatestOpenLink \in OpenLinks
    BY <1>2, LatestIsOpen DEF RaceInv, Linking
  <2> DEFINE link == attempts[LatestOpenLink].link
  <2>3. LatestOpenLink \in DOMAIN attempts /\ link > 0
    BY <2>2 DEF OpenLinks
  <2>4. link \in Key /\ links[link] > 0
    BY <2>3, AttemptLinkIsKey DEF RaceInv, Linking
  <2> HIDE DEF link
  <2>5. ReminderResult(e) =
          IF asked[e] = NotAsked
            THEN Result("FAILED", "DIAGNOSING", 0)
            ELSE Result(IF result[e] = "success" THEN "ACKNOWLEDGED" ELSE "FAILED",
                        "WAITING_EXTERNAL", link)
    BY DEF ReminderResult, link
  <2> QED BY <2>1, <2>4, <2>5
          DEF Result, AttemptStatuses, CaseStatuses, ActiveStatuses
<1>3. CASE action = "WAIT_AND_REASSESS"
  BY <1>3 DEF ExecutorResult, Result, AttemptStatuses, CaseStatuses, ActiveStatuses
<1>4. CASE action = "HUMAN_ESCALATION"
  BY <1>4 DEF ExecutorResult, Result, AttemptStatuses, CaseStatuses, ActiveStatuses
<1> QED BY <1>1, <1>2, <1>3, <1>4 DEF RaceInv, Typed, Executed

LEMMA ExecutedRow ==
  ASSUME Typed, NEW e \in Execution, NEW target \in CaseStatuses
  PROVE  RowOfExecution(e, StatusAfter(e, target)) \in CaseRow
<1>1. seen[e] \in CaseRow /\ row \in CaseRow
  BY ActorsKnown DEF Typed
<1>2. StatusAfter(e, target) \in CaseStatuses
  BY <1>1 DEF StatusAfter, CaseRow, CaseStatuses, ActiveStatuses
<1>3. Written(seen[e].status, StatusAfter(e, target), row.status) \in CaseStatuses
  BY <1>1, <1>2 DEF Written, CaseRow
<1> HIDE DEF StatusAfter, Written
<1> QED BY <1>1, <1>3 DEF RowOfExecution, CaseRow

LEMMA CommitExecutionKeeps ==
  ASSUME RaceInv, NEW e \in Execution, CommitExecution(e)
  PROVE  RaceInv'
<1> USE ActorsKnown
<1> DEFINE r == ExecutorResult(e)
           new == [number |-> Number(e), action |-> action, status |-> r.status,
                   link |-> r.link]
           n == Len(attempts)
<1>1. /\ pc[e] = "working" /\ End(e)
      /\ row' = RowOfExecution(e, StatusAfter(e, r.target))
      /\ attempts' = Append(attempts, new)
      /\ holder' = NoOne
      /\ UNCHANGED <<action, outcome, match, found, gatewayVars>>
  BY DEF CommitExecution, Has
<1>2. /\ holder = e /\ seen[e].count = row.count /\ row.count = n
      /\ n \in Nat /\ attempts \in Seq(Attempt) /\ Number(e) = n + 1
  BY <1>1 DEF RaceInv, Typed, Locking, Counting, CountMatchesAttempts, Has, Number
<1>3. /\ r.status \in AttemptStatuses /\ r.target \in CaseStatuses
      /\ r.link \in Key \union {0} /\ (r.link > 0 => links[r.link] > 0)
  BY <1>1, ResultShape DEF Has
<1> HIDE DEF r
<1>4. new \in Attempt
  BY <1>2, <1>3 DEF Attempt, RaceInv, Typed, Executed, Actions
<1>5. row' \in CaseRow /\ row'.count = n + 1 /\ row'.amount = row.amount
  <2>1. row' \in CaseRow
    BY <1>1, <1>3, ExecutedRow DEF RaceInv
  <2> QED BY <1>1, <1>2, <2>1 DEF RowOfExecution
<1>6. new.number = n + 1 /\ new.action = action /\ new.link = r.link
  BY <1>2
<1> HIDE DEF new
<1>7. /\ attempts' \in Seq(Attempt) /\ Len(attempts') = n + 1
      /\ \A i \in DOMAIN attempts : i \in DOMAIN attempts' /\ attempts'[i] = attempts[i]
      /\ \A i \in DOMAIN attempts' : i \in DOMAIN attempts \/ i = n + 1
      /\ attempts'[n + 1] = new
      /\ DOMAIN attempts = 1 .. n
  BY <1>1, <1>2, <1>4
<1>8. /\ pc' \in [Actor -> AtPoints] /\ seen' \in [Actor -> CaseRow]
      /\ pc'[e] = "done"
      /\ \A b \in Actor \ {e} : pc'[b] = pc[b] /\ seen'[b] = seen[b]
  BY <1>1, EndMoves DEF RaceInv
<1>9. \A f \in Execution : pc'[f] # "working"
  BY <1>2, <1>8 DEF RaceInv, Locking, Has
<1>10. IInv' /\ UNCHANGED <<asked, result, links>>
  BY <1>1, GatewayRests DEF RaceInv, Typed, gatewayVars
<1>11. Typed'
  <2>1. outcome.attempt \in 0 .. n + 1 /\ \A v \in Verification : match[v] <= n + 1
    BY <1>2 DEF RaceInv, Typed
  <2> QED BY <1>1, <1>5, <1>7, <1>8, <1>10, <2>1 DEF RaceInv, Typed
<1>12. Counting'
  <2>1. Base' = Base /\ Base \in Nat /\ Base <= n
    BY <1>1, <1>2 DEF Base, RaceInv, Counting
  <2> HIDE DEF Base
  <2>2. CountMatchesAttempts'
    BY <1>5, <1>6, <1>7 DEF CountMatchesAttempts, RaceInv, Counting
  <2>3. \A i \in DOMAIN attempts' : i > Base => attempts'[i].action = action
    BY <1>6, <1>7 DEF RaceInv, Counting
  <2>4. \A f \in Execution : pc'[f] \in Under =>
          Base <= seen'[f].count /\ seen'[f].count <= n + 1
    <3>1. \A f \in Execution : seen[f].count \in Nat
      BY DEF RaceInv, Typed, CaseRow
    <3> QED BY <1>2, <1>8, <3>1, <2>1 DEF RaceInv, Counting, Under
  <2>5. n + 1 + Cardinality(Unfinished') <= Cardinality(Execution) + 2
    <3>1. Cardinality(Unfinished') = Cardinality(Unfinished) - 1
      BY <1>1, <1>8, OneLessUnfinished
    <3>2. n + Cardinality(Unfinished) <= Cardinality(Execution) + 2
      BY <1>2 DEF RaceInv, Counting
    <3> QED BY <1>2, <3>1, <3>2, UnfinishedIsFinite
  <2>6. Base <= n + 1
    BY <1>2, <2>1
  <2> QED BY <1>1, <1>5, <1>9, <2>1, <2>2, <2>3, <2>4, <2>5, <2>6 DEF Counting, Has
<1>13. Locking'
  <2>1. \A v \in Verification : pc'[v] = "applied" => found'[v]
    BY <1>1, <1>2, <1>8 DEF RaceInv, Locking, Has
  <2> QED BY <1>9, <2>1 DEF Locking, Has
<1>14. Crediting'
  BY <1>1, <1>5, <1>8 DEF RaceInv, Crediting, CreditHasOutcome, Has
<1>15. Linking'
  <2>1. \A i \in DOMAIN attempts' : attempts'[i].link > 0 => links[attempts'[i].link] > 0
    BY <1>3, <1>6, <1>7 DEF RaceInv, Linking
  <2>2. OpenLinks \subseteq OpenLinks'
    BY <1>7 DEF OpenLinks
  <2>3. action = "CUSTOMER_REMINDER" => OpenLinks' # {}
    BY <2>2 DEF RaceInv, Linking
  <2>4. \A k \in Key : links[k] > 0 => k <= n + 1 + 1
    <3>1. \A k \in Key : k \in Nat
      BY GatewayAssumption
    <3> QED BY <1>2, <3>1 DEF RaceInv, Linking
  <2>5. \A f \in Execution : asked[f].op = "link" =>
          /\ asked[f].key <= n + 1 + 1
          /\ result[f] = "success" => links[asked[f].key] > 0
    <3>1. \A f \in Execution : asked[f].op = "link" => asked[f].key \in Nat
      BY AskedLinkIsKey, GatewayAssumption
    <3> QED BY <1>2, <3>1 DEF RaceInv, Linking
  <2> HIDE DEF OpenLinks
  <2> QED BY <1>1, <1>7, <1>9, <1>10, <2>1, <2>3, <2>4, <2>5 DEF Linking, Has
<1> QED BY <1>11, <1>12, <1>13, <1>14, <1>15 DEF RaceInv

----------------------------------------------------------------------------
(* A verification *)

LEMMA MatchKeeps ==
  ASSUME RaceInv, NEW v \in Verification, Match(v)
  PROVE  RaceInv'
<1> USE ActorsKnown
<1>1. CASE seen[v].status = "RECOVERED"
  <2>1. EndVerification(v) /\ UNCHANGED <<action, caseVars, holder, gatewayVars>>
    BY <1>1 DEF Match
  <2> QED BY <2>1, EndVerificationKeeps
<1>2. CASE seen[v].status # "RECOVERED"
  <2>1. /\ pc[v] = "loaded" /\ pc' = [pc EXCEPT ![v] = "matched"]
        /\ UNCHANGED <<seen, found, action, row, attempts, outcome, holder, gatewayVars>>
        /\ \E link \in LinksNamed(v) : match' = [match EXCEPT ![v] = MatchingAttempt(link)]
    BY <1>2 DEF Match, Has, caseVars
  <2>2. PICK link \in LinksNamed(v) : match' = [match EXCEPT ![v] = MatchingAttempt(link)]
    BY <2>1
  <2>3. MatchingAttempt(link) \in 0 .. Len(attempts)
    BY MatchIsAttempt DEF RaceInv
  <2> HIDE DEF MatchingAttempt
  <2>4. /\ match' \in [Verification -> Nat]
        /\ \A w \in Verification : match'[w] <= Len(attempts)
    BY <2>2, <2>3 DEF RaceInv, Typed
  <2>5. /\ pc'[v] = "matched" /\ pc' \in [Actor -> AtPoints]
        /\ \A b \in Actor \ {v} : pc'[b] = pc[b]
    BY <2>1 DEF RaceInv, Typed, AtPoints
  <2>6. IInv' /\ LinksFollow
    BY <2>1, GatewayRests DEF RaceInv, Typed
  <2>7. Typed'
    BY <2>1, <2>4, <2>5, <2>6 DEF RaceInv, Typed
  <2>8. \A e \in Execution : pc'[e] = pc[e]
    BY <2>5
  <2>9. Counting'
    BY <2>1, <2>8, CountingKept DEF RaceInv, Counting, Has
  <2>10. Locking'
    BY <2>1, <2>5 DEF RaceInv, Locking, Has
  <2>11. Crediting'
    BY <2>1, <2>5 DEF RaceInv, Crediting, CreditHasOutcome, Has, Under
  <2>12. Linking'
    BY <2>1, <2>6, <2>8, LinkingKept
  <2> QED BY <2>7, <2>9, <2>10, <2>11, <2>12 DEF RaceInv
<1> QED BY <1>1, <1>2

\* A verification that finds no outcome writes the amount, which takes the lock.
LEMMA FirstCreditLocks ==
  ASSUME RaceInv, NEW v \in Verification, pc[v] \in Under, outcome = NoOutcome
  PROVE  ChangesRow(v)
<1>1. seen[v].amount \in Nat /\ ~(seen[v].amount > 0)
  BY ActorsKnown DEF RaceInv, Typed, Crediting, CaseRow
<1>2. Amount[v] # seen[v].amount
  BY <1>1, ActorsKnown
<1> QED BY <1>2 DEF ChangesRow

LEMMA ApplyKeeps ==
  ASSUME RaceInv, NEW v \in Verification, Apply(v)
  PROVE  RaceInv'
<1> USE ActorsKnown
<1>1. /\ pc[v] = "matched" /\ pc' = [pc EXCEPT ![v] = "applied"]
      /\ found' = [found EXCEPT ![v] = (outcome # NoOutcome)]
      /\ UNCHANGED <<seen, match, action, row, attempts, outcome, gatewayVars>>
  BY DEF Apply, Has, caseVars
<1>2. \/ ChangesRow(v) /\ holder = NoOne /\ holder' = v
      \/ ~ChangesRow(v) /\ holder' = holder
  BY DEF Apply, LockedBy
<1>3. /\ pc'[v] = "applied" /\ pc' \in [Actor -> AtPoints]
      /\ \A b \in Actor \ {v} : pc'[b] = pc[b]
  BY <1>1 DEF RaceInv, Typed, AtPoints
<1>4. /\ found' \in [Verification -> BOOLEAN]
      /\ found'[v] <=> outcome # NoOutcome
      /\ \A w \in Verification \ {v} : found'[w] = found[w]
  BY <1>1 DEF RaceInv, Typed
<1>5. IInv' /\ LinksFollow
  BY <1>1, GatewayRests DEF RaceInv, Typed
<1>6. Typed'
  <2>1. holder' \in Actor \union {NoOne}
    BY <1>2 DEF RaceInv, Typed
  <2> QED BY <1>1, <1>3, <1>4, <1>5, <2>1 DEF RaceInv, Typed
<1>7. \A e \in Execution : pc'[e] = pc[e]
  BY <1>3
<1>8. Counting'
  BY <1>1, <1>7, CountingKept DEF RaceInv, Counting, Has
<1>9. Locking'
  <2>1. \A e \in Execution : pc'[e] = "working" => holder' = e
    BY <1>2, <1>7 DEF RaceInv, Locking, Has
  <2>2. \A w \in Verification \ {v} : pc'[w] = "applied" /\ ~found'[w] => holder' = w
    BY <1>2, <1>3, <1>4 DEF RaceInv, Locking, Has
  <2>3. ~found'[v] => holder' = v
    BY <1>1, <1>2, <1>4, FirstCreditLocks DEF Under
  <2> QED BY <2>1, <2>2, <2>3 DEF Locking, Has
<1>10. Crediting'
  <2>1. \A w \in Verification : pc'[w] \in Under => pc[w] \in Under
    BY <1>1, <1>3 DEF Under
  <2>2. \A w \in Verification : pc'[w] = "applied" => (found'[w] <=> outcome # NoOutcome)
    BY <1>3, <1>4 DEF RaceInv, Crediting, Has
  <2> QED BY <1>1, <2>1, <2>2 DEF RaceInv, Crediting, CreditHasOutcome, Has
<1>11. Linking'
  BY <1>1, <1>5, <1>7, LinkingKept
<1> QED BY <1>6, <1>8, <1>9, <1>10, <1>11 DEF RaceInv

\* Crediting an attempt changes its status, along its lifecycle, and nothing else.
LEMMA CreditMoves ==
  ASSUME Typed, NEW i \in 0 .. Len(attempts),
         attempts' = IF Credited(i) THEN [attempts EXCEPT ![i].status = "SUCCEEDED"]
                                    ELSE attempts
  PROVE  /\ attempts' \in Seq(Attempt) /\ Len(attempts') = Len(attempts)
         /\ DOMAIN attempts' = DOMAIN attempts
         /\ \A j \in DOMAIN attempts :
              /\ attempts'[j].number = attempts[j].number
              /\ attempts'[j].action = attempts[j].action
              /\ attempts'[j].link = attempts[j].link
              /\ attempts'[j].status \in {attempts[j].status, "SUCCEEDED"}
              /\ attempts'[j] # attempts[j] =>
                   /\ AttemptCan(attempts[j].status, attempts'[j].status)
                   /\ attempts'[j] = [attempts[j] EXCEPT !.status = attempts'[j].status]
<1>1. attempts \in Seq(Attempt) /\ Len(attempts) \in Nat /\ DOMAIN attempts = 1 .. Len(attempts)
  BY DEF Typed
<1>2. CASE Credited(i)
  <2> DEFINE new == [attempts[i] EXCEPT !.status = "SUCCEEDED"]
  <2>1. i \in DOMAIN attempts
    BY <1>1, <1>2 DEF Credited
  <2>2. attempts[i] \in Attempt /\ AttemptCan(attempts[i].status, "SUCCEEDED")
    BY <1>1, <1>2, <2>1 DEF Credited
  <2>3. /\ new \in Attempt /\ new.status = "SUCCEEDED" /\ new.number = attempts[i].number
        /\ new.action = attempts[i].action /\ new.link = attempts[i].link
    BY <2>2 DEF Attempt, AttemptStatuses
  <2>4. new = [attempts[i] EXCEPT !.status = new.status]
    BY <2>3
  <2>5. attempts' = [attempts EXCEPT ![i] = new]
    BY <1>2
  <2> HIDE DEF new
  <2>6. /\ attempts' \in Seq(Attempt) /\ Len(attempts') = Len(attempts)
        /\ DOMAIN attempts' = DOMAIN attempts
        /\ attempts'[i] = new
        /\ \A j \in DOMAIN attempts : j # i => attempts'[j] = attempts[j]
    BY <1>1, <2>1, <2>3, <2>5, ExceptSeq
  <2> QED BY <2>2, <2>3, <2>4, <2>6
<1>3. CASE ~Credited(i)
  BY <1>1, <1>3
<1> QED BY <1>2, <1>3

LEMMA CreditedRow ==
  ASSUME Typed, NEW v \in Verification, CommitVerification(v)
  PROVE  /\ row' \in CaseRow /\ row'.count = row.count
         /\ row'.amount = Written(seen[v].amount, Amount[v], row.amount)
<1>1. seen[v] \in CaseRow /\ row \in CaseRow
  BY ActorsKnown DEF Typed
<1>2. StatusOfVerification(v) \in CaseStatuses
  BY <1>1 DEF StatusOfVerification, CaseRow, CaseStatuses, ActiveStatuses, TerminalStatuses
<1> DEFINE status == Written(seen[v].status, StatusOfVerification(v), row.status)
           amount == Written(seen[v].amount, Amount[v], row.amount)
<1>3. status \in CaseStatuses /\ amount \in Nat
  BY <1>1, <1>2, ActorsKnown DEF Written, CaseRow
<1>4. row' = [row EXCEPT !.status = status, !.amount = amount]
  BY DEF CommitVerification
<1> HIDE DEF status, amount
<1>5. row' \in CaseRow /\ row'.count = row.count /\ row'.amount = amount
  BY <1>1, <1>3, <1>4 DEF CaseRow
<1> QED BY <1>5 DEF amount

LEMMA CommitVerificationKeeps ==
  ASSUME RaceInv, NEW v \in Verification, CommitVerification(v)
  PROVE  RaceInv'
<1> USE ActorsKnown
<1>1. /\ pc[v] = "applied" /\ EndVerification(v)
      /\ outcome' = [settling |-> v, attempt |-> match[v]]
      /\ holder' = Release(v)
      /\ attempts' = IF Credited(match[v])
                       THEN [attempts EXCEPT ![match[v]].status = "SUCCEEDED"]
                       ELSE attempts
      /\ UNCHANGED <<action, gatewayVars>>
  BY DEF CommitVerification, Has
<1>2. /\ row' \in CaseRow /\ row'.count = row.count
      /\ row'.amount = Written(seen[v].amount, Amount[v], row.amount)
  BY CreditedRow DEF RaceInv
<1>3. match[v] \in 0 .. Len(attempts)
  BY DEF RaceInv, Typed
<1>4. /\ attempts' \in Seq(Attempt) /\ Len(attempts') = Len(attempts)
      /\ DOMAIN attempts' = DOMAIN attempts
      /\ \A j \in DOMAIN attempts :
           /\ attempts'[j].number = attempts[j].number
           /\ attempts'[j].action = attempts[j].action
           /\ attempts'[j].link = attempts[j].link
           /\ attempts'[j].status \in {attempts[j].status, "SUCCEEDED"}
  BY <1>1, <1>3, CreditMoves DEF RaceInv
<1>5. /\ pc' \in [Actor -> AtPoints] /\ seen' \in [Actor -> CaseRow]
      /\ pc'[v] = "done"
      /\ \A b \in Actor \ {v} : pc'[b] = pc[b] /\ seen'[b] = seen[b]
      /\ match' \in [Verification -> Nat] /\ found' \in [Verification -> BOOLEAN]
      /\ match'[v] = 0
      /\ \A w \in Verification \ {v} : match'[w] = match[w] /\ found'[w] = found[w]
  BY <1>1, EndVerificationMoves DEF RaceInv
<1>6. \A e \in Execution : pc'[e] = pc[e] /\ seen'[e] = seen[e]
  BY <1>5
<1>7. IInv' /\ LinksFollow
  BY <1>1, GatewayRests DEF RaceInv, Typed
<1>8. Typed'
  <2>1. holder' \in Actor \union {NoOne}
    BY <1>1 DEF Release, RaceInv, Typed
  <2>2. \A w \in Verification : match'[w] <= Len(attempts')
    BY <1>3, <1>4, <1>5 DEF RaceInv, Typed
  <2>3. outcome'.settling \in Verification \union {NoOne} /\ outcome'.attempt \in 0 .. Len(attempts')
    BY <1>1, <1>3, <1>4
  <2> QED BY <1>1, <1>2, <1>4, <1>5, <1>7, <2>1, <2>2, <2>3 DEF RaceInv, Typed
<1>9. Counting'
  BY <1>1, <1>2, <1>4, <1>6, CountingKept DEF RaceInv, Counting, Has
<1>10. Locking'
  <2>1. \A b \in Actor : holder = b /\ b # v => holder' = b
    BY <1>1 DEF Release
  <2> QED BY <1>5, <1>6, <2>1 DEF RaceInv, Locking, Has
<1>11. Crediting'
  <2>1. outcome' # NoOutcome
    BY <1>1 DEF NoOutcome
  <2>2. row'.amount > 0
    <3>1. seen[v].amount \in Nat /\ row.amount \in Nat
      BY DEF RaceInv, Typed, CaseRow
    <3>2. seen[v].amount > 0 => row.amount > 0
      BY <1>1 DEF RaceInv, Crediting, CreditHasOutcome, Under
    <3> QED BY <1>2, <3>1, <3>2 DEF Written
  <2>3. \A w \in Verification : pc'[w] = "applied" => found'[w]
    <3>1. \A w \in Verification : pc[w] = "applied" /\ ~found[w] => w = v
      BY <1>1 DEF RaceInv, Crediting, Locking, Has
    <3> QED BY <1>5, <3>1
  <2> QED BY <2>1, <2>2, <2>3 DEF Crediting, CreditHasOutcome, Has
<1>12. Linking'
  BY <1>1, <1>4, <1>6, <1>7, LinkingKept
<1> QED BY <1>8, <1>9, <1>10, <1>11, <1>12 DEF RaceInv

----------------------------------------------------------------------------
(* The invariant holds *)

LEMMA InitRaceInv ==
  ASSUME Init
  PROVE  RaceInv
<1> USE ActorsKnown
<1>1. /\ GatewayInit /\ outcome = NoOutcome /\ holder = NoOne
      /\ pc \in [Actor -> {"idle", "done"}]
      /\ seen = [a \in Actor |-> Nothing]
      /\ match = [v \in Verification |-> 0]
      /\ found = [v \in Verification |-> FALSE]
  BY DEF Init
<1>2. IInv /\ \A c \in Call : asked[c] = NotAsked
  BY <1>1, InitInvariant DEF GatewayInit
<1>3. Nothing \in CaseRow
  BY DEF Nothing, CaseRow, CaseStatuses, ActiveStatuses
<1>4. 1 \in Key /\ Cardinality(Execution) \in Nat
  BY RaceAssumption, UnfinishedIsFinite
<1>5. /\ action \in Executed /\ row \in CaseRow /\ row.amount = 0
      /\ row.count = Base /\ Len(attempts) = Base
      /\ attempts \in Seq(Attempt)
      /\ \A i \in DOMAIN attempts : attempts[i].number = i
      /\ \A i \in DOMAIN attempts : attempts[i].link > 0 => links[attempts[i].link] > 0
      /\ action = "CUSTOMER_REMINDER" => OpenLinks # {}
      /\ \A k \in Key : links[k] > 0 => k <= Len(attempts) + 1
  <2>1. CASE FirstDecision
    <3>1. /\ action \in {"PAYMENT_LINK", "WAIT_AND_REASSESS", "HUMAN_ESCALATION"}
          /\ row = [status |-> "APPROVED", count |-> 0, amount |-> 0]
          /\ attempts = <<>> /\ links = [k \in Key |-> 0]
      BY <2>1 DEF FirstDecision
    <3>2. row \in CaseRow
      BY <3>1 DEF CaseRow, CaseStatuses, ActiveStatuses
    <3> QED BY <3>1, <3>2 DEF Executed, Base
  <2>2. CASE ReminderDecision
    <3> DEFINE first == [number |-> 1, action |-> "PAYMENT_LINK",
                         status |-> "ACKNOWLEDGED", link |-> 1]
               second == [number |-> 2, action |-> "PAYMENT_LINK",
                          status |-> "FAILED", link |-> 0]
    <3>1. /\ action = "CUSTOMER_REMINDER"
          /\ row = [status |-> "APPROVED", count |-> 2, amount |-> 0]
          /\ attempts = <<first, second>>
          /\ links = [k \in Key |-> IF k = 1 THEN 1 ELSE 0]
      BY <2>2 DEF ReminderDecision
    <3>2. row \in CaseRow
      BY <3>1 DEF CaseRow, CaseStatuses, ActiveStatuses
    <3>3. first \in Attempt /\ second \in Attempt
      BY <1>4 DEF Attempt, Actions, AttemptStatuses
    <3>4. /\ first.number = 1 /\ first.link = 1 /\ first.action = "PAYMENT_LINK"
          /\ first.status = "ACKNOWLEDGED" /\ second.number = 2 /\ second.link = 0
      OBVIOUS
    <3> HIDE DEF first, second
    <3>5. /\ attempts \in Seq(Attempt) /\ Len(attempts) = 2
          /\ \A i \in DOMAIN attempts : i = 1 \/ i = 2
          /\ 1 \in DOMAIN attempts /\ attempts[1] = first /\ attempts[2] = second
      BY <3>1, <3>3
    <3>6. 1 \in OpenLinks
      BY <3>4, <3>5 DEF OpenLinks
    <3>7. links[1] > 0 /\ \A k \in Key : links[k] > 0 => k <= 3
      BY <3>1, <1>4
    <3> QED BY <3>1, <3>2, <3>4, <3>5, <3>6, <3>7 DEF Executed, Base
  <2> QED BY <2>1, <2>2 DEF Init
<1>6. Typed
  BY <1>1, <1>2, <1>3, <1>5 DEF Typed, NoOutcome, AtPoints
<1>7. Counting
  <2>1. Base \in 0 .. 2
    BY DEF Base
  <2> HIDE DEF Base
  <2>2. \A e \in Execution : pc[e] \notin Under
    BY <1>1 DEF Under
  <2>3. Base + Cardinality(Unfinished) <= Cardinality(Execution) + 2
    BY <2>1, UnfinishedIsFinite
  <2>4. \A i \in DOMAIN attempts : ~(i > Base)
    BY <1>5, <2>1
  <2> QED BY <1>5, <2>1, <2>2, <2>3, <2>4 DEF Counting, CountMatchesAttempts, Has, Under
<1>8. Locking /\ Crediting
  <2>1. \A a \in Actor : pc[a] \notin Under
    BY <1>1 DEF Under
  <2>2. CreditHasOutcome
    BY <1>1, <1>5 DEF CreditHasOutcome
  <2> QED BY <2>1, <2>2 DEF Locking, Crediting, Has, Under
<1>9. Linking
  BY <1>1, <1>2, <1>5 DEF Linking, Has, NotAsked
<1> QED BY <1>6, <1>7, <1>8, <1>9 DEF RaceInv

LEMMA RaceInvKept ==
  ASSUME RaceInv, [Next]_vars
  PROVE  RaceInv'
<1>1. ASSUME NEW e \in Execution, ExecutionStep(e) \/ AbortExecution(e)
      PROVE  RaceInv'
  BY <1>1, LoadForExecutionKeeps, AdmittedBeginKeeps, RefusedBeginKeeps,
     CommitExecutionKeeps, AbortExecutionKeeps DEF ExecutionStep
<1>2. ASSUME NEW v \in Verification, VerificationStep(v) \/ AbortVerification(v)
      PROVE  RaceInv'
  <2>1. CASE AbortVerification(v)
    BY <2>1, EndVerificationKeeps DEF AbortVerification
  <2>2. CASE VerificationStep(v)
    BY <2>2, LoadForSimulationKeeps, LoadForCaptureKeeps, MatchKeeps, ApplyKeeps,
       CommitVerificationKeeps DEF VerificationStep
  <2> QED BY <1>2, <2>1, <2>2
<1>3. CASE GatewayStep /\ UNCHANGED <<action, caseVars, holder, pc, seen, match, found>>
  BY <1>3, GatewayStepKeeps
<1>4. CASE UNCHANGED vars
  <2>1. /\ UNCHANGED <<action, row, attempts, outcome, holder, pc, seen, match, found>>
        /\ UNCHANGED gatewayVars
    BY <1>4 DEF vars
  <2>2. IInv' /\ LinksFollow
    BY <2>1, GatewayRests DEF RaceInv, Typed
  <2>3. Typed'
    BY <2>1, <2>2 DEF RaceInv, Typed
  <2>4. Counting' /\ Locking' /\ Crediting'
    <3>1. Unfinished' = Unfinished /\ Base' = Base
      BY <2>1 DEF Unfinished, Base
    <3> HIDE DEF Base, Unfinished
    <3> QED BY <2>1, <3>1 DEF RaceInv, Counting, Locking, Crediting,
                              CountMatchesAttempts, CreditHasOutcome, Has
  <2>5. Linking'
    BY <2>1, <2>2, LinkingKept
  <2> QED BY <2>3, <2>4, <2>5 DEF RaceInv
<1> QED BY <1>1, <1>2, <1>3, <1>4 DEF Next

LEMMA RaceInvHolds == Spec => []RaceInv
  BY InitRaceInv, RaceInvKept, PTL DEF Spec

----------------------------------------------------------------------------
(* What follows *)

\* Whatever /execute, /simulate-payment and the webhooks of one case interleave,
\* every row, session object and adapter call keeps its type.
THEOREM RaceTypeCorrect == Spec => []TypeOK
<1>1. RaceInv => TypeOK
  BY DEF RaceInv, Typed, TypeOK, Executed, Actions, AtPoints, IInv
<1> QED BY <1>1, RaceInvHolds, PTL

\* current_attempt_count, written from a possibly stale object, counts the
\* attempts, and any number of concurrent or repeated executions number them
\* 1, 2, 3, ... without a gap or a repetition.
THEOREM CountStaysExact == Spec => []CountMatchesAttempts
<1>1. RaceInv => CountMatchesAttempts
  BY DEF RaceInv, Counting
<1> QED BY <1>1, RaceInvHolds, PTL

\* What the orchestrator's idempotency lookup and the verification's outcome
\* lookup found is still so when they commit: no unique constraint is hit.
THEOREM LookupsStayTrue == Spec => []LookupsHold
<1>1. RaceInv => LookupsHold
  <2> SUFFICES ASSUME RaceInv PROVE LookupsHold
    OBVIOUS
  <2>1. ASSUME NEW e \in Execution, Has(e, "working")
        PROVE  /\ ~KeyUsed(e)
               /\ \A f \in Execution \ {e} : Has(f, "working") => Number(f) # Number(e)
    <3>1. /\ seen[e].count = Len(attempts) /\ Len(attempts) \in Nat
          /\ DOMAIN attempts = 1 .. Len(attempts) /\ holder = e
      BY <2>1 DEF RaceInv, Typed, Counting, CountMatchesAttempts, Locking
    <3>2. ~KeyUsed(e)
      BY <3>1 DEF KeyUsed, Number, RaceInv, Counting, CountMatchesAttempts
    <3>3. \A f \in Execution : Has(f, "working") => f = e
      BY <3>1 DEF RaceInv, Locking
    <3> QED BY <3>2, <3>3
  <2>2. ASSUME NEW v \in Verification, Has(v, "applied"), ~found[v]
        PROVE  /\ outcome = NoOutcome
               /\ \A w \in Verification \ {v} : Has(w, "applied") => found[w]
    BY <2>2 DEF RaceInv, Crediting, Locking
  <2> QED BY <2>1, <2>2 DEF LookupsHold
<1> QED BY <1>1, RaceInvHolds, PTL

\* The case has a recovered amount exactly when an outcome row says what
\* recovered it, however executions and verifications overtake one another.
THEOREM CreditIsExplained == Spec => []CreditHasOutcome
<1>1. RaceInv => CreditHasOutcome
  BY DEF RaceInv, Crediting
<1> QED BY <1>1, RaceInvHolds, PTL

\* However many executions die between create_payment_link and the commit, the
\* next one asks under the same key, so that at most one link is on no attempt.
THEOREM OrphanLinksAreFew == Spec => []AtMostOneOrphanLink
<1>1. RaceInv => AtMostOneOrphanLink
  <2> SUFFICES ASSUME RaceInv PROVE AtMostOneOrphanLink
    OBVIOUS
  <2> DEFINE orphans == {k \in Key : links[k] > 0 /\ k > Len(attempts)}
             next == Len(attempts) + 1
  <2>1. orphans \subseteq {next}
    <3>1. Len(attempts) \in Nat /\ Key \subseteq Nat \ {0}
      BY GatewayAssumption DEF RaceInv, Typed
    <3> QED BY <3>1 DEF RaceInv, Linking
  <2>2. IsFiniteSet({next}) /\ Cardinality({next}) = 1
    BY FS_Singleton
  <2> HIDE DEF orphans, next
  <2>3. Cardinality(orphans) <= 1
    BY <2>1, <2>2, FS_Subset
  <2> QED BY <2>3 DEF AtMostOneOrphanLink, RaceInv, Linking, orphans
<1> QED BY <1>1, RaceInvHolds, PTL

\* A recovery_attempts row is never lost, and its status never leaves the
\* lifecycle of the state machine, whichever request writes it.
THEOREM AttemptsFollowLifecycle == Spec => AttemptsKeepTheirLifecycle
<1> DEFINE Kept ==
             \A i \in DOMAIN attempts :
               /\ i \in DOMAIN attempts'
               /\ attempts'[i] # attempts[i] =>
                    /\ AttemptCan(attempts[i].status, attempts'[i].status)
                    /\ attempts'[i] = [attempts[i] EXCEPT !.status = attempts'[i].status]
<1>1. RaceInv /\ [Next]_vars => [Kept]_vars
  <2> SUFFICES ASSUME RaceInv, Next PROVE Kept
    OBVIOUS
  <2>1. attempts' = attempts => Kept
    OBVIOUS
  <2>2. ASSUME NEW e \in Execution, CommitExecution(e)
        PROVE  Kept
    <3> DEFINE r == ExecutorResult(e)
               new == [number |-> Number(e), action |-> action, status |-> r.status,
                       link |-> r.link]
    <3>1. attempts' = Append(attempts, new) /\ attempts \in Seq(Attempt)
      BY <2>2 DEF CommitExecution, RaceInv, Typed
    <3> HIDE DEF new
    <3>2. \A i \in DOMAIN attempts : i \in DOMAIN attempts' /\ attempts'[i] = attempts[i]
      BY <3>1
    <3> QED BY <3>2
  <2>3. ASSUME NEW v \in Verification, CommitVerification(v)
        PROVE  Kept
    <3>1. match[v] \in 0 .. Len(attempts)
      BY DEF RaceInv, Typed
    <3>2. attempts' = IF Credited(match[v])
                        THEN [attempts EXCEPT ![match[v]].status = "SUCCEEDED"]
                        ELSE attempts
      BY <2>3 DEF CommitVerification
    <3> QED BY <3>1, <3>2, CreditMoves DEF RaceInv
  <2>4. ASSUME NEW e \in Execution, LoadForExecution(e) \/ Begin(e) \/ AbortExecution(e)
        PROVE  attempts' = attempts
    BY <2>4 DEF LoadForExecution, Begin, AbortExecution, caseVars
  <2>5. ASSUME NEW v \in Verification,
               \/ LoadForSimulation(v) \/ LoadForCapture(v) \/ Match(v) \/ Apply(v)
               \/ AbortVerification(v)
        PROVE  attempts' = attempts
    BY <2>5 DEF LoadForSimulation, LoadForCapture, Match, Apply, AbortVerification, caseVars
  <2>6. CASE GatewayStep /\ UNCHANGED <<action, caseVars, holder, pc, seen, match, found>>
    BY <2>1, <2>6 DEF caseVars
  <2> HIDE DEF Kept
  <2> QED BY <2>1, <2>2, <2>3, <2>4, <2>5, <2>6 DEF Next, ExecutionStep, VerificationStep
<1> QED BY <1>1, RaceInvHolds, PTL DEF Spec, AttemptsKeepTheirLifecycle

\* Executions that die, wait or repeat one another's keys use the gateway only as
\* PaymentGatewayPort promises: one key makes at most one link, and success is
\* reported only of what was done.
THEOREM RaceUsesPort == Spec => ImplementsPort
<1>1. Init => Port!Init
  BY DEF Init, GatewayInit, Port!Init, NotAsked, Port!NotAsked
<1>2. RaceInv /\ [Next]_vars => [Port!Next]_(Port!vars)
  <2> SUFFICES ASSUME RaceInv, [Next]_vars PROVE [GatewayNext]_gatewayVars
    BY StepRefines DEF RaceInv, Typed
  <2>1. ASSUME NEW e \in Execution, Begin(e)
        PROVE  [GatewayNext]_gatewayVars
    <3>1. CASE Admissible(e) /\ CallsGateway
      <4>1. Ask(e, GatewayRequest(e)) /\ e \in Call
        BY <2>1, <3>1 DEF Begin, Execution
      <4>2. GatewayRequest(e) \in Request
        BY <2>1, NumberIsKey DEF Begin, Has, GatewayRequest, Request
      <4> QED BY <4>1, <4>2 DEF GatewayNext
    <3>2. CASE ~(Admissible(e) /\ CallsGateway)
      BY <2>1, <3>2 DEF Begin
    <3> QED BY <3>1, <3>2
  <2>2. ASSUME NEW e \in Execution, AbortExecution(e)
        PROVE  [GatewayNext]_gatewayVars
    BY <2>2 DEF AbortExecution, GatewayNext, Execution
  <2>3. ASSUME NEW e \in Execution, LoadForExecution(e) \/ CommitExecution(e)
        PROVE  [GatewayNext]_gatewayVars
    BY <2>3 DEF LoadForExecution, CommitExecution
  <2>4. ASSUME NEW v \in Verification, VerificationStep(v) \/ AbortVerification(v)
        PROVE  [GatewayNext]_gatewayVars
    BY <2>4 DEF VerificationStep, LoadForSimulation, LoadForCapture, Match, Apply,
                CommitVerification, AbortVerification
  <2>5. CASE GatewayStep
    BY <2>5 DEF GatewayNext
  <2>6. CASE UNCHANGED vars
    BY <2>6 DEF vars
  <2> QED BY <2>1, <2>2, <2>3, <2>4, <2>5, <2>6 DEF Next, ExecutionStep
<1> QED BY <1>1, <1>2, RaceInvHolds, PTL DEF Spec, ImplementsPort, Port!Spec

----------------------------------------------------------------------------
(* Who may touch a recovered case *)

\* A request that got past its checks had loaded a case that was not recovered.
LoadedUnrecovered ==
  \A a \in Actor : pc[a] \in {"matched", "applied", "working"} => seen[a].status # "RECOVERED"

\* A step of one actor, which gets to such a point only with such a case.
LEMMA UnrecoveredKept ==
  ASSUME Typed, LoadedUnrecovered, NEW a \in Actor,
         \E point \in AtPoints, c \in CaseRow :
           /\ pc' = [pc EXCEPT ![a] = point]
           /\ seen' = seen \/ seen' = [seen EXCEPT ![a] = c]
           /\ point \in {"matched", "applied", "working"} =>
                seen' = seen /\ seen[a].status # "RECOVERED"
  PROVE  LoadedUnrecovered'
<1>1. pc \in [Actor -> AtPoints] /\ seen \in [Actor -> CaseRow]
  BY DEF Typed
<1>2. pc'[a] \in {"matched", "applied", "working"} => seen'[a].status # "RECOVERED"
  BY <1>1
<1>3. \A b \in Actor \ {a} : pc'[b] = pc[b] /\ seen'[b] = seen[b]
  BY <1>1
<1> QED BY <1>2, <1>3 DEF LoadedUnrecovered

LEMMA UnrecoveredInductive ==
  ASSUME RaceInv, LoadedUnrecovered, [Next]_vars
  PROVE  LoadedUnrecovered'
<1>1. Typed /\ row \in CaseRow /\ Nothing \in CaseRow
  BY DEF RaceInv, Typed, Nothing, CaseRow, CaseStatuses, ActiveStatuses
<1>2. ASSUME NEW a \in Actor, End(a)
      PROVE  LoadedUnrecovered'
  BY <1>1, <1>2, UnrecoveredKept DEF End, AtPoints
<1>3. ASSUME NEW a \in Actor, pc' = [pc EXCEPT ![a] = "loaded"], seen' = [seen EXCEPT ![a] = row]
      PROVE  LoadedUnrecovered'
  BY <1>1, <1>3, UnrecoveredKept DEF AtPoints
<1>4. ASSUME NEW a \in Actor, NEW point \in {"matched", "applied", "working"},
             pc' = [pc EXCEPT ![a] = point], seen' = seen, seen[a].status # "RECOVERED"
      PROVE  LoadedUnrecovered'
  BY <1>1, <1>4, UnrecoveredKept DEF AtPoints
<1>5. ASSUME NEW e \in Execution, ExecutionStep(e) \/ AbortExecution(e)
      PROVE  LoadedUnrecovered'
  <2>1. e \in Actor
    BY ActorsKnown
  <2>2. CASE LoadForExecution(e)
    BY <1>3, <2>1, <2>2 DEF LoadForExecution
  <2>3. CASE Begin(e) /\ Admissible(e)
    BY <1>4, <2>1, <2>3 DEF Begin, Admissible, TerminalStatuses
  <2>4. CASE Begin(e) /\ ~Admissible(e)
    BY <1>2, <2>1, <2>4 DEF Begin
  <2>5. CASE CommitExecution(e) \/ AbortExecution(e)
    BY <1>2, <2>1, <2>5 DEF CommitExecution, AbortExecution
  <2> QED BY <1>5, <2>2, <2>3, <2>4, <2>5 DEF ExecutionStep
<1>6. ASSUME NEW v \in Verification, VerificationStep(v) \/ AbortVerification(v)
      PROVE  LoadedUnrecovered'
  <2>1. v \in Actor
    BY ActorsKnown
  <2>2. CASE LoadForSimulation(v)
    BY <1>3, <2>1, <2>2 DEF LoadForSimulation
  <2>3. CASE LoadForCapture(v)
    BY <1>2, <1>3, <2>1, <2>3 DEF LoadForCapture
  <2>4. CASE Match(v)
    BY <1>2, <1>4, <2>1, <2>4 DEF Match, EndVerification
  <2>5. CASE Apply(v)
    BY <1>4, <2>1, <2>5 DEF Apply, Has, LoadedUnrecovered
  <2>6. CASE CommitVerification(v) \/ AbortVerification(v)
    BY <1>2, <2>1, <2>6 DEF CommitVerification, AbortVerification, EndVerification
  <2> QED BY <1>6, <2>2, <2>3, <2>4, <2>5, <2>6 DEF VerificationStep
<1>7. CASE UNCHANGED <<pc, seen>>
  BY <1>7 DEF LoadedUnrecovered
<1> QED BY <1>5, <1>6, <1>7 DEF Next, vars

\* A recovered case is changed only by the commit of an execution or a verification
\* that had loaded it before it was recovered: the checks of execute_command and of
\* verify_and_recover_case keep everybody else off it, however they interleave.
THEOREM ReopenedOnlyByStaleRequests == Spec => OnlyStaleRequestsReopen
<1> DEFINE Stale ==
             row.status = "RECOVERED" =>
               \E a \in Actor : /\ pc[a] \in {"working", "applied"} /\ pc'[a] = "done"
                                /\ seen[a].status # "RECOVERED"
<1>1. Init => LoadedUnrecovered
  BY DEF Init, LoadedUnrecovered
<1>2. RaceInv /\ LoadedUnrecovered /\ [Next]_vars => [Stale]_caseVars
  <2> SUFFICES ASSUME RaceInv, LoadedUnrecovered, [Next]_vars, ~UNCHANGED caseVars
               PROVE  \E a \in Actor : /\ pc[a] \in {"working", "applied"} /\ pc'[a] = "done"
                                       /\ seen[a].status # "RECOVERED"
    OBVIOUS
  <2>1. ASSUME NEW a \in Actor, pc[a] \in {"working", "applied"}, End(a)
        PROVE  \E b \in Actor : /\ pc[b] \in {"working", "applied"} /\ pc'[b] = "done"
                                /\ seen[b].status # "RECOVERED"
    BY <2>1 DEF End, LoadedUnrecovered, RaceInv, Typed
  <2>2. ASSUME NEW e \in Execution, ExecutionStep(e) \/ AbortExecution(e)
        PROVE  Has(e, "working") /\ End(e)
    BY <2>2 DEF ExecutionStep, LoadForExecution, Begin, AbortExecution, CommitExecution
  <2>3. ASSUME NEW v \in Verification, VerificationStep(v) \/ AbortVerification(v)
        PROVE  Has(v, "applied") /\ End(v)
    BY <2>3 DEF VerificationStep, LoadForSimulation, LoadForCapture, Match, Apply,
                AbortVerification, CommitVerification, EndVerification
  <2>4. \/ \E e \in Execution : ExecutionStep(e) \/ AbortExecution(e)
        \/ \E v \in Verification : VerificationStep(v) \/ AbortVerification(v)
    BY DEF Next, vars, caseVars
  <2> QED BY <2>1, <2>2, <2>3, <2>4, ActorsKnown DEF Has
<1>3. RaceInv /\ LoadedUnrecovered /\ [Next]_vars => LoadedUnrecovered'
  BY UnrecoveredInductive
<1> QED BY <1>1, <1>2, <1>3, RaceInvHolds, PTL DEF Spec, OnlyStaleRequestsReopen

=============================================================================
