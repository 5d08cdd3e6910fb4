------------------------ MODULE GatewayAdapter_proofs ------------------------
(***************************************************************************)
(* For any calls, keys and number of retries: the adapter's variables keep *)
(* their types, and its request loop implements the port (GatewayPort).    *)
(* The refinement needs to know that a reminder is never sent twice and    *)
(* that what is on the wire was asked for.                                 *)
(***************************************************************************)
EXTENDS GatewayAdapter, TLAPS

\* A key has at most one link, a reminder call at most one message; only a call
\* that was made has requests; a request has the number of one of its tries; and
\* a reminder, tried once, is on the wire or was sent, never both.
AtMostOnce ==
  /\ \A k \in Key : links[k] \in {0, 1}
  /\ \A c \in Call : notices[c] \in {0, 1}
  /\ \A c \in Call : asked[c] = NotAsked =>
       tries[c] = 0 /\ result[c] = "none" /\ notices[c] = 0
  /\ \A c \in Call : \A n \in 1 .. MaxRetries + 1 : <<c, n>> \in wire =>
       /\ n <= tries[c]
       /\ asked[c].op = "reminder" => notices[c] = 0
  /\ \A c \in Call : asked[c].op = "reminder" => tries[c] <= 1

IInv == GatewayTypeOK /\ AtMostOnce

----------------------------------------------------------------------------
(* Types *)

LEMMA InitInvariant == GatewayInit => IInv
  BY GatewayAssumption, SMT DEF GatewayInit, IInv, GatewayTypeOK, AtMostOnce, Wire, NotAsked, Request

\* Doing what a call asks for keeps the types of what the gateway has.
LEMMA PerformType ==
  ASSUME NEW c \in Call, GatewayTypeOK, asked[c] # NotAsked, Perform(c)
  PROVE  /\ links' \in [Key -> Nat]
         /\ notices' \in [Call -> Nat]
  <1>1. CASE asked[c].op = "link"
    BY <1>1, SMT DEF Perform, GatewayTypeOK, LinksAfter, Request, NotAsked
  <1>2. CASE asked[c].op # "link"
    BY <1>2, SMT DEF Perform, GatewayTypeOK
  <1> QED BY <1>1, <1>2

\* A retry takes a number the wire has room for.
LEMMA RetryType ==
  ASSUME NEW c \in Call, NEW w, w \subseteq Wire, GatewayTypeOK, RetryOrReturn(c, w)
  PROVE  /\ tries' \in [Call -> 0 .. MaxRetries + 1]
         /\ result' \in [Call -> {"none", "success", "permanent", "retryable", "lost"}]
         /\ wire' \subseteq Wire
  <1>1. CASE MayRetry(c)
    <2>1. tries[c] + 1 \in 1 .. MaxRetries + 1
      BY <1>1, GatewayAssumption, SMT DEF MayRetry, GatewayTypeOK
    <2>2. <<c, tries[c] + 1>> \in Wire
      BY <2>1, SMT DEF Wire
    <2> QED BY <1>1, <2>1, <2>2, GatewayAssumption, SMT DEF RetryOrReturn, GatewayTypeOK
  <1>2. CASE ~MayRetry(c)
    BY <1>2, SMT DEF RetryOrReturn, Return, GatewayTypeOK
  <1> QED BY <1>1, <1>2

----------------------------------------------------------------------------
(* The invariant is inductive *)

LEMMA AskKeeps ==
  ASSUME NEW c \in Call, NEW request \in Request, IInv, Ask(c, request)
  PROVE  IInv'
  <1>1. GatewayTypeOK'
    <2>1. <<c, 1>> \in Wire
      BY GatewayAssumption, SMT DEF Wire
    <2> QED BY <2>1, GatewayAssumption, SMT DEF Ask, IInv, GatewayTypeOK
  <1>2. request # NotAsked
    BY SMT DEF Request, NotAsked
  <1>3. AtMostOnce'
    BY <1>2, GatewayAssumption, SMT DEF Ask, IInv, GatewayTypeOK, AtMostOnce, NotAsked, Request
  <1> QED BY <1>1, <1>3 DEF IInv

\* A reminder on the wire is the first and only one of its call.
LEMMA PerformOnce ==
  ASSUME NEW c \in Call, NEW n \in 1 .. MaxRetries + 1, IInv, <<c, n>> \in wire,
         wire' = wire \ {<<c, n>>}, Perform(c), UNCHANGED <<asked, tries>>
  PROVE  /\ \A k \in Key : links'[k] \in {0, 1}
         /\ \A d \in Call : notices'[d] \in {0, 1}
         /\ \A d \in Call : asked[d] = NotAsked => notices'[d] = 0
         /\ \A d \in Call : \A i \in 1 .. MaxRetries + 1 : <<d, i>> \in wire' =>
              i <= tries'[d] /\ (asked'[d].op = "reminder" => notices'[d] = 0)
  <1>1. asked[c] # NotAsked
    BY GatewayAssumption, SMT DEF IInv, AtMostOnce, GatewayTypeOK, Wire
  <1>2. CASE asked[c].op = "link"
    BY <1>1, <1>2, SMT DEF Perform, LinksAfter, IInv, AtMostOnce, GatewayTypeOK, NotAsked, Request
  <1>3. CASE asked[c].op # "link"
    <2>1. asked[c].op = "reminder"
      BY <1>1, <1>3, SMT DEF IInv, GatewayTypeOK, Request
    <2>2. notices[c] = 0 /\ tries[c] <= 1 /\ n <= tries[c]
      BY <2>1, SMT DEF IInv, AtMostOnce
    <2>3. \A i \in 1 .. MaxRetries + 1 : <<c, i>> \notin wire'
      BY <2>1, <2>2, GatewayAssumption, SMT DEF IInv, AtMostOnce, GatewayTypeOK
    <2> QED BY <1>1, <1>3, <2>1, <2>2, <2>3, SMT DEF Perform, IInv, AtMostOnce, GatewayTypeOK
  <1> QED BY <1>2, <1>3

LEMMA ActUnheardKeeps ==
  ASSUME NEW c \in Call, NEW n \in 1 .. MaxRetries + 1, IInv, ActUnheard(c, n)
  PROVE  IInv'
  <1>1. asked[c] # NotAsked
    BY GatewayAssumption, SMT DEF ActUnheard, IInv, AtMostOnce, GatewayTypeOK
  <1>2. links' \in [Key -> Nat] /\ notices' \in [Call -> Nat]
    BY <1>1, PerformType DEF ActUnheard, IInv
  <1>3. GatewayTypeOK'
    BY <1>2, SMT DEF ActUnheard, IInv, GatewayTypeOK
  <1>4. /\ <<c, n>> \in wire
        /\ wire' = wire \ {<<c, n>>}
        /\ Perform(c)
        /\ UNCHANGED <<asked, tries, result>>
    BY DEF ActUnheard
  <1>5. /\ \A k \in Key : links'[k] \in {0, 1}
        /\ \A d \in Call : notices'[d] \in {0, 1}
        /\ \A d \in Call : asked[d] = NotAsked => notices'[d] = 0
        /\ \A d \in Call : \A i \in 1 .. MaxRetries + 1 : <<d, i>> \in wire' =>
             i <= tries'[d] /\ (asked'[d].op = "reminder" => notices'[d] = 0)
    BY <1>4, PerformOnce
  <1>6. AtMostOnce'
    BY <1>4, <1>5, SMT DEF IInv, AtMostOnce
  <1> QED BY <1>3, <1>6 DEF IInv

\* The current try of a waiting call is one the wire has room for.
LEMMA CurrentTry ==
  ASSUME NEW c \in Call, IInv, Waiting(c), Current(c) \in wire
  PROVE  tries[c] \in 1 .. MaxRetries + 1
  BY GatewayAssumption, SMT DEF IInv, GatewayTypeOK, Waiting, Current, Wire

\* An answer ends the call after its operation was performed.
LEMMA AnswerKeeps ==
  ASSUME NEW c \in Call, NEW r \in {"success", "permanent"}, IInv, Waiting(c),
         Current(c) \in wire, wire' = wire \ {Current(c)},
         Perform(c), Return(c, r), UNCHANGED <<asked, tries>>
  PROVE  IInv'
  <1>1. tries[c] \in 1 .. MaxRetries + 1
    BY CurrentTry
  <1>2. links' \in [Key -> Nat] /\ notices' \in [Call -> Nat]
    BY PerformType DEF Waiting, IInv
  <1>3. <<c, tries[c]>> \in wire /\ wire' = wire \ {<<c, tries[c]>>}
    BY DEF Current
  <1>4. /\ \A k \in Key : links'[k] \in {0, 1}
        /\ \A d \in Call : notices'[d] \in {0, 1}
        /\ \A d \in Call : asked[d] = NotAsked => notices'[d] = 0
        /\ \A d \in Call : \A i \in 1 .. MaxRetries + 1 : <<d, i>> \in wire' =>
             i <= tries'[d] /\ (asked'[d].op = "reminder" => notices'[d] = 0)
    BY <1>1, <1>3, PerformOnce
  <1>5. GatewayTypeOK'
    <2>1. result' \in [Call -> {"none", "success", "permanent", "retryable", "lost"}]
      BY SMT DEF Return, IInv, GatewayTypeOK
    <2>2. wire' \subseteq Wire
      BY SMT DEF IInv, GatewayTypeOK
    <2> QED BY <1>2, <2>1, <2>2, SMT DEF IInv, GatewayTypeOK
  <1>6. AtMostOnce'
    BY <1>3, <1>4, SMT DEF Return, Waiting, IInv, AtMostOnce, GatewayTypeOK
  <1> QED BY <1>5, <1>6 DEF IInv

\* A step that only ends a call, and may take its request from the wire.
LEMMA ReturnKeeps ==
  ASSUME NEW c \in Call, NEW r \in {"permanent", "retryable", "lost"}, IInv, Waiting(c),
         Return(c, r), wire' \subseteq wire, UNCHANGED <<asked, tries, links, notices>>
  PROVE  IInv'
  BY SMT DEF IInv, GatewayTypeOK, AtMostOnce, Waiting, Return

\* Retrying or giving up, when the gateway was left alone.
LEMMA RetryKeeps ==
  ASSUME NEW c \in Call, NEW w, w \subseteq wire, IInv, Waiting(c), RetryOrReturn(c, w),
         UNCHANGED <<asked, links, notices>>
  PROVE  IInv'
  <1>1. CASE MayRetry(c)
    <2>1. GatewayTypeOK'
      BY RetryType, SMT DEF IInv, GatewayTypeOK
    <2>2. tries[c] \in Nat /\ asked[c].op = "link"
      BY <1>1, GatewayAssumption, SMT DEF MayRetry, IInv, GatewayTypeOK
    <2>3. /\ tries' = [tries EXCEPT ![c] = tries[c] + 1]
          /\ wire' = w \union {<<c, tries[c] + 1>>}
          /\ UNCHANGED result
      BY <1>1 DEF RetryOrReturn
    <2>4. AtMostOnce'
      BY <2>2, <2>3, GatewayAssumption, SMT DEF IInv, AtMostOnce, GatewayTypeOK, Waiting, NotAsked
    <2> QED BY <2>1, <2>4 DEF IInv
  <1>2. CASE ~MayRetry(c)
    BY <1>2, ReturnKeeps DEF RetryOrReturn
  <1> QED BY <1>1, <1>2

\* A failed try whose operation was performed all the same.
LEMMA FailKeeps ==
  ASSUME NEW c \in Call, IInv, Fail(c)
  PROVE  IInv'
  <1>1. CASE UNCHANGED <<links, notices>>
    BY <1>1, RetryKeeps DEF Fail
  <1>2. CASE Perform(c)
    <2> DEFINE w == wire \ {Current(c)}
    <2>1. tries[c] \in 1 .. MaxRetries + 1
      BY CurrentTry DEF Fail
    <2>2. links' \in [Key -> Nat] /\ notices' \in [Call -> Nat]
      BY <1>2, PerformType DEF Fail, Waiting, IInv
    <2>3. w \subseteq Wire
      BY SMT DEF IInv, GatewayTypeOK
    <2>4. GatewayTypeOK'
      BY <2>2, <2>3, RetryType, SMT DEF Fail, IInv, GatewayTypeOK
    <2>5. CASE asked[c].op = "link"
      <3>1. links' = [links EXCEPT ![asked[c].key] = LinksAfter(asked[c].key)] /\ UNCHANGED notices
        BY <1>2, <2>5 DEF Perform
      <3>2. \A k \in Key : links'[k] \in {0, 1}
        BY <3>1, SMT DEF LinksAfter, IInv, AtMostOnce, GatewayTypeOK
      <3>3. CASE MayRetry(c)
        <4>1. /\ tries' = [tries EXCEPT ![c] = tries[c] + 1]
              /\ wire' = w \union {<<c, tries[c] + 1>>}
              /\ UNCHANGED <<asked, result>>
          BY <3>3 DEF Fail, RetryOrReturn
        <4>2. asked[c] # NotAsked /\ tries[c] \in Nat
          BY <2>1, SMT DEF Fail, Waiting
        <4>3. AtMostOnce'
          BY <2>5, <3>1, <3>2, <4>1, <4>2, GatewayAssumption, SMT
          DEF IInv, AtMostOnce, GatewayTypeOK
        <4> QED BY <4>3, <2>4 DEF IInv
      <3>4. CASE ~MayRetry(c)
        <4>1. UNCHANGED <<asked, tries>> /\ wire' = w /\ Return(c, "retryable")
          BY <3>4 DEF Fail, RetryOrReturn
        <4>2. AtMostOnce'
          BY <4>1, <3>1, <3>2, SMT DEF Fail, Waiting, Return, IInv, AtMostOnce, GatewayTypeOK
        <4> QED BY <4>2, <2>4 DEF IInv
      <3> QED BY <3>3, <3>4, <2>4 DEF IInv
    <2>6. CASE asked[c].op # "link"
      <3>1. UNCHANGED <<asked, tries>> /\ wire' = w /\ Return(c, "retryable")
        BY <2>6 DEF Fail, RetryOrReturn, MayRetry
      <3>2. /\ \A k \in Key : links'[k] \in {0, 1}
            /\ \A d \in Call : notices'[d] \in {0, 1}
            /\ \A d \in Call : asked[d] = NotAsked => notices'[d] = 0
            /\ \A d \in Call : \A i \in 1 .. MaxRetries + 1 : <<d, i>> \in wire' =>
                 i <= tries'[d] /\ (asked'[d].op = "reminder" => notices'[d] = 0)
        BY <1>2, <2>1, <3>1, PerformOnce DEF Fail, Current
      <3>3. AtMostOnce'
        BY <3>1, <3>2, SMT DEF Fail, Waiting, Return, IInv, AtMostOnce, GatewayTypeOK
      <3> QED BY <2>4, <3>3 DEF IInv
    <2> QED BY <2>5, <2>6
  <1> QED BY <1>1, <1>2 DEF Fail

LEMMA StepKeeps == IInv /\ [GatewayNext]_gatewayVars => IInv'
  <1> SUFFICES ASSUME IInv, [GatewayNext]_gatewayVars PROVE IInv'
    OBVIOUS
  <1>1. ASSUME NEW c \in Call, Succeed(c) PROVE IInv'
    BY <1>1, AnswerKeeps DEF Succeed
  <1>2. ASSUME NEW c \in Call, Refuse(c) PROVE IInv'
    <2>1. CASE Perform(c)
      BY <1>2, <2>1, AnswerKeeps DEF Refuse
    <2>2. CASE UNCHANGED <<links, notices>>
      BY <1>2, <2>2, ReturnKeeps DEF Refuse
    <2> QED BY <1>2, <2>1, <2>2 DEF Refuse
  <1>3. ASSUME NEW c \in Call, Fail(c) PROVE IInv'
    BY <1>3, FailKeeps
  <1>4. ASSUME NEW c \in Call, TimeOut(c) PROVE IInv'
    BY <1>4, RetryKeeps DEF TimeOut
  <1>5. ASSUME NEW c \in Call, Break(c) PROVE IInv'
    BY <1>5, ReturnKeeps DEF Break
  <1>6. ASSUME NEW r \in Wire, ActUnheard(r[1], r[2]) PROVE IInv'
    <2>1. r[1] \in Call /\ r[2] \in 1 .. MaxRetries + 1
      BY <1>6, SMT DEF Wire
    <2> QED BY <1>6, <2>1, ActUnheardKeeps
  <1>7. ASSUME NEW c \in Call, Abandon(c) PROVE IInv'
    BY <1>7, ReturnKeeps DEF Abandon
  <1>8. ASSUME NEW c \in Call, NEW request \in Request, Ask(c, request) PROVE IInv'
    BY <1>8, AskKeeps
  <1>9. CASE UNCHANGED gatewayVars
    BY <1>9, SMT DEF gatewayVars, IInv, GatewayTypeOK, AtMostOnce
  <1> QED BY <1>1, <1>2, <1>3, <1>4, <1>5, <1>6, <1>7, <1>8, <1>9
          DEF GatewayNext, GatewayStep, CallStep

\* The adapter's variables keep their types, whatever the number of calls, keys
\* and retries (create_payment_link, send_payment_link_reminder).
THEOREM GatewayTypeCorrect == GatewaySpec => []GatewayTypeOK
  <1>1. IInv => GatewayTypeOK
    BY DEF IInv
  <1> QED BY InitInvariant, StepKeeps, <1>1, PTL DEF GatewaySpec

\* However often the loop of _execute_request sends a request, and however
\* late the gateway acts on it, one idempotency key makes at most one link, and
\* one reminder call, which the loop never repeats, sends at most one message.
THEOREM GatewayActsAtMostOnce == GatewaySpec => []AtMostOnce
  <1>1. IInv => AtMostOnce
    BY DEF IInv
  <1> QED BY InitInvariant, StepKeeps, <1>1, PTL DEF GatewaySpec

----------------------------------------------------------------------------
(* Every step of the adapter or the gateway is a step of the port or none  *)

LEMMA AskRefines ==
  ASSUME NEW c \in Call, NEW request \in Request, IInv, Ask(c, request)
  PROVE  Port!Next
  <1>1. request \in Port!Request
    BY DEF Request, Port!Request
  <1>2. asked[c] = Port!NotAsked /\ result[c] = "none"
    BY SMT DEF Ask, IInv, AtMostOnce, NotAsked, Port!NotAsked
  <1>3. CASE c \in Blocked
    <2>1. Port!Ask(c, request, "retryable")
      BY <1>2, <1>3 DEF Ask, Port!Ask
    <2> QED BY <1>1, <2>1 DEF Port!Next
  <1>4. CASE c \notin Blocked
    <2>1. result' = [result EXCEPT ![c] = "none"]
      BY <1>2, <1>4, SMT DEF Ask, IInv, GatewayTypeOK
    <2>2. Port!Ask(c, request, "none")
      BY <1>2, <1>4, <2>1 DEF Ask, Port!Ask
    <2> QED BY <1>1, <2>2 DEF Port!Next
  <1> QED BY <1>3, <1>4

\* The gateway does what the request asks for unless that was done before, and
\* then it has been done.
LEMMA PerformRefines ==
  ASSUME NEW c \in Call, NEW n \in 1 .. MaxRetries + 1, IInv, <<c, n>> \in wire,
         Perform(c), UNCHANGED asked
  PROVE  /\ Port!Effect(c) \/ UNCHANGED <<links, notices>>
         /\ Port!Performed(c)'
  <1>1. asked[c] # NotAsked
    BY GatewayAssumption, SMT DEF IInv, AtMostOnce, GatewayTypeOK
  <1>2. asked[c] # Port!NotAsked
    BY <1>1 DEF NotAsked, Port!NotAsked
  <1>3. CASE asked[c].op = "link"
    <2> DEFINE k == asked[c].key
    <2>1. k \in Key /\ links[k] \in {0, 1}
      BY <1>1, <1>3, SMT DEF IInv, AtMostOnce, GatewayTypeOK, Request
    <2>2. links' = [links EXCEPT ![k] = 1] /\ UNCHANGED notices
      BY <1>3, <2>1, SMT DEF Perform, LinksAfter
    <2>3. links[k] = 1 => links' = links
      BY <2>1, <2>2, SMT DEF IInv, GatewayTypeOK
    <2>4. links'[k] = 1
      BY <2>1, <2>2, SMT DEF IInv, GatewayTypeOK
    <2>5. Port!Performed(c)'
      BY <1>3, <2>4 DEF Port!Performed
    <2>6. CASE links[k] = 1
      BY <2>2, <2>3, <2>5, <2>6
    <2>7. CASE links[k] # 1
      BY <1>2, <1>3, <2>2, <2>5, <2>7 DEF Port!Effect, Port!Performed
    <2> QED BY <2>6, <2>7
  <1>4. CASE asked[c].op # "link"
    <2>1. asked[c].op = "reminder"
      BY <1>1, <1>4, SMT DEF IInv, GatewayTypeOK, Request
    <2>2. notices[c] = 0
      BY <2>1, SMT DEF IInv, AtMostOnce
    <2>3. notices' = [notices EXCEPT ![c] = 1] /\ UNCHANGED links
      BY <1>4, <2>2, SMT DEF Perform
    <2>4. notices'[c] = 1
      BY <2>3, SMT DEF IInv, GatewayTypeOK
    <2>5. Port!Performed(c)'
      BY <2>1, <2>4, SMT DEF Port!Performed
    <2>6. ~Port!Performed(c)
      BY <2>1, <2>2, SMT DEF Port!Performed
    <2>7. Port!Effect(c)
      BY <1>2, <1>4, <2>3, <2>6 DEF Port!Effect
    <2> QED BY <2>5, <2>7
  <1> QED BY <1>3, <1>4

LEMMA ActUnheardRefines ==
  ASSUME NEW c \in Call, NEW n \in 1 .. MaxRetries + 1, IInv, ActUnheard(c, n)
  PROVE  [Port!Next]_(Port!vars)
  <1>1. Port!Effect(c) \/ UNCHANGED <<links, notices>>
    BY PerformRefines DEF ActUnheard
  <1>2. CASE Port!Effect(c)
    BY <1>2 DEF ActUnheard, Port!Perform, Port!Next
  <1>3. CASE UNCHANGED <<links, notices>>
    BY <1>3 DEF ActUnheard, Port!vars
  <1> QED BY <1>1, <1>2, <1>3

\* A call ends without the gateway doing anything in that step.
LEMMA ReturnRefines ==
  ASSUME NEW c \in Call, NEW r \in {"permanent", "retryable", "lost"}, Waiting(c),
         Return(c, r), UNCHANGED <<asked, links, notices>>
  PROVE  Port!Next
  <1>1. Port!Return(c, r)
    BY DEF Waiting, NotAsked, Return, Port!Return, Port!NotAsked
  <1>2. r \in Port!Results
    BY DEF Port!Results
  <1> QED BY <1>1, <1>2 DEF Port!Next

\* An answer ends the call, its operation having been performed or not; with success
\* only when it was.
LEMMA AnswerRefines ==
  ASSUME NEW c \in Call, IInv, Succeed(c) \/ Refuse(c)
  PROVE  Port!Next
  <1>1. tries[c] \in 1 .. MaxRetries + 1
    BY CurrentTry DEF Succeed, Refuse
  <1>2. PICK r \in {"success", "permanent"} :
          Return(c, r) /\ (r = "success" => Succeed(c))
    BY DEF Succeed, Refuse
  <1>3. /\ Port!Effect(c) \/ UNCHANGED <<links, notices>>
        /\ r = "success" => Port!Performed(c)'
    BY <1>1, <1>2, PerformRefines DEF Succeed, Refuse, Current
  <1>4. Port!Return(c, r)
    BY <1>2, <1>3
    DEF Succeed, Refuse, Waiting, NotAsked, Return, Port!Return, Port!NotAsked
  <1> QED BY <1>4 DEF Port!Next, Port!Results

LEMMA FailRefines ==
  ASSUME NEW c \in Call, IInv, Fail(c)
  PROVE  [Port!Next]_(Port!vars)
  <1>1. tries[c] \in 1 .. MaxRetries + 1
    BY CurrentTry DEF Fail
  <1>2. Port!Effect(c) \/ UNCHANGED <<links, notices>>
    BY <1>1, PerformRefines DEF Fail, Current
  <1>3. CASE MayRetry(c)
    <2>1. UNCHANGED <<asked, result>>
      BY <1>3 DEF Fail, RetryOrReturn
    <2> QED BY <1>2, <2>1 DEF Port!Perform, Port!Next, Port!vars
  <1>4. CASE ~MayRetry(c)
    <2>1. Port!Return(c, "retryable")
      BY <1>2, <1>4
      DEF Fail, RetryOrReturn, Waiting, NotAsked, Return, Port!Return, Port!NotAsked
    <2> QED BY <2>1 DEF Port!Next, Port!Results
  <1> QED BY <1>3, <1>4

LEMMA TimeOutRefines ==
  ASSUME NEW c \in Call, TimeOut(c)
  PROVE  [Port!Next]_(Port!vars)
  <1>1. CASE MayRetry(c)
    BY <1>1 DEF TimeOut, RetryOrReturn, Port!vars
  <1>2. CASE ~MayRetry(c)
    BY <1>2, ReturnRefines DEF TimeOut, RetryOrReturn
  <1> QED BY <1>1, <1>2

LEMMA StepRefines == IInv /\ [GatewayNext]_gatewayVars => [Port!Next]_(Port!vars)
  <1> SUFFICES ASSUME IInv, [GatewayNext]_gatewayVars PROVE [Port!Next]_(Port!vars)
    OBVIOUS
  <1>1. ASSUME NEW c \in Call, Succeed(c) PROVE [Port!Next]_(Port!vars)
    BY <1>1, AnswerRefines
  <1>2. ASSUME NEW c \in Call, Refuse(c) PROVE [Port!Next]_(Port!vars)
    BY <1>2, AnswerRefines
  <1>3. ASSUME NEW c \in Call, Fail(c) PROVE [Port!Next]_(Port!vars)
    BY <1>3, FailRefines
  <1>4. ASSUME NEW c \in Call, TimeOut(c) PROVE [Port!Next]_(Port!vars)
    BY <1>4, TimeOutRefines
  <1>5. ASSUME NEW c \in Call, Break(c) PROVE [Port!Next]_(Port!vars)
    BY <1>5, ReturnRefines DEF Break
  <1>6. ASSUME NEW r \in Wire, ActUnheard(r[1], r[2]) PROVE [Port!Next]_(Port!vars)
    <2>1. r[1] \in Call /\ r[2] \in 1 .. MaxRetries + 1
      BY <1>6, SMT DEF Wire
    <2> QED BY <1>6, <2>1, ActUnheardRefines
  <1>7. ASSUME NEW c \in Call, Abandon(c) PROVE [Port!Next]_(Port!vars)
    BY <1>7, ReturnRefines DEF Abandon
  <1>8. ASSUME NEW c \in Call, NEW request \in Request, Ask(c, request)
        PROVE  [Port!Next]_(Port!vars)
    BY <1>8, AskRefines
  <1>9. CASE UNCHANGED gatewayVars
    BY <1>9 DEF gatewayVars, Port!vars
  <1> QED BY <1>1, <1>2, <1>3, <1>4, <1>5, <1>6, <1>7, <1>8, <1>9
          DEF GatewayNext, GatewayStep, CallStep

\* Time-outs, retries, late and lost answers included, the adapter is the port
\* its callers program against: PaymentGatewayPort.
THEOREM AdapterImplementsPort == GatewaySpec => ImplementsPort
  <1>1. GatewayInit => Port!Init
    BY DEF GatewayInit, Port!Init, NotAsked, Port!NotAsked
  <1> QED BY <1>1, InitInvariant, StepKeeps, StepRefines, PTL
          DEF GatewaySpec, ImplementsPort, Port!Spec

=============================================================================
