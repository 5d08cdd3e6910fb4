----------------------- MODULE WebhookIngestion_proofs -----------------------
(***************************************************************************)
(* For any events, deliveries, workers, retries and losses: the effects of *)
(* an event are committed exactly once, an answered event is stored, and   *)
(* one delivery of it at most is accepted.  Each invariant is proved with  *)
(* what it needs to be inductive: the row lock of the workers for the      *)
(* first, the unique constraint of the raw events for the other two.       *)
(***************************************************************************)
EXTENDS WebhookIngestion, TLAPS

----------------------------------------------------------------------------
(* The broker's bag of messages *)

\* Publishing a message adds it to the bag.
LEMMA Published ==
  ASSUME NEW B, IsABag(B), NEW t
  PROVE  /\ IsABag(B (+) SetToBag({t}))
         /\ BagToSet(B (+) SetToBag({t})) = BagToSet(B) \union {t}
<1> DEFINE S == SetToBag({t})
           Sum == [x \in DOMAIN B \union DOMAIN S |->
                     (IF x \in DOMAIN B THEN B[x] ELSE 0)
                     + (IF x \in DOMAIN S THEN S[x] ELSE 0)]
<1>1. DOMAIN S = {t} /\ \A x \in DOMAIN S : S[x] = 1
  BY DEF SetToBag
<1>2. \A x \in DOMAIN B : B[x] \in Nat /\ B[x] > 0
  BY DEF IsABag
<1>3. \A x \in DOMAIN B \union DOMAIN S :
        Sum[x] = (IF x \in DOMAIN B THEN B[x] ELSE 0)
                 + (IF x \in DOMAIN S THEN S[x] ELSE 0)
  OBVIOUS
<1> HIDE DEF S
<1>4. \A x \in DOMAIN B \union DOMAIN S : Sum[x] \in Nat /\ Sum[x] > 0
  BY <1>1, <1>2
<1>5. DOMAIN Sum = DOMAIN B \union {t}
  BY <1>1
<1>6. B (+) S = Sum
  BY DEF (+)
<1> QED BY <1>1, <1>4, <1>5, <1>6 DEF IsABag, BagToSet, S

\* Delivering a message takes nothing else out of the bag.
LEMMA Delivered ==
  ASSUME NEW B, IsABag(B), NEW t
  PROVE  /\ IsABag(B (-) SetToBag({t}))
         /\ BagToSet(B (-) SetToBag({t})) \subseteq BagToSet(B)
<1> DEFINE S == SetToBag({t})
           D == [x \in DOMAIN B |-> IF x \in DOMAIN S THEN B[x] - S[x] ELSE B[x]]
           Left == [x \in {y \in DOMAIN D : D[y] > 0} |-> D[x]]
<1>1. \A x \in DOMAIN S : S[x] = 1
  BY DEF SetToBag
<1>2. \A x \in DOMAIN B : B[x] \in Nat
  BY DEF IsABag
<1> HIDE DEF S
<1>3. \A x \in DOMAIN D : D[x] \in Int
  BY <1>1, <1>2
<1>4. DOMAIN D = DOMAIN B
  OBVIOUS
<1>5. B (-) S = Left
  BY DEF (-)
<1> HIDE DEF D
<1>6. /\ DOMAIN Left \subseteq DOMAIN B
      /\ \A x \in DOMAIN Left : Left[x] \in Nat /\ Left[x] > 0
      /\ Left = [x \in DOMAIN Left |-> Left[x]]
  BY <1>3, <1>4
<1> HIDE DEF Left
<1>7. Left \in [DOMAIN Left -> {n \in Nat : n > 0}]
  BY <1>6
<1> QED BY <1>5, <1>6, <1>7 DEF IsABag, BagToSet, S

----------------------------------------------------------------------------
(* Types *)

RequestPcs ==
  {"unsent", "lookup", "insert", "commit", "enqueue", "accepted", "duplicate", "dead"}

WorkerPcs == {"idle", "taken", "locked", "retrying", "returned"}

RequestRow == [pc : RequestPcs, event : Event \union {NoEvent}]

WorkerRow == [pc : WorkerPcs, task : Task \union {NoTask}]

\* A request that was sent names an event; a worker that is not idle holds a task,
\* and retries one that has a retry left.
KnownRequests == \A r \in Request : request[r].pc # "unsent" => request[r].event \in Event

KnownTasks ==
  \A w \in Worker :
    /\ worker[w].pc # "idle" => worker[w].task \in Task
    /\ worker[w].pc = "retrying" => MayRetry(worker[w].task)

Typed == TypeOK /\ KnownRequests /\ KnownTasks

\* The handler of a delivery goes on to its next statement.
LEMMA RequestMoves ==
  ASSUME Typed, NEW r \in Request, NEW to \in RequestPcs \ {"unsent"},
         request[r].pc # "unsent", Goto(r, to)
  PROVE  /\ request' \in [Request -> RequestRow]
         /\ KnownRequests'
         /\ request'[r] = [pc |-> to, event |-> request[r].event]
         /\ \A q \in Request \ {r} : request'[q] = request[q]
<1>1. request \in [Request -> RequestRow] /\ request[r].event \in Event
  BY DEF Typed, TypeOK, KnownRequests, RequestRow, RequestPcs
<1>2. request' = [request EXCEPT ![r].pc = to]
  BY DEF Goto
<1>3. request'[r] = [pc |-> to, event |-> request[r].event]
  BY <1>1, <1>2 DEF RequestRow
<1>4. \A q \in Request \ {r} : request'[q] = request[q]
  BY <1>1, <1>2
<1>5. request' \in [Request -> RequestRow]
  BY <1>1, <1>2 DEF RequestRow
<1>6. KnownRequests'
  BY <1>1, <1>3, <1>4 DEF Typed, KnownRequests
<1> QED BY <1>3, <1>4, <1>5, <1>6

\* The task of a worker goes on to its next statement.
LEMMA WorkerMoves ==
  ASSUME Typed, NEW w \in Worker, NEW to \in WorkerPcs \ {"idle"},
         worker[w].pc # "idle", to = "retrying" => MayRetry(worker[w].task),
         worker' = [worker EXCEPT ![w].pc = to]
  PROVE  /\ worker' \in [Worker -> WorkerRow]
         /\ KnownTasks'
         /\ worker'[w] = [pc |-> to, task |-> worker[w].task]
         /\ worker[w].task \in Task
         /\ \A v \in Worker \ {w} : worker'[v] = worker[v]
<1>1. worker \in [Worker -> WorkerRow] /\ worker[w].task \in Task
  BY DEF Typed, TypeOK, KnownTasks, WorkerRow, WorkerPcs
<1>2. worker'[w] = [pc |-> to, task |-> worker[w].task]
  BY <1>1 DEF WorkerRow
<1>3. \A v \in Worker \ {w} : worker'[v] = worker[v]
  BY <1>1
<1>4. worker' \in [Worker -> WorkerRow]
  BY <1>1 DEF WorkerRow
<1>5. KnownTasks'
  BY <1>1, <1>2, <1>3 DEF Typed, KnownTasks, MayRetry
<1> QED BY <1>1, <1>2, <1>3, <1>4, <1>5

\* A worker becomes idle.
LEMMA WorkerRests ==
  ASSUME Typed, NEW w \in Worker,
         worker' = [worker EXCEPT ![w] = [pc |-> "idle", task |-> NoTask]]
  PROVE  /\ worker' \in [Worker -> WorkerRow]
         /\ KnownTasks'
         /\ worker'[w] = [pc |-> "idle", task |-> NoTask]
         /\ \A v \in Worker \ {w} : worker'[v] = worker[v]
<1>1. worker \in [Worker -> WorkerRow]
  BY DEF Typed, TypeOK, WorkerRow, WorkerPcs
<1>2. [pc |-> "idle", task |-> NoTask] \in WorkerRow
  BY DEF WorkerRow, WorkerPcs
<1>3. worker'[w] = [pc |-> "idle", task |-> NoTask]
      /\ \A v \in Worker \ {w} : worker'[v] = worker[v]
  BY <1>1
<1>4. KnownTasks'
  BY <1>3 DEF Typed, KnownTasks, MayRetry
<1> QED BY <1>1, <1>2, <1>3, <1>4

\* A message that is a task keeps the bag a bag of tasks.
LEMMA PublishType ==
  ASSUME Typed, NEW t \in Task, queue' = queue (+) SetToBag({t})
  PROVE  IsABag(queue') /\ BagToSet(queue') \subseteq Task
<1>1. IsABag(queue) /\ BagToSet(queue) \subseteq Task
  BY DEF Typed, TypeOK
<1>2. IsABag(queue') /\ BagToSet(queue') = BagToSet(queue) \union {t}
  BY <1>1, Published, Zenon
<1> QED BY <1>1, <1>2

\* Every action keeps the types.
LEMMA TypedInductive ==
  ASSUME Typed, [Next]_vars
  PROVE  Typed'
<1> USE DEF workerVars
<1>1. ASSUME NEW r \in Request, NEW e \in Event, Deliver(r, e)
      PROVE  Typed'
  <2>1. [pc |-> "lookup", event |-> e] \in RequestRow
    BY DEF RequestRow, RequestPcs
  <2>2. request' \in [Request -> RequestRow] /\ KnownRequests'
    BY <1>1, <2>1 DEF Deliver, Typed, TypeOK, KnownRequests, RequestRow, RequestPcs
  <2>3. KnownTasks'
    BY <1>1 DEF Deliver, Typed, KnownTasks, MayRetry
  <2> QED BY <1>1, <2>2, <2>3 DEF Deliver, Typed, TypeOK, RequestRow, RequestPcs
<1>2. ASSUME NEW r \in Request, Handle(r) \/ RequestDies(r)
      PROVE  Typed'
  <2>1. PICK to \in RequestPcs \ {"unsent"} : Goto(r, to)
    BY <1>2 DEF Handle, Lookup, Insert, Commit, Enqueue, EnqueueFails, RequestDies,
                RequestPcs
  <2>2. request[r].pc # "unsent" /\ request[r].event \in Event
    BY <1>2 DEF Handle, Lookup, Insert, Commit, Enqueue, EnqueueFails, RequestDies,
                Typed, KnownRequests
  <2>3. request' \in [Request -> RequestRow] /\ KnownRequests'
    BY <2>1, <2>2, RequestMoves
  <2>4. UNCHANGED workerVars /\ KnownTasks'
    BY <1>2 DEF Handle, Lookup, Insert, Commit, Enqueue, EnqueueFails, RequestDies,
                Typed, KnownTasks, MayRetry
  <2>5. raw' \in [Event -> {"absent", "stored", "processed"}]
    BY <1>2, <2>2 DEF Handle, Lookup, Insert, Commit, Enqueue, EnqueueFails,
                      RequestDies, Typed, TypeOK
  <2>6. IsABag(queue') /\ BagToSet(queue') \subseteq Task
    <3>1. CASE Enqueue(r)
      <4>1. [event |-> request[r].event, retries |-> 0] \in Task
        BY <2>2, IngestionAssumption DEF Task
      <4> QED BY <3>1, <4>1, PublishType DEF Enqueue
    <3>2. CASE ~Enqueue(r)
      BY <1>2, <3>2 DEF Handle, Lookup, Insert, Commit, EnqueueFails, RequestDies,
                        Typed, TypeOK
    <3> QED BY <3>1, <3>2
  <2> QED BY <2>3, <2>4, <2>5, <2>6 DEF Typed, TypeOK, RequestRow, RequestPcs
<1>3. ASSUME NEW w \in Worker, Take(w)
      PROVE  Typed'
  <2>1. PICK t \in BagToSet(queue) :
          /\ worker' = [worker EXCEPT ![w] = [pc |-> "taken", task |-> t]]
          /\ queue' = queue (-) SetToBag({t})
    BY <1>3 DEF Take
  <2>2. t \in Task
    BY DEF Typed, TypeOK
  <2>3. IsABag(queue') /\ BagToSet(queue') \subseteq Task
    BY <2>1, Delivered DEF Typed, TypeOK
  <2>4. worker' \in [Worker -> WorkerRow]
    BY <2>1, <2>2 DEF Typed, TypeOK, WorkerRow, WorkerPcs
  <2>5. KnownTasks'
    BY <2>1, <2>2 DEF Typed, TypeOK, KnownTasks, MayRetry
  <2> QED BY <1>3, <2>3, <2>4, <2>5
          DEF Take, Typed, TypeOK, KnownRequests, WorkerRow, WorkerPcs
<1>4. ASSUME NEW w \in Worker, Begin(w) \/ Finish(w) \/ Raise(w) \/ Republish(w) \/ RepublishFails(w)
      PROVE  Typed'
  <2>1. worker[w].pc # "idle" /\ UNCHANGED <<request, losses>>
    BY <1>4 DEF Begin, Finish, Raise, Republish, RepublishFails
  <2>2. PICK to \in WorkerPcs \ {"idle"} :
          /\ worker' = [worker EXCEPT ![w].pc = to]
          /\ to = "retrying" => MayRetry(worker[w].task)
    BY <1>4 DEF Begin, Finish, Raise, Republish, RepublishFails, WorkerPcs
  <2>3. worker' \in [Worker -> WorkerRow] /\ KnownTasks' /\ worker[w].task \in Task
    BY <2>1, <2>2, WorkerMoves
  <2>4. /\ raw' \in [Event -> {"absent", "stored", "processed"}]
        /\ effects' \in [Event -> Nat]
        /\ abandoned' \subseteq Event
    BY <1>4, <2>3 DEF Begin, Finish, Raise, Republish, RepublishFails, Typed, TypeOK, Task
  <2>5. IsABag(queue') /\ BagToSet(queue') \subseteq Task
    <3>1. CASE Republish(w)
      <4> DEFINE t == [worker[w].task EXCEPT !.retries = @ + 1]
      <4>1. worker[w].task.retries < MaxRetries
        BY <3>1 DEF Republish, Typed, KnownTasks, MayRetry
      <4>2. t \in Task
        BY <2>3, <4>1, IngestionAssumption DEF Task
      <4>3. queue' = queue (+) SetToBag({t})
        BY <3>1 DEF Republish
      <4> HIDE DEF t
      <4> QED BY <4>2, <4>3, PublishType
    <3>2. CASE ~Republish(w)
      BY <1>4, <3>2 DEF Begin, Finish, Raise, RepublishFails, Typed, TypeOK
    <3> QED BY <3>1, <3>2
  <2>6. KnownRequests'
    BY <2>1 DEF Typed, KnownRequests
  <2> QED BY <2>1, <2>3, <2>4, <2>5, <2>6 DEF Typed, TypeOK, WorkerRow, WorkerPcs
<1>5. ASSUME NEW w \in Worker, Acknowledge(w)
      PROVE  Typed'
  <2>1. worker' \in [Worker -> WorkerRow] /\ KnownTasks'
    BY <1>5, WorkerRests DEF Acknowledge
  <2> QED BY <1>5, <2>1 DEF Acknowledge, Typed, TypeOK, KnownRequests, WorkerRow, WorkerPcs
<1>6. ASSUME NEW w \in Worker, WorkerLost(w)
      PROVE  Typed'
  <2>1. worker' \in [Worker -> WorkerRow] /\ KnownTasks'
    BY <1>6, WorkerRests DEF WorkerLost
  <2>2. worker[w].task \in Task
    BY <1>6 DEF WorkerLost, Typed, KnownTasks
  <2>3. IsABag(queue') /\ BagToSet(queue') \subseteq Task
    BY <1>6, <2>2, PublishType DEF WorkerLost, QueueAfterLoss
  <2>4. losses' \in 0 .. MaxLosses
    BY <1>6, IngestionAssumption DEF WorkerLost, Typed, TypeOK
  <2> QED BY <1>6, <2>1, <2>3, <2>4
          DEF WorkerLost, Typed, TypeOK, KnownRequests, WorkerRow, WorkerPcs
<1>7. CASE UNCHANGED vars
  BY <1>7 DEF vars, Typed, TypeOK, KnownRequests, KnownTasks, MayRetry
<1> QED BY <1>1, <1>2, <1>3, <1>4, <1>5, <1>6, <1>7 DEF Next, Work

\* Every reachable state is well-typed; a worker at work holds a task.
THEOREM IngestionTyped == Spec => []Typed
<1>1. Init => Typed
  <2> SUFFICES ASSUME Init
               PROVE  Typed
    OBVIOUS
  <2>1. IsABag(queue) /\ BagToSet(queue) = {}
    BY DEF Init, EmptyBag, SetToBag, IsABag, BagToSet
  <2>2. KnownRequests /\ KnownTasks
    BY DEF Init, KnownRequests, KnownTasks
  <2> QED BY <2>1, <2>2, IngestionAssumption DEF Init, Typed, TypeOK
<1>2. Typed /\ [Next]_vars => Typed'
  BY TypedInductive
<1> QED BY <1>1, <1>2, PTL DEF Spec

\* Every reachable state is well-typed.
THEOREM IngestionTypeCorrect == Spec => []TypeOK
<1>1. Typed => TypeOK
  BY DEF Typed
<1> QED BY <1>1, IngestionTyped, PTL

----------------------------------------------------------------------------
(* Effects *)

\* SELECT ... FOR UPDATE: a worker that holds the lock of an event holds it alone,
\* and the event is not processed yet.
LockHeld(w) == worker[w].pc = "locked"

Locks ==
  \A w \in Worker : LockHeld(w) =>
    /\ raw[worker[w].task.event] # "processed"
    /\ \A v \in Worker : LockHeld(v) /\ worker[v].task.event = worker[w].task.event
         => v = w

\* The steps that take no lock and process nothing.
Harmless ==
  /\ \A e \in Event : raw'[e] = "processed" <=> raw[e] = "processed"
  /\ \A w \in Worker : LockHeld(w)' => worker'[w] = worker[w]
  /\ UNCHANGED effects

\* Every step takes a lock, processes the event it holds the lock of, or neither.
LEMMA EffectsOfSteps ==
  ASSUME Typed, [Next]_vars
  PROVE  Harmless \/ \E w \in Worker : Begin(w) \/ Finish(w)
<1> USE DEF workerVars
<1>1. ASSUME NEW r \in Request, NEW e \in Event, Deliver(r, e)
      PROVE  Harmless
  BY <1>1 DEF Deliver, Harmless, LockHeld
<1>2. ASSUME NEW r \in Request, Handle(r) \/ RequestDies(r)
      PROVE  Harmless
  <2>1. UNCHANGED <<effects, worker>>
    BY <1>2 DEF Handle, Lookup, Insert, Commit, Enqueue, EnqueueFails, RequestDies
  <2>2. CASE Commit(r)
    BY <2>1, <2>2 DEF Commit, Harmless, LockHeld, Typed, TypeOK
  <2>3. CASE ~Commit(r)
    BY <1>2, <2>1, <2>3 DEF Handle, Lookup, Insert, Enqueue, EnqueueFails, RequestDies,
                           Harmless, LockHeld
  <2> QED BY <2>2, <2>3
<1>3. ASSUME NEW w \in Worker,
             Take(w) \/ Raise(w) \/ Republish(w) \/ RepublishFails(w)
               \/ Acknowledge(w) \/ WorkerLost(w)
      PROVE  Harmless
  <2>1. UNCHANGED <<raw, effects>>
    BY <1>3 DEF Take, Raise, Republish, RepublishFails, Acknowledge, WorkerLost
  <2>2. worker'[w].pc # "locked" /\ \A v \in Worker \ {w} : worker'[v] = worker[v]
    <3>1. CASE Take(w)
      BY <3>1 DEF Take, Typed, TypeOK
    <3>2. CASE Raise(w) \/ Republish(w) \/ RepublishFails(w)
      <4>1. PICK to \in {"retrying", "returned"} :
              /\ worker' = [worker EXCEPT ![w].pc = to]
              /\ to = "retrying" => MayRetry(worker[w].task)
        BY <3>2 DEF Raise, Republish, RepublishFails
      <4>2. worker[w].pc # "idle" /\ to \in WorkerPcs \ {"idle"} /\ to # "locked"
        BY <3>2 DEF Raise, Republish, RepublishFails, WorkerPcs
      <4>3. /\ worker'[w] = [pc |-> to, task |-> worker[w].task]
            /\ \A v \in Worker \ {w} : worker'[v] = worker[v]
        BY <4>1, <4>2, WorkerMoves
      <4> QED BY <4>2, <4>3
    <3>3. CASE Acknowledge(w) \/ WorkerLost(w)
      BY <3>3, WorkerRests DEF Acknowledge, WorkerLost
    <3> QED BY <1>3, <3>1, <3>2, <3>3
  <2> QED BY <2>1, <2>2 DEF Harmless, LockHeld
<1>4. CASE UNCHANGED vars
  BY <1>4 DEF vars, Harmless, LockHeld
<1> QED BY <1>1, <1>2, <1>3, <1>4 DEF Next, Work

\* Only the holder of the lock processes an event, and it does so once.
LEMMA OnceInductive ==
  ASSUME Typed, Locks, ExactlyOnce, [Next]_vars
  PROVE  Locks' /\ ExactlyOnce'
<1>1. \A w \in Worker : LockHeld(w) => worker[w].task.event \in Event
  BY DEF Typed, KnownTasks, LockHeld, Task
<1>2. CASE Harmless
  <2>1. Locks'
    <3> SUFFICES ASSUME NEW w \in Worker, LockHeld(w)'
                 PROVE  /\ raw'[worker'[w].task.event] # "processed"
                        /\ \A v \in Worker :
                             LockHeld(v)' /\ worker'[v].task.event = worker'[w].task.event
                               => v = w
      BY DEF Locks
    <3>1. LockHeld(w) /\ worker'[w] = worker[w]
      BY <1>2 DEF Harmless, LockHeld
    <3>2. \A v \in Worker : LockHeld(v)' => LockHeld(v) /\ worker'[v] = worker[v]
      BY <1>2 DEF Harmless, LockHeld
    <3> QED BY <1>1, <1>2, <3>1, <3>2 DEF Locks, Harmless
  <2>2. ExactlyOnce'
    BY <1>2 DEF Harmless, ExactlyOnce
  <2> QED BY <2>1, <2>2
<1>3. ASSUME NEW w \in Worker, Begin(w)
      PROVE  Locks' /\ ExactlyOnce'
  <2> DEFINE e  == worker[w].task.event
             to == IF raw[e] = "processed" THEN "returned" ELSE "locked"
  <2>1. worker' = [worker EXCEPT ![w].pc = to] /\ UNCHANGED <<raw, effects>>
    BY <1>3 DEF Begin
  <2>2. worker[w].pc # "idle" /\ to \in WorkerPcs \ {"idle"} /\ to # "retrying"
    BY <1>3 DEF Begin, WorkerPcs
  <2>3. to = "locked" => raw[e] # "processed"
    OBVIOUS
  <2> HIDE DEF to
  <2>4. /\ worker'[w] = [pc |-> to, task |-> worker[w].task]
        /\ \A v \in Worker \ {w} : worker'[v] = worker[v]
    BY <2>1, <2>2, WorkerMoves
  <2>5. \A v \in Worker \ {w} : LockHeld(v) => worker[v].task.event # e
    BY <1>3 DEF Begin, Unlocked, LockHeld
  <2>6. Locks'
    <3>1. \A v \in Worker \ {w} : LockHeld(v)' <=> LockHeld(v)
      BY <2>4 DEF LockHeld
    <3>2. LockHeld(w)' => raw[e] # "processed"
      BY <2>3, <2>4 DEF LockHeld
    <3> QED BY <2>1, <2>4, <2>5, <3>1, <3>2 DEF Locks
  <2>7. ExactlyOnce'
    BY <2>1 DEF ExactlyOnce
  <2> QED BY <2>6, <2>7
<1>4. ASSUME NEW w \in Worker, Finish(w)
      PROVE  Locks' /\ ExactlyOnce'
  <2> DEFINE e == worker[w].task.event
  <2>1. /\ LockHeld(w) /\ worker[w].pc # "idle"
        /\ raw' = [raw EXCEPT ![e] = "processed"]
        /\ effects' = [effects EXCEPT ![e] = IF e \in Malformed THEN @ ELSE @ + 1]
        /\ worker' = [worker EXCEPT ![w].pc = "returned"]
    BY <1>4 DEF Finish, LockHeld
  <2>2. e \in Event /\ raw[e] # "processed"
    BY <1>1, <2>1 DEF Locks
  <2>3. /\ worker'[w] = [pc |-> "returned", task |-> worker[w].task]
        /\ \A v \in Worker \ {w} : worker'[v] = worker[v]
    BY <2>1, WorkerMoves DEF WorkerPcs
  <2>4. Locks'
    <3> SUFFICES ASSUME NEW v \in Worker, LockHeld(v)'
                 PROVE  /\ raw'[worker'[v].task.event] # "processed"
                        /\ \A x \in Worker :
                             LockHeld(x)' /\ worker'[x].task.event = worker'[v].task.event
                               => x = v
      BY DEF Locks
    <3>1. \A x \in Worker : LockHeld(x)' => x # w /\ LockHeld(x) /\ worker'[x] = worker[x]
      BY <2>3 DEF LockHeld
    <3>2. worker[v].task.event # e /\ worker[v].task.event \in Event
      BY <1>1, <2>1, <3>1 DEF Locks
    <3>3. raw'[worker[v].task.event] = raw[worker[v].task.event]
      BY <2>1, <2>2, <3>2 DEF Typed, TypeOK
    <3> QED BY <3>1, <3>3 DEF Locks
  <2>5. ExactlyOnce'
    <3> SUFFICES ASSUME NEW x \in Event
                 PROVE  effects'[x] = IF raw'[x] = "processed" /\ x \notin Malformed
                                        THEN 1 ELSE 0
      BY DEF ExactlyOnce
    <3>1. CASE x = e
      <4>1. effects[e] = 0 /\ raw'[e] = "processed"
        BY <2>1, <2>2 DEF ExactlyOnce, Typed, TypeOK
      <4>2. effects'[e] = IF e \in Malformed THEN effects[e] ELSE effects[e] + 1
        BY <2>1, <2>2 DEF Typed, TypeOK
      <4> QED BY <3>1, <4>1, <4>2
    <3>2. CASE x # e
      BY <2>1, <3>2 DEF ExactlyOnce, Typed, TypeOK
    <3> QED BY <3>1, <3>2
  <2> QED BY <2>4, <2>5
<1> QED BY <1>2, <1>3, <1>4, EffectsOfSteps

\* The processed flag: whatever was delivered twice, redelivered after a lost
\* worker or retried, the effects of an event are committed exactly once, together
\* with the flag, and never for an event that cannot be parsed.
THEOREM EffectsExactlyOnce == Spec => []ExactlyOnce
<1>1. Init => Locks /\ ExactlyOnce
  BY DEF Init, Locks, LockHeld, ExactlyOnce
<1>2. Typed /\ Locks /\ ExactlyOnce /\ [Next]_vars => Locks' /\ ExactlyOnce'
  BY OnceInductive
<1> QED BY <1>1, <1>2, IngestionTyped, PTL DEF Spec

----------------------------------------------------------------------------
(* Answers *)

\* A row once stored stays.
LEMMA StoredStays ==
  ASSUME Typed, [Next]_vars, NEW e \in Event, Stored(e)
  PROVE  Stored(e)'
<1> USE DEF workerVars, Stored
<1>1. ASSUME NEW r \in Request, Commit(r)
      PROVE  raw'[e] # "absent"
  BY <1>1 DEF Commit, Typed, TypeOK
<1>2. ASSUME NEW w \in Worker, Finish(w)
      PROVE  raw'[e] # "absent"
  BY <1>2 DEF Finish, Typed, TypeOK
<1>3. ASSUME UNCHANGED raw
      PROVE  raw'[e] # "absent"
  BY <1>3
<1> QED BY <1>1, <1>2, <1>3
        DEF Next, Deliver, Handle, Lookup, Insert, Enqueue, EnqueueFails, RequestDies,
            Work, Take, Begin, Raise, Republish, RepublishFails, Acknowledge, WorkerLost, vars

\* Where a delivery is after a step of its handler, or of the gateway.
RequestStep(r) ==
  /\ \A q \in Request \ {r} : request'[q] = request[q]
  /\ \/ request'[r].pc \in {"lookup", "insert", "dead"}
     \/ /\ request[r].pc # "unsent" /\ request'[r].event = request[r].event
        /\ \/ request'[r].pc = "duplicate" /\ Stored(request[r].event)
           \/ /\ request'[r].pc = "commit"
              /\ ~Stored(request[r].event) /\ ~Inserting(request[r].event)
           \/ request[r].pc = "commit" /\ request'[r].pc = "enqueue"
                /\ raw'[request[r].event] # "absent"
           \/ request[r].pc = "enqueue" /\ request'[r].pc = "accepted"

\* Every step is such a step of one delivery, or of none.
LEMMA StepsOfRequests ==
  ASSUME Typed, [Next]_vars
  PROVE  request' = request \/ \E r \in Request : RequestStep(r)
<1>1. ASSUME NEW r \in Request, NEW e \in Event, Deliver(r, e)
      PROVE  RequestStep(r)
  BY <1>1 DEF Deliver, RequestStep, Typed, TypeOK
<1>2. ASSUME NEW r \in Request, NEW to \in RequestPcs \ {"unsent"},
             request[r].pc # "unsent", Goto(r, to)
      PROVE  /\ request'[r].pc = to /\ request'[r].event = request[r].event
             /\ \A q \in Request \ {r} : request'[q] = request[q]
  <2>1. /\ request'[r] = [pc |-> to, event |-> request[r].event]
        /\ \A q \in Request \ {r} : request'[q] = request[q]
    BY <1>2, RequestMoves, Zenon
  <2> QED BY <2>1
<1>3. ASSUME NEW r \in Request, Lookup(r)
      PROVE  RequestStep(r)
  <2> DEFINE to == IF Stored(request[r].event) THEN "duplicate" ELSE "insert"
  <2>1. to \in RequestPcs \ {"unsent"} /\ request[r].pc # "unsent" /\ Goto(r, to)
    BY <1>3 DEF Lookup, RequestPcs
  <2>2. \/ to = "insert"
        \/ to = "duplicate" /\ Stored(request[r].event)
    OBVIOUS
  <2> HIDE DEF to
  <2> QED BY <1>2, <2>1, <2>2 DEF RequestStep
<1>4. ASSUME NEW r \in Request, Insert(r)
      PROVE  RequestStep(r)
  <2> DEFINE to == IF Stored(request[r].event) THEN "duplicate" ELSE "commit"
  <2>1. to \in RequestPcs \ {"unsent"} /\ request[r].pc # "unsent" /\ Goto(r, to)
    BY <1>4 DEF Insert, RequestPcs
  <2>2. ~Inserting(request[r].event)
    BY <1>4 DEF Insert
  <2>3. \/ to = "commit" /\ ~Stored(request[r].event)
        \/ to = "duplicate" /\ Stored(request[r].event)
    OBVIOUS
  <2> HIDE DEF to
  <2> QED BY <1>2, <2>1, <2>2, <2>3 DEF RequestStep
<1>5. ASSUME NEW r \in Request, Commit(r)
      PROVE  RequestStep(r)
  <2>1. request[r].pc = "commit" /\ request[r].event \in Event /\ Goto(r, "enqueue")
    BY <1>5 DEF Commit, Typed, KnownRequests
  <2>2. raw'[request[r].event] # "absent"
    BY <1>5, <2>1 DEF Commit, Typed, TypeOK
  <2>3. "enqueue" \in RequestPcs \ {"unsent"}
    BY DEF RequestPcs
  <2> QED BY <1>2, <2>1, <2>2, <2>3 DEF RequestStep
<1>6. ASSUME NEW r \in Request, Enqueue(r) \/ EnqueueFails(r)
      PROVE  RequestStep(r)
  <2>1. request[r].pc = "enqueue" /\ Goto(r, "accepted")
    BY <1>6 DEF Enqueue, EnqueueFails
  <2>2. "accepted" \in RequestPcs \ {"unsent"}
    BY DEF RequestPcs
  <2> QED BY <1>2, <2>1, <2>2 DEF RequestStep
<1>7. ASSUME NEW r \in Request, RequestDies(r)
      PROVE  RequestStep(r)
  <2>1. request[r].pc # "unsent" /\ Goto(r, "dead")
    BY <1>7 DEF RequestDies
  <2>2. "dead" \in RequestPcs \ {"unsent"}
    BY DEF RequestPcs
  <2> QED BY <1>2, <2>1, <2>2 DEF RequestStep
<1>8. ASSUME NEW w \in Worker, Work(w) \/ WorkerLost(w)
      PROVE  request' = request
  BY <1>8 DEF Work, Take, Begin, Finish, Raise, Republish, RepublishFails, Acknowledge, WorkerLost
<1>9. CASE UNCHANGED vars
  BY <1>9 DEF vars
<1> QED BY <1>1, <1>3, <1>4, <1>5, <1>6, <1>7, <1>8, <1>9 DEF Next, Handle

\* A request past its commit, or told that its event is a duplicate, has a row.
Answering == {"enqueue", "accepted", "duplicate"}

AnsweringIsStored ==
  \A r \in Request : request[r].pc \in Answering => raw[request[r].event] # "absent"

\* A request comes to that point by its commit or by finding the row.
LEMMA AnsweringInductive ==
  ASSUME Typed, AnsweringIsStored, [Next]_vars
  PROVE  AnsweringIsStored'
<1> SUFFICES ASSUME NEW r \in Request, request'[r].pc \in Answering
             PROVE  raw'[request'[r].event] # "absent"
  BY DEF AnsweringIsStored
<1>1. \A e \in Event : raw[e] # "absent" => raw'[e] # "absent"
  BY StoredStays DEF Stored
<1>2. request[r].pc # "unsent" => request[r].event \in Event
  BY DEF Typed, KnownRequests
<1>3. CASE request'[r] = request[r]
  BY <1>1, <1>2, <1>3 DEF AnsweringIsStored, Answering
<1>4. CASE RequestStep(r)
  <2>1. request'[r].event = request[r].event
    BY <1>4 DEF RequestStep, Answering
  <2>2. CASE request'[r].pc = "duplicate" /\ Stored(request[r].event)
    <3>1. request[r].event \in Event
      BY <1>2, <1>4, <2>2 DEF RequestStep
    <3> QED BY <1>1, <2>1, <2>2, <3>1 DEF Stored
  <2>3. CASE raw'[request[r].event] # "absent"
    BY <2>1, <2>3
  <2>4. CASE request[r].pc = "enqueue"
    BY <1>1, <1>2, <2>1, <2>4 DEF AnsweringIsStored, Answering
  <2> QED BY <1>4, <2>2, <2>3, <2>4 DEF RequestStep, Answering
<1> QED BY <1>3, <1>4, StepsOfRequests DEF RequestStep

\* RawWebhookEventModel: a gateway that got an answer of either kind need not
\* deliver the event again: its row is stored.
THEOREM AnswersAreStored == Spec => []AnsweredIsStored
<1>1. Init => AnsweringIsStored
  BY DEF Init, AnsweringIsStored, Answering
<1>2. Typed /\ AnsweringIsStored /\ [Next]_vars => AnsweringIsStored'
  BY AnsweringInductive
<1>3. AnsweringIsStored => AnsweredIsStored
  BY DEF AnsweringIsStored, Answering, AnsweredIsStored
<1> QED BY <1>1, <1>2, <1>3, IngestionTyped, PTL DEF Spec

\* A delivery comes to its commit only when the event has neither a row nor another
\* delivery that inserts one.
LEMMA AcceptedInductive ==
  ASSUME Typed, AnsweringIsStored, AcceptedOnce, [Next]_vars
  PROVE  AcceptedOnce'
<1> DEFINE Accepting == {"commit", "enqueue", "accepted"}
<1>1. CASE request' = request
  BY <1>1 DEF AcceptedOnce
<1>2. ASSUME NEW r \in Request, RequestStep(r)
      PROVE  AcceptedOnce'
  <2>1. CASE request'[r].pc \notin Accepting
    BY <1>2, <2>1 DEF AcceptedOnce, RequestStep
  <2>2. CASE /\ request'[r].pc = "commit" /\ request'[r].event = request[r].event
             /\ ~Stored(request[r].event) /\ ~Inserting(request[r].event)
    <3>1. \A q \in Request \ {r} :
            request[q].pc \in Accepting => request[q].event # request[r].event
      <4> SUFFICES ASSUME NEW q \in Request \ {r}, request[q].pc \in Accepting,
                          request[q].event = request[r].event
                   PROVE  FALSE
        OBVIOUS
      <4>1. request[q].pc # "commit"
        <5>1. request[q] = [pc |-> request[q].pc, event |-> request[q].event]
          BY DEF Typed, TypeOK
        <5> QED BY <2>2, <5>1 DEF Inserting
      <4> QED BY <2>2, <4>1 DEF AnsweringIsStored, Answering, Stored
    <3> QED BY <1>2, <2>2, <3>1 DEF AcceptedOnce, RequestStep
  <2>3. CASE /\ request[r].pc \in Accepting /\ request'[r].event = request[r].event
    BY <1>2, <2>3 DEF AcceptedOnce, RequestStep
  <2> QED BY <1>2, <2>1, <2>2, <2>3 DEF RequestStep
<1> QED BY <1>1, <1>2, StepsOfRequests

\* UNIQUE (merchant_id, event_id): of all deliveries of an event one at most is
\* accepted, so an event enters the queue once.
THEOREM EventsAcceptedOnce == Spec => []AcceptedOnce
<1>1. Init => AnsweringIsStored /\ AcceptedOnce
  BY DEF Init, AnsweringIsStored, Answering, AcceptedOnce
<1>2. Typed /\ AnsweringIsStored /\ AcceptedOnce /\ [Next]_vars
        => AnsweringIsStored' /\ AcceptedOnce'
  BY AnsweringInductive, AcceptedInductive
<1> QED BY <1>1, <1>2, IngestionTyped, PTL DEF Spec

=============================================================================
