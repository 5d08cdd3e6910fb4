-------------------------- MODULE WebhookIngestion --------------------------
(***************************************************************************)
(* The way of a webhook event from the gateway to its effects: the API     *)
(* route that stores it and enqueues a Celery task                         *)
(* (apps/api/routes/v1/webhooks.py, webhook_ingestion_service.py), the     *)
(* broker, and the worker task that runs the pipeline on it                *)
(* (apps/worker/tasks/ingestion.py).  Requests and workers interleave at   *)
(* every statement, and each can die between any two of them.              *)
(*                                                                         *)
(* External, as the code uses them: the gateway may deliver an event any   *)
(* number of times, also after it was answered; PostgreSQL makes an INSERT *)
(* wait for an uncommitted row of the same key; Celery is configured with  *)
(* acks_late and reject_on_worker_lost, so a message is gone only when its *)
(* task has returned, and comes back when its worker is lost.              *)
(***************************************************************************)
EXTENDS Integers, FiniteSets, Bags

CONSTANTS
  Event,       \* the webhook events the gateway delivers
  Malformed,   \* those whose payload the worker cannot parse
  Request,     \* deliveries: one HTTP request each
  Worker,      \* Celery worker processes
  NoEvent,     \* no event
  MaxRetries,  \* max_retries of the task
  MaxLosses    \* bound on lost workers

ASSUME IngestionAssumption ==
  /\ Malformed \subseteq Event
  /\ NoEvent \notin Event
  /\ MaxRetries \in Nat
  /\ MaxLosses \in Nat

VARIABLES
  raw,       \* per event, its raw_webhook_events row
  effects,   \* per event, how often the pipeline's effects were committed
  request,   \* per delivery, where its handler is
  queue,     \* the messages the broker holds, a bag
  worker,    \* per worker, where its task is
  abandoned, \* the events a task gave up, after its last retry or without it
  losses     \* how many workers were lost

vars == <<raw, effects, request, queue, worker, abandoned, losses>>

workerVars == <<effects, worker, abandoned, losses>>

Task == [event : Event, retries : 0 .. MaxRetries]

NoTask == [event |-> NoEvent, retries |-> 0]

Init ==
  /\ raw = [e \in Event |-> "absent"]
  /\ effects = [e \in Event |-> 0]
  /\ request = [r \in Request |-> [pc |-> "unsent", event |-> NoEvent]]
  /\ queue = EmptyBag
  /\ worker = [w \in Worker |-> [pc |-> "idle", task |-> NoTask]]
  /\ abandoned = {}
  /\ losses = 0

----------------------------------------------------------------------------
(* POST /webhooks/razorpay/{merchant_slug} *)

Goto(r, to) == request' = [request EXCEPT ![r].pc = to]

\* The gateway delivers an event, perhaps again.
Deliver(r, e) ==
  /\ request[r].pc = "unsent"
  /\ request' = [request EXCEPT ![r] = [pc |-> "lookup", event |-> e]]
  /\ UNCHANGED <<raw, queue, workerVars>>

\* Some other delivery of the event holds an uncommitted row.
Inserting(e) == \E r \in Request : request[r] = [pc |-> "commit", event |-> e]

StoredUnchecked(e) == FALSE

StoredOrBeingStored(e) == raw[e] # "absent" \/ Inserting(e)

\* UNIQUE (merchant_id, event_id)
Stored(e) == raw[e] # "absent"

\* The fast path: a stored event is answered as a duplicate.
Lookup(r) ==
  /\ request[r].pc = "lookup"
  /\ Goto(r, IF Stored(request[r].event) THEN "duplicate" ELSE "insert")
  /\ UNCHANGED <<raw, queue, workerVars>>

\* A concurrent duplicate is caught by the constraint, after waiting for it.
Insert(r) ==
  /\ request[r].pc = "insert"
  /\ ~Inserting(request[r].event)
  /\ Goto(r, IF Stored(request[r].event) THEN "duplicate" ELSE "commit")
  /\ UNCHANGED <<raw, queue, workerVars>>

Commit(r) ==
  /\ request[r].pc = "commit"
  /\ raw' = [raw EXCEPT ![request[r].event] =
               IF @ = "absent" THEN "stored" ELSE @]
  /\ Goto(r, "enqueue")
  /\ UNCHANGED <<queue, workerVars>>

\* Without its row the task finds nothing to do; it is enqueued after the commit.
Enqueue(r) ==
  /\ request[r].pc = "enqueue"
  /\ queue' = queue (+) SetToBag({[event |-> request[r].event, retries |-> 0]})
  /\ Goto(r, "accepted")
  /\ UNCHANGED <<raw, workerVars>>

\* The broker is offline: the failure is logged and the event accepted.
EnqueueFails(r) ==
  /\ request[r].pc = "enqueue"
  /\ Goto(r, "accepted")
  /\ UNCHANGED <<raw, queue, workerVars>>

\* The API process dies; what was not committed is undone and nothing is answered.
RequestDies(r) ==
  /\ request[r].pc \in {"lookup", "insert", "commit", "enqueue"}
  /\ Goto(r, "dead")
  /\ UNCHANGED <<raw, queue, workerVars>>

----------------------------------------------------------------------------
(* task_process_raw_webhook *)

Take(w) ==
  /\ worker[w].pc = "idle"
  /\ \E t \in BagToSet(queue) :
       /\ worker' = [worker EXCEPT ![w] = [pc |-> "taken", task |-> t]]
       /\ queue' = queue (-) SetToBag({t})
  /\ UNCHANGED <<raw, request, effects, abandoned, losses>>

UnlockedAlways(w) == TRUE

\* SELECT ... FOR UPDATE of the raw event's row.
Unlocked(w) ==
  \A v \in Worker \ {w} :
    ~(worker[v].pc = "locked" /\ worker[v].task.event = worker[w].task.event)

\* The row is locked; a processed event is skipped.
Begin(w) ==
  /\ worker[w].pc = "taken"
  /\ Unlocked(w)
  /\ worker' = [worker EXCEPT ![w].pc =
       IF raw[worker[w].task.event] = "processed" THEN "returned" ELSE "locked"]
  /\ UNCHANGED <<raw, queue, request, effects, abandoned, losses>>

\* The pipeline commits its effects and the processed flag together.  An event
\* that cannot be parsed is flagged without effects.
Finish(w) ==
  LET e == worker[w].task.event
  IN  /\ worker[w].pc = "locked"
      /\ raw' = [raw EXCEPT ![e] = "processed"]
      /\ effects' = [effects EXCEPT ![e] = IF e \in Malformed THEN @ ELSE @ + 1]
      /\ worker' = [worker EXCEPT ![w].pc = "returned"]
      /\ UNCHANGED <<queue, request, abandoned, losses>>

RetriesForever(t) == TRUE

MayRetry(t) == t.retries < MaxRetries

\* The pipeline raises and is rolled back; the last retry gives up.
Raise(w) ==
  /\ worker[w].pc = "locked"
  /\ IF MayRetry(worker[w].task)
       THEN /\ worker' = [worker EXCEPT ![w].pc = "retrying"]
            /\ UNCHANGED abandoned
       ELSE /\ worker' = [worker EXCEPT ![w].pc = "returned"]
            /\ abandoned' = abandoned \union {worker[w].task.event}
  /\ UNCHANGED <<raw, queue, request, effects, losses>>

\* self.retry publishes a new message; the old one is still unacknowledged.
Republish(w) ==
  /\ worker[w].pc = "retrying"
  /\ queue' = queue (+) SetToBag({[worker[w].task EXCEPT !.retries = @ + 1]})
  /\ worker' = [worker EXCEPT ![w].pc = "returned"]
  /\ UNCHANGED <<raw, request, effects, abandoned, losses>>

\* The broker is offline: Celery rejects the task without requeueing its message.
RepublishFails(w) ==
  /\ worker[w].pc = "retrying"
  /\ worker' = [worker EXCEPT ![w].pc = "returned"]
  /\ abandoned' = abandoned \union {worker[w].task.event}
  /\ UNCHANGED <<raw, queue, request, effects, losses>>

Acknowledge(w) ==
  /\ worker[w].pc = "returned"
  /\ worker' = [worker EXCEPT ![w] = [pc |-> "idle", task |-> NoTask]]
  /\ UNCHANGED <<raw, queue, request, effects, abandoned, losses>>

QueueAfterEarlyAck(w) == queue

\* The message of a lost worker is delivered again.
QueueAfterLoss(w) == queue (+) SetToBag({worker[w].task})

WorkerLost(w) ==
  /\ losses < MaxLosses
  /\ worker[w].pc # "idle"
  /\ queue' = QueueAfterLoss(w)
  /\ worker' = [worker EXCEPT ![w] = [pc |-> "idle", task |-> NoTask]]
  /\ losses' = losses + 1
  /\ UNCHANGED <<raw, request, effects, abandoned>>

----------------------------------------------------------------------------

Handle(r) == Lookup(r) \/ Insert(r) \/ Commit(r) \/ Enqueue(r) \/ EnqueueFails(r)

Work(w) ==
  \/ Take(w) \/ Begin(w) \/ Finish(w) \/ Raise(w)
  \/ Republish(w) \/ RepublishFails(w) \/ Acknowledge(w)

Next ==
  \/ \E r \in Request, e \in Event : Deliver(r, e)
  \/ \E r \in Request : Handle(r) \/ RequestDies(r)
  \/ \E w \in Worker : Work(w) \/ WorkerLost(w)

Spec == Init /\ [][Next]_vars

\* Handlers and workers that can go on do.
FairSpec ==
  /\ Spec
  /\ \A r \in Request : WF_vars(Handle(r))
  /\ \A w \in Worker : WF_vars(Work(w))

----------------------------------------------------------------------------
(* Properties *)

TypeOK ==
  /\ raw \in [Event -> {"absent", "stored", "processed"}]
  /\ effects \in [Event -> Nat]
  /\ request \in [Request ->
       [pc : {"unsent", "lookup", "insert", "commit", "enqueue", "accepted",
              "duplicate", "dead"},
        event : Event \union {NoEvent}]]
  /\ IsABag(queue) /\ BagToSet(queue) \subseteq Task
  /\ worker \in [Worker ->
       [pc : {"idle", "taken", "locked", "retrying", "returned"},
        task : Task \union {NoTask}]]
  /\ abandoned \subseteq Event
  /\ losses \in 0 .. MaxLosses

\* The processed flag: the effects of an event are committed exactly once, with
\* the flag, however often it was delivered, enqueued, redelivered and retried.
ExactlyOnce ==
  \A e \in Event :
    effects[e] = IF raw[e] = "processed" /\ e \notin Malformed THEN 1 ELSE 0

\* RawWebhookEventModel: "Guarantees immediate zero-loss persistence": a gateway
\* that got an answer, of either kind, need not deliver the event again.
AnsweredIsStored ==
  \A r \in Request :
    request[r].pc \in {"accepted", "duplicate"} => raw[request[r].event] # "absent"

\* The unique constraint: of all deliveries of an event one at most is accepted,
\* so an event enters the queue once.
AcceptedOnce ==
  \A r1, r2 \in Request :
    /\ request[r1].pc \in {"commit", "enqueue", "accepted"}
    /\ request[r2].pc \in {"commit", "enqueue", "accepted"}
    /\ request[r1].event = request[r2].event
    => r1 = r2

Held(e) ==
  \/ \E t \in BagToSet(queue) : t.event = e
  \/ \E w \in Worker : worker[w].task.event = e

\* Celery with acks_late: an event that reached the broker is processed in the
\* end, unless its task failed on every retry or could not publish the next one;
\* losing workers does not lose it.
EnqueuedIsProcessed ==
  \A e \in Event : Held(e) ~> raw[e] = "processed" \/ e \in abandoned

\* "Failed to enqueue Celery task immediately (will be picked up by worker)": a
\* stored event is processed in the end, unless its task gave it up.
StoredIsProcessed ==
  \A e \in Event : raw[e] = "stored" ~> raw[e] = "processed" \/ e \in abandoned

=============================================================================
