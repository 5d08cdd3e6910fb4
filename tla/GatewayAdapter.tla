---------------------------- MODULE GatewayAdapter ----------------------------
(***************************************************************************)
(* The Razorpay adapter's request loop and the gateway at the other end    *)
(* (packages/adapters/razorpay/gateway_adapter.py): the two operations of  *)
(* the port that change something, create_payment_link and                 *)
(* send_payment_link_reminder.  Every try is a request of its own.  A try  *)
(* the adapter stopped waiting for stays on the wire: the gateway may      *)
(* still act on it, long after the call returned.  The fetch_ operations   *)
(* change nothing at either end and are left out.                          *)
(*                                                                         *)
(* Assumed of the gateway, as the mock adapter does it: two requests with  *)
(* one X-Razorpay-Idempotency-Key make one payment link.                   *)
(***************************************************************************)
EXTENDS Naturals

CONSTANTS
  Call,        \* calls of the adapter
  Key,         \* idempotency keys of payment links
  MaxRetries,  \* max_retries
  Blocked      \* calls with live credentials while production is disabled

ASSUME GatewayAssumption ==
  /\ MaxRetries \in Nat
  /\ Key \subseteq Nat \ {0}
  /\ Blocked \subseteq Call

VARIABLES
  asked,    \* per call, the operation and its key
  tries,    \* per call, how many requests it sent
  result,   \* per call, what it returned; "none" before that
  wire,     \* <<call, try>> of the requests the gateway has not dealt with
  links,    \* per key, how many payment links the gateway made
  notices   \* per call, how many reminders the gateway sent

gatewayVars == <<asked, tries, result, wire, links, notices>>

NotAsked == [op |-> "none", key |-> 0]

Request == [op : {"link"}, key : Key] \union [op : {"reminder"}, key : {0}]

Waiting(c) == asked[c] # NotAsked /\ result[c] = "none"

----------------------------------------------------------------------------
(* The gateway's side *)

LinksWithoutKey(k) == links[k] + 1

LinksAfter(k) == IF links[k] = 0 THEN 1 ELSE links[k]

Perform(c) ==
  IF asked[c].op = "link"
    THEN /\ links' = [links EXCEPT ![asked[c].key] = LinksAfter(asked[c].key)]
         /\ UNCHANGED notices
    ELSE /\ notices' = [notices EXCEPT ![c] = @ + 1]
         /\ UNCHANGED links

\* A request is acted on while its answer does not reach the adapter, perhaps
\* after the adapter gave up on it.
ActUnheard(c, n) ==
  /\ <<c, n>> \in wire
  /\ wire' = wire \ {<<c, n>>}
  /\ Perform(c)
  /\ UNCHANGED <<asked, tries, result>>

----------------------------------------------------------------------------
(* The adapter's side *)

\* The safety mode is verified before anything is sent; the error it raises is
\* reported as a connection error.
Ask(c, request) ==
  /\ asked[c] = NotAsked
  /\ asked' = [asked EXCEPT ![c] = request]
  /\ IF c \in Blocked
       THEN /\ result' = [result EXCEPT ![c] = "retryable"]
            /\ UNCHANGED <<tries, wire>>
       ELSE /\ tries' = [tries EXCEPT ![c] = 1]
            /\ wire' = wire \union {<<c, 1>>}
            /\ UNCHANGED result
  /\ UNCHANGED <<links, notices>>

Return(c, r) == result' = [result EXCEPT ![c] = r]

MayRetryOnceMore(c) == asked[c].op = "link" /\ tries[c] <= MaxRetries + 1

\* Only an idempotent operation is tried again.
MayRetry(c) == asked[c].op = "link" /\ tries[c] <= MaxRetries

\* What follows a try that failed for a transient reason, the wire being w.
RetryOrReturn(c, w) ==
  IF MayRetry(c)
    THEN /\ tries' = [tries EXCEPT ![c] = @ + 1]
         /\ wire' = w \union {<<c, tries[c] + 1>>}
         /\ UNCHANGED result
    ELSE /\ Return(c, "retryable")
         /\ wire' = w
         /\ UNCHANGED tries

Current(c) == <<c, tries[c]>>

\* The answer to the current try arrives in time: the operation was performed,
Succeed(c) ==
  /\ Waiting(c)
  /\ Current(c) \in wire
  /\ wire' = wire \ {Current(c)}
  /\ Perform(c)
  /\ Return(c, "success")
  /\ UNCHANGED <<asked, tries>>

\* or refused with a status that is not worth a retry; a success that is neither 200
\* nor 201 is taken for a refusal,
Refuse(c) ==
  /\ Waiting(c)
  /\ Current(c) \in wire
  /\ wire' = wire \ {Current(c)}
  /\ Perform(c) \/ UNCHANGED <<links, notices>>
  /\ Return(c, "permanent")
  /\ UNCHANGED <<asked, tries>>

\* or answered with 408, 429 or 5xx, which does not tell whether it was done.
Fail(c) ==
  /\ Waiting(c)
  /\ Current(c) \in wire
  /\ Perform(c) \/ UNCHANGED <<links, notices>>
  /\ RetryOrReturn(c, wire \ {Current(c)})
  /\ UNCHANGED asked

\* No answer in time, or no connection.
TimeOut(c) ==
  /\ Waiting(c)
  /\ RetryOrReturn(c, wire)
  /\ UNCHANGED <<asked, links, notices>>

\* Any other exception, an unreadable answer among them, ends the call at once.
Break(c) ==
  /\ Waiting(c)
  /\ Return(c, "retryable")
  /\ UNCHANGED <<asked, tries, wire, links, notices>>

\* The caller dies while it waits.
Abandon(c) ==
  /\ Waiting(c)
  /\ Return(c, "lost")
  /\ UNCHANGED <<asked, tries, wire, links, notices>>

----------------------------------------------------------------------------

GatewayInit ==
  /\ asked = [c \in Call |-> NotAsked]
  /\ tries = [c \in Call |-> 0]
  /\ result = [c \in Call |-> "none"]
  /\ wire = {}
  /\ links \in [Key -> {0, 1}]
  /\ notices = [c \in Call |-> 0]

CallStep(c) ==
  \/ Succeed(c)
  \/ Refuse(c)
  \/ Fail(c)
  \/ TimeOut(c)
  \/ Break(c)

Wire == Call \X (1 .. MaxRetries + 1)

GatewayStep ==
  \/ \E c \in Call : CallStep(c)
  \/ \E r \in Wire : ActUnheard(r[1], r[2])

GatewayNext ==
  \/ GatewayStep
  \/ \E c \in Call : Abandon(c)
  \/ \E c \in Call, request \in Request : Ask(c, request)

GatewaySpec == GatewayInit /\ [][GatewayNext]_gatewayVars

----------------------------------------------------------------------------

GatewayTypeOK ==
  /\ asked \in [Call -> Request \union {NotAsked}]
  /\ tries \in [Call -> 0 .. MaxRetries + 1]
  /\ result \in [Call -> {"none", "success", "permanent", "retryable", "lost"}]
  /\ wire \subseteq Wire
  /\ links \in [Key -> Nat]
  /\ notices \in [Call -> Nat]

Port == INSTANCE GatewayPort

\* PaymentGatewayPort: through time-outs, retries, lost and late answers, one
\* key makes at most one payment link, one reminder call sends at most one
\* message, and success is reported only of what the gateway has done.
ImplementsPort == Port!Spec

=============================================================================
