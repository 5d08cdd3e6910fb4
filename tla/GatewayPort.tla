----------------------------- MODULE GatewayPort -----------------------------
(***************************************************************************)
(* What the orchestrator may rely on when it talks to the payment gateway  *)
(* through PaymentGatewayPort (packages/ports/payment_gateway.py): asking  *)
(* for a link is idempotent in its key, one reminder call sends at most    *)
(* one message, and a call reports success only of what has been done.     *)
(* What a failed call asked for may have been done, or be done later.      *)
(***************************************************************************)
EXTENDS Naturals

CONSTANTS
  Call,  \* calls of the port
  Key    \* idempotency keys of payment links

VARIABLES
  asked,    \* per call, what it asks for
  result,   \* per call, what it returned
  links,    \* per key, the payment links that exist
  notices   \* per call, the reminders it made the gateway send

vars == <<asked, result, links, notices>>

NotAsked == [op |-> "none", key |-> 0]

Request == [op : {"link"}, key : Key] \union [op : {"reminder"}, key : {0}]

Results == {"success", "permanent", "retryable", "lost"}

Init ==
  /\ asked = [c \in Call |-> NotAsked]
  /\ result = [c \in Call |-> "none"]
  /\ links \in [Key -> {0, 1}]
  /\ notices = [c \in Call |-> 0]

Performed(c) ==
  CASE asked[c].op = "link"     -> links[asked[c].key] = 1
    [] asked[c].op = "reminder" -> notices[c] = 1
    [] OTHER                    -> FALSE

\* A call refused before anything was sent returns in the step that makes it.
Ask(c, request, returned) ==
  /\ asked[c] = NotAsked
  /\ asked' = [asked EXCEPT ![c] = request]
  /\ result' = [result EXCEPT ![c] = returned]
  /\ UNCHANGED <<links, notices>>

\* The link is made, or the message sent, unless that was done before.
Effect(c) ==
  /\ asked[c] # NotAsked
  /\ ~Performed(c)
  /\ IF asked[c].op = "link"
       THEN links' = [links EXCEPT ![asked[c].key] = 1] /\ UNCHANGED notices
       ELSE notices' = [notices EXCEPT ![c] = 1] /\ UNCHANGED links

Perform(c) ==
  /\ Effect(c)
  /\ UNCHANGED <<asked, result>>

Return(c, returned) ==
  /\ asked[c] # NotAsked
  /\ result[c] = "none"
  /\ result' = [result EXCEPT ![c] = returned]
  /\ Effect(c) \/ UNCHANGED <<links, notices>>
  /\ returned = "success" => Performed(c)'
  /\ UNCHANGED asked

Next ==
  \E c \in Call :
    \/ \E request \in Request, returned \in {"none", "retryable"} :
         Ask(c, request, returned)
    \/ Perform(c)
    \/ \E returned \in Results : Return(c, returned)

Spec == Init /\ [][Next]_vars

=============================================================================
