---------------------------- MODULE ExecutionRace ----------------------------
(***************************************************************************)
(* One recovery case under concurrent requests, statement by statement:    *)
(*   - POST /cases/{id}/execute: the route loads the case, the orchestrator *)
(*     locks its row, calls the gateway inside the transaction, commits;   *)
(*   - POST /cases/{id}/simulate-payment and the webhook of a capture, both *)
(*     through verify_and_recover_case, which takes no lock of its own.    *)
(* RecoveryCase takes each of these as one step; here they interleave.     *)
(*                                                                         *)
(* The database runs READ COMMITTED: a statement sees what is committed.   *)
(* The session keeps the case object it loaded first: SELECT ... FOR       *)
(* UPDATE of a loaded row waits for the row but does not refresh it, and   *)
(* a flush writes only the columns whose value changed in the object.      *)
(* Writes are invisible until the commit, so each transaction publishes    *)
(* them in one step; any transaction may roll back at any point (an error, *)
(* a conflict in the audit chain, a crash).                                *)
(*                                                                         *)
(* No route re-evaluates a case, so its latest decision stays what it is.  *)
(***************************************************************************)
EXTENDS RecoveryDomain, GatewayAdapter, Sequences, FiniteSets

CONSTANTS
  Simulation,  \* requests of POST /simulate-payment
  Capture,     \* webhook events of captured payments of the case's order
  Amount,      \* the amount each simulation or capture settles
  Mixes,       \* which requests and events may come together
  NoOne        \* neither a request nor an event

Execution == Call          \* requests of POST /execute: each makes one call
Verification == Simulation \union Capture
Actor == Execution \union Verification

ASSUME RaceAssumption ==
  /\ Simulation \intersect Capture = {}
  /\ Execution \intersect Verification = {}
  /\ Amount \in [Verification -> Nat \ {0}]
  /\ NoOne \notin Actor
  /\ Mixes \subseteq SUBSET Actor
  /\ IsFiniteSet(Execution)
  /\ Key = 1 .. (Cardinality(Execution) + 2)

VARIABLES
  action,    \* the action of the latest decision
  row,       \* the committed recovery_cases row
  attempts,  \* the committed recovery_attempts rows in order of creation
  outcome,   \* the committed recovery_outcomes row
  holder,    \* whose transaction holds the lock on the case row
  pc,        \* per request or event, what it has done
  seen,      \* the case object of its session, as loaded
  match,     \* per verification, the attempt to credit
  found      \* per verification, whether it saw an outcome row

caseVars == <<row, attempts, outcome>>

vars == <<action, row, attempts, outcome, holder, pc, seen, match, found, gatewayVars>>

CaseRow == [status : CaseStatuses, count : Nat, amount : Nat]

\* link is 0, or the key under which the link the attempt refers to was made.
Attempt ==
  [number : Nat, action : Actions, status : AttemptStatuses, link : Key \union {0}]

NoOutcome == [settling |-> NoOne, attempt |-> 0]

Has(a, point) == pc[a] = point

Nothing == [status |-> "DETECTED", count |-> 0, amount |-> 0]

\* The request is over and its session is closed.
End(a) ==
  /\ pc' = [pc EXCEPT ![a] = "done"]
  /\ seen' = [seen EXCEPT ![a] = Nothing]

EndVerification(v) ==
  /\ End(v)
  /\ match' = [match EXCEPT ![v] = 0]
  /\ found' = [found EXCEPT ![v] = FALSE]

----------------------------------------------------------------------------
(* POST /cases/{id}/execute *)

\* The route loads the case and the latest decision.
LoadForExecution(e) ==
  /\ Has(e, "idle")
  /\ pc' = [pc EXCEPT ![e] = "loaded"]
  /\ seen' = [seen EXCEPT ![e] = row]
  /\ UNCHANGED <<action, caseVars, holder, match, found, gatewayVars>>

\* attempt_number, which with case and action makes the idempotency key.
Number(e) == seen[e].count + 1

\* Looked up among the attempts the route loaded with the case.
KeyWasUsed(e) ==
  \E i \in 1 .. seen[e].count : attempts[i].number = Number(e) /\ attempts[i].action = action

KeyUsed(e) ==
  \E i \in DOMAIN attempts : attempts[i].number = Number(e) /\ attempts[i].action = action

MustEnterExecuting(s) == s \in {"APPROVED", "ESCALATED"}

Admissible(e) ==
  /\ ~KeyUsed(e)
  /\ seen[e].status \notin TerminalStatuses
  /\ MustEnterExecuting(seen[e].status) => CanTransition(seen[e].status, "EXECUTING")

OpenLinks ==
  {i \in DOMAIN attempts :
     /\ attempts[i].action = "PAYMENT_LINK"
     /\ attempts[i].link > 0
     /\ attempts[i].status \in {"ACKNOWLEDGED", "SUCCEEDED"}}

LatestOpenLink == CHOOSE i \in OpenLinks : \A j \in OpenLinks : j <= i

CallsGateway ==
  action = "PAYMENT_LINK" \/ (action = "CUSTOMER_REMINDER" /\ OpenLinks # {})

GatewayRequest(e) ==
  IF action = "PAYMENT_LINK" THEN [op |-> "link", key |-> Number(e)]
                             ELSE [op |-> "reminder", key |-> 0]

NotLockedBy(a) == UNCHANGED holder

LockedBy(a) == holder = NoOne /\ holder' = a

\* With the row locked: the idempotency lookup, the checks, the attempt row, and
\* the executor's call.  A known key is answered with the existing attempt; a
\* case that is not admissible raises; both end the transaction.
Begin(e) ==
  /\ Has(e, "loaded")
  /\ IF Admissible(e)
       THEN /\ LockedBy(e)
            /\ pc' = [pc EXCEPT ![e] = "working"]
            /\ IF CallsGateway THEN Ask(e, GatewayRequest(e)) ELSE UNCHANGED gatewayVars
            /\ UNCHANGED seen
       ELSE /\ holder = NoOne
            /\ End(e)
            /\ UNCHANGED <<holder, gatewayVars>>
  /\ UNCHANGED <<action, caseVars, match, found>>

Result(status, target, link) == [status |-> status, target |-> target, link |-> link]

LinkResultOptimistic(e) ==
  IF result[e] = "permanent" THEN Result("FAILED", "WAITING_EXTERNAL", 0)
                             ELSE Result("ACKNOWLEDGED", "WAITING_EXTERNAL", Number(e))

LinkResult(e) ==
  CASE result[e] = "success"   -> Result("ACKNOWLEDGED", "WAITING_EXTERNAL", Number(e))
    [] result[e] = "permanent" -> Result("FAILED", "WAITING_EXTERNAL", 0)
    [] OTHER                   -> Result("FAILED", "DIAGNOSING", 0)

ReminderResult(e) ==
  IF asked[e] = NotAsked
    THEN Result("FAILED", "DIAGNOSING", 0)
    ELSE Result(IF result[e] = "success" THEN "ACKNOWLEDGED" ELSE "FAILED",
                "WAITING_EXTERNAL", attempts[LatestOpenLink].link)

ExecutorResult(e) ==
  CASE action = "PAYMENT_LINK"      -> LinkResult(e)
    [] action = "CUSTOMER_REMINDER" -> ReminderResult(e)
    [] action = "WAIT_AND_REASSESS" -> Result("SUCCEEDED", "WAITING_EXTERNAL", 0)
    [] action = "HUMAN_ESCALATION"  -> Result("SUCCEEDED", "ESCALATED", 0)

StatusAfter(e, target) ==
  LET before == IF MustEnterExecuting(seen[e].status) THEN "EXECUTING" ELSE seen[e].status
  IN  IF CanTransition(before, target) THEN target ELSE before

\* A column that kept its value in the session's object is not written.
Written(old, new, current) == IF new = old THEN current ELSE new

RowOfExecutionWhole(e, status) ==
  [status |-> status, count |-> seen[e].count + 1, amount |-> seen[e].amount]

RowOfExecution(e, status) ==
  [status |-> Written(seen[e].status, status, row.status),
   count  |-> seen[e].count + 1,
   amount |-> row.amount]

CommitExecution(e) ==
  /\ Has(e, "working")
  /\ ~Waiting(e)
  /\ LET r == ExecutorResult(e)
     IN  /\ row' = RowOfExecution(e, StatusAfter(e, r.target))
         /\ attempts' = Append(attempts, [number |-> Number(e), action |-> action,
                                          status |-> r.status, link |-> r.link])
  /\ holder' = NoOne
  /\ End(e)
  /\ UNCHANGED <<action, outcome, match, found, gatewayVars>>

Release(a) == IF holder = a THEN NoOne ELSE holder

\* A rolled-back execution takes back its rows, not its call.  (Before it has
\* the row it leaves no more behind than a request that never came.)
AbortExecution(e) ==
  /\ Has(e, "working")
  /\ End(e)
  /\ holder' = Release(e)
  /\ IF Waiting(e) THEN Abandon(e) ELSE UNCHANGED gatewayVars
  /\ UNCHANGED <<action, caseVars, match, found>>

----------------------------------------------------------------------------
(* verify_and_recover_case *)

\* A simulation's payment row shares the lock on its order until it commits; a
\* webhook holds that lock alone.
HoldsOrder(v) == pc[v] \in IF v \in Capture THEN {"loaded", "matched", "applied"}
                                            ELSE {"matched", "applied"}

LoadForSimulation(v) ==
  /\ v \in Simulation
  /\ Has(v, "idle")
  /\ pc' = [pc EXCEPT ![v] = "loaded"]
  /\ seen' = [seen EXCEPT ![v] = row]
  /\ UNCHANGED <<action, caseVars, holder, match, found, gatewayVars>>

VerifiableStatuses ==
  {"APPROVED", "EXECUTING", "WAITING_EXTERNAL", "VERIFYING", "ESCALATED"}

\* The order is locked before the case is looked for.
LoadForCapture(v) ==
  /\ v \in Capture
  /\ Has(v, "idle")
  /\ \A w \in Verification : ~HoldsOrder(w)
  /\ IF row.status \in VerifiableStatuses
       THEN /\ pc' = [pc EXCEPT ![v] = "loaded"]
            /\ seen' = [seen EXCEPT ![v] = row]
       ELSE End(v)
  /\ UNCHANGED <<action, caseVars, holder, match, found, gatewayVars>>

\* The link a payment_link.paid event names; any other settlement names none.
LinksNamed(v) ==
  IF v \in Capture THEN {0} \union {k \in Key : links[k] > 0} ELSE {0}

MatchingAttempt(link) ==
  LET refs == {i \in DOMAIN attempts : link > 0 /\ attempts[i].link = link}
  IN  IF refs = {} THEN Len(attempts)
                   ELSE CHOOSE i \in refs : \A j \in refs : j <= i

MatchAnyCase(v) ==
  /\ Has(v, "loaded")
  /\ v \in Simulation => \A w \in Capture : ~HoldsOrder(w)
  /\ pc' = [pc EXCEPT ![v] = "matched"]
  /\ \E link \in LinksNamed(v) :
       match' = [match EXCEPT ![v] = MatchingAttempt(link)]
  /\ UNCHANGED <<action, caseVars, holder, seen, found, gatewayVars>>

\* The payment row is inserted or found; a case loaded as RECOVERED is left
\* alone, and otherwise the attempts are read.
Match(v) ==
  /\ Has(v, "loaded")
  /\ v \in Simulation => \A w \in Capture : ~HoldsOrder(w)
  /\ IF seen[v].status = "RECOVERED"
       THEN EndVerification(v)
       ELSE /\ pc' = [pc EXCEPT ![v] = "matched"]
            /\ UNCHANGED <<seen, found>>
            /\ \E link \in LinksNamed(v) :
                 match' = [match EXCEPT ![v] = MatchingAttempt(link)]
  /\ UNCHANGED <<action, caseVars, holder, gatewayVars>>

StatusOfVerification(v) ==
  LET before == IF CanTransition(seen[v].status, "VERIFYING")
                  THEN "VERIFYING" ELSE seen[v].status
  IN  IF CanTransition(before, "RECOVERED") THEN "RECOVERED" ELSE before

\* A flush that changes nothing issues no UPDATE and takes no lock.
ChangesRow(v) ==
  StatusOfVerification(v) # seen[v].status \/ Amount[v] # seen[v].amount

\* The case row is flushed, then the outcome looked for.
Apply(v) ==
  /\ Has(v, "matched")
  /\ IF ChangesRow(v) THEN LockedBy(v) ELSE UNCHANGED holder
  /\ found' = [found EXCEPT ![v] = (outcome # NoOutcome)]
  /\ pc' = [pc EXCEPT ![v] = "applied"]
  /\ UNCHANGED <<action, caseVars, seen, match, gatewayVars>>

CreditedRegardless(i) == i > 0

\* The matching attempt is marked when its lifecycle allows it.
Credited(i) == i > 0 /\ AttemptCan(attempts[i].status, "SUCCEEDED")

CommitVerification(v) ==
  /\ Has(v, "applied")
  /\ row' = [row EXCEPT
       !.status = Written(seen[v].status, StatusOfVerification(v), @),
       !.amount = Written(seen[v].amount, Amount[v], @)]
  /\ attempts' = IF Credited(match[v])
                   THEN [attempts EXCEPT ![match[v]].status = "SUCCEEDED"]
                   ELSE attempts
  /\ outcome' = [settling |-> v, attempt |-> match[v]]
  /\ holder' = Release(v)
  /\ EndVerification(v)
  /\ UNCHANGED <<action, gatewayVars>>

AbortKeepsLock(v) ==
  /\ Has(v, "applied")
  /\ EndVerification(v)
  /\ UNCHANGED <<action, caseVars, holder, gatewayVars>>

AbortVerification(v) ==
  /\ Has(v, "applied")
  /\ EndVerification(v)
  /\ holder' = Release(v)
  /\ UNCHANGED <<action, caseVars, gatewayVars>>

----------------------------------------------------------------------------

\* A first decision has just been made,
FirstDecision ==
  /\ action \in {"PAYMENT_LINK", "WAIT_AND_REASSESS", "HUMAN_ESCALATION"}
  /\ row = [status |-> "APPROVED", count |-> 0, amount |-> 0]
  /\ attempts = <<>>
  /\ links = [k \in Key |-> 0]

\* or a customer who has a link, and whose second link failed, is to be reminded.
ReminderDecision ==
  /\ action = "CUSTOMER_REMINDER"
  /\ row = [status |-> "APPROVED", count |-> 2, amount |-> 0]
  /\ attempts = <<[number |-> 1, action |-> "PAYMENT_LINK",
                   status |-> "ACKNOWLEDGED", link |-> 1],
                  [number |-> 2, action |-> "PAYMENT_LINK",
                   status |-> "FAILED", link |-> 0]>>
  /\ links = [k \in Key |-> IF k = 1 THEN 1 ELSE 0]

Init ==
  /\ GatewayInit
  /\ FirstDecision \/ ReminderDecision
  /\ outcome = NoOutcome
  /\ holder = NoOne
  /\ \E mix \in Mixes : pc = [a \in Actor |-> IF a \in mix THEN "idle" ELSE "done"]
  /\ seen = [a \in Actor |-> Nothing]
  /\ match = [v \in Verification |-> 0]
  /\ found = [v \in Verification |-> FALSE]

ExecutionStep(e) == LoadForExecution(e) \/ Begin(e) \/ CommitExecution(e)

VerificationStep(v) ==
  \/ LoadForSimulation(v)
  \/ LoadForCapture(v)
  \/ Match(v)
  \/ Apply(v)
  \/ CommitVerification(v)

Next ==
  \/ \E e \in Execution : ExecutionStep(e) \/ AbortExecution(e)
  \/ \E v \in Verification : VerificationStep(v) \/ AbortVerification(v)
  \/ GatewayStep /\ UNCHANGED <<action, caseVars, holder, pc, seen, match, found>>

Spec == Init /\ [][Next]_vars

\* A request that waits for nothing goes on, the database grants its locks, and
\* the adapter's time-outs end every try.
FairSpec ==
  /\ Spec
  /\ \A e \in Execution : WF_vars(Begin(e) \/ CommitExecution(e))
  /\ \A v \in Verification : WF_vars(Match(v) \/ Apply(v) \/ CommitVerification(v))
  /\ \A c \in Call : WF_vars(TimeOut(c) /\ UNCHANGED <<action, caseVars, holder, pc, seen,
                                                       match, found>>)

----------------------------------------------------------------------------
(* Properties *)

\* Every variable has the shape the tables and the routes give it.
TypeOK ==
  /\ action \in Actions
  /\ row \in CaseRow
  /\ attempts \in Seq(Attempt)
  /\ outcome.settling \in Verification \union {NoOne}
  /\ outcome.attempt \in 0 .. Len(attempts)
  /\ holder \in Actor \union {NoOne}
  /\ pc \in [Actor -> {"idle", "loaded", "matched", "applied", "working", "done"}]
  /\ seen \in [Actor -> CaseRow]
  /\ match \in [Verification -> Nat]
  /\ found \in [Verification -> BOOLEAN]
  /\ GatewayTypeOK

\* current_attempt_count, which executions compute from an object that may be
\* stale, counts the attempts, and their numbers are 1, 2, 3, ... : a repeated
\* or concurrent execution of one number is recorded once.
CountMatchesAttempts ==
  /\ row.count = Len(attempts)
  /\ \A i \in DOMAIN attempts : attempts[i].number = i

\* No transaction that passed its lookup runs into a unique constraint: between
\* the lookup of the idempotency key and the commit no other execution has that
\* key, and between the lookup of the outcome and the commit none is created.
LookupsHold ==
  /\ \A e \in Execution : Has(e, "working") =>
       /\ ~KeyUsed(e)
       /\ \A f \in Execution \ {e} : Has(f, "working") => Number(f) # Number(e)
  /\ \A v \in Verification : Has(v, "applied") /\ ~found[v] =>
       /\ outcome = NoOutcome
       /\ \A w \in Verification \ {v} : Has(w, "applied") => found[w]

\* The case is credited exactly when an outcome says by what, although executions
\* rewrite the row of a case they loaded before it was credited.
CreditHasOutcome == (row.amount > 0) <=> (outcome # NoOutcome)

\* An attempt that was acknowledged refers to a link the gateway has made, and
\* however many executions die after the call, at most one link of the case has
\* no attempt on record: the next execution uses its key again.
AtMostOneOrphanLink ==
  /\ \A i \in DOMAIN attempts :
       attempts[i].link > 0 => links[attempts[i].link] > 0
  /\ Cardinality({k \in Key : links[k] > 0 /\ k > Len(attempts)}) <= 1

\* A recorded attempt stays recorded, and its status changes only along its
\* lifecycle, whoever writes it from whatever snapshot.
AttemptsKeepTheirLifecycle ==
  [][\A i \in DOMAIN attempts :
       /\ i \in DOMAIN attempts'
       /\ attempts'[i] # attempts[i] =>
            /\ AttemptCan(attempts[i].status, attempts'[i].status)
            /\ attempts'[i] = [attempts[i] EXCEPT !.status = attempts'[i].status]]_vars

\* What may still change the row, the attempts or the outcome of a recovered case:
\* only the commit of an execution or a verification that had loaded the case when
\* it was not recovered.  Whoever loads it after that leaves it alone.
OnlyStaleRequestsReopen ==
  [][row.status = "RECOVERED" =>
       \E a \in Actor : /\ pc[a] \in {"working", "applied"} /\ pc'[a] = "done"
                        /\ seen[a].status # "RECOVERED"]_caseVars

\* Every request that has begun is answered: nobody waits for a lock or for the
\* gateway for ever, whoever dies.
EveryRequestEnds == \A a \in Actor : Has(a, "loaded") ~> Has(a, "done")

----------------------------------------------------------------------------
(* What the repository says of the program and the program does not do *)

\* "If case is ALREADY RECOVERED, preserve invariant (do not downgrade or
\* duplicate)": a recovered case stays recovered.
RecoveredStaysRecovered ==
  [][row.status = "RECOVERED" => row'.status = "RECOVERED"]_row

=============================================================================
