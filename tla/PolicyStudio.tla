----------------------------- MODULE PolicyStudio -----------------------------
(***************************************************************************)
(* The merchant's policy (apps/api/routes/v1/policies.py) and what it      *)
(* decides.  GET, POST and the preview start alike: they read the active   *)
(* configuration row of the merchant, and insert a default one when there  *)
(* is none.  POST then replaces policy, version and history in its JSON    *)
(* column by what it computed from the row it read, appends an audit event *)
(* and commits; the two others never commit.  The database runs READ       *)
(* COMMITTED and the row is read without a lock.                           *)
(*                                                                         *)
(* A decision is evaluated, by either of the two decision services, under  *)
(* the policy its caller hands over.  All three requests may also refresh  *)
(* the credentials in the row when the environment has others than it      *)
(* (POST alone would commit that): not modelled.                           *)
(***************************************************************************)
EXTENDS Scoring, Sequences, FiniteSets

CONSTANTS
  Update,      \* requests of POST /policies
  Reader,      \* requests of GET /policies and POST /policies/preview
  Evaluation,  \* evaluations of a case
  Mixes,       \* which of them come together
  Policies,    \* policies a merchant may ask for
  Facts,       \* facts a case may be evaluated with
  Previewed,   \* facts a preview may be asked about
  Models,      \* what the model may answer: from actions to scores
  NoOne        \* no request

Request == Update \union Reader
Actor == Request \union Evaluation

DefaultPolicy ==
  [attempts |-> 2, cooldown |-> 30, threshold |-> 50000, disallowed |-> {},
   flags |-> TRUE]

Policy ==
  [attempts : 1 .. 5, cooldown : 0 .. 1440, threshold : Nat \ (0 .. 999),
   disallowed : SUBSET Actions, flags : BOOLEAN]

\* A decision is recorded by a transition of the case: none leaves a final status.
CaseFacts ==
  [status : ActiveStatuses, expired : BOOLEAN, count : Nat, limit : Nat,
   since : Nat, category : FailureCategories, transient : BOOLEAN, link : BOOLEAN,
   amount : Nat, wins : Nat, losses : Nat, recoveries : Nat, vip : BOOLEAN]

ASSUME StudioAssumption ==
  /\ Update \intersect Reader = {} /\ Request \intersect Evaluation = {}
  /\ NoOne \notin Actor
  /\ Mixes \subseteq SUBSET Actor
  /\ Policies \subseteq Policy
  /\ Facts \union Previewed \subseteq CaseFacts
  /\ Models \subseteq [Actions -> (0 .. 10000) \union {Unscored}]

VARIABLES
  config,  \* the committed row: its version, its policy, its history
  audit,   \* the committed POLICY_VERSION_CREATED events
  holder,  \* who has inserted or updated the row and not finished
  pc,      \* per request and evaluation, what it has done
  seen,    \* per request, the row as it read it
  answer   \* per request and evaluation, what came of it

vars == <<config, audit, holder, pc, seen, answer>>

Absent == [version |-> 0, policy |-> DefaultPolicy, history |-> <<>>]

DefaultConfig == [version |-> 1, policy |-> DefaultPolicy, history |-> <<>>]

Unanswered == [kind |-> "none"]

Has(r, point) == pc[r] = point

At(r, point) == pc' = [pc EXCEPT ![r] = point]

Release(r) == IF holder = r THEN NoOne ELSE holder

----------------------------------------------------------------------------
(* get_or_create_policy_config *)

Load(r) ==
  /\ Has(r, "idle")
  /\ seen' = [seen EXCEPT ![r] = IF config = Absent THEN DefaultConfig ELSE config]
  /\ At(r, IF config = Absent THEN "absent" ELSE "loaded")
  /\ UNCHANGED <<config, audit, holder, answer>>

\* The insertion waits for one that is not committed, and raises after one that is.
Create(r) ==
  /\ Has(r, "absent")
  /\ holder = NoOne
  /\ IF config = Absent THEN At(r, "loaded") /\ holder' = r
                        ELSE At(r, "done") /\ UNCHANGED holder
  /\ UNCHANGED <<config, audit, seen, answer>>

----------------------------------------------------------------------------
(* POST /policies *)

\* The archived policy lacks the two switches.
ArchivedWhole(p) == p

Archived(p) ==
  [attempts |-> p.attempts, cooldown |-> p.cooldown, threshold |-> p.threshold,
   disallowed |-> p.disallowed]

NewVersionOfRow(u) == config.version + 1

NewVersion(u) == seen[u].version + 1

ArchiveEntryOfNew(u, p) == [version |-> seen[u].version, policy |-> Archived(p)]

ArchiveEntry(u, p) == [version |-> seen[u].version, policy |-> Archived(seen[u].policy)]

NewConfig(u, p) ==
  [version |-> NewVersion(u), policy |-> p,
   history |-> Append(seen[u].history, ArchiveEntry(u, p))]

\* The UPDATE waits for the row; it writes what was computed from the row read.
Flush(u) ==
  /\ u \in Update
  /\ Has(u, "loaded")
  /\ holder \in {NoOne, u}
  /\ holder' = u
  /\ At(u, "flushed")
  /\ UNCHANGED <<config, audit, seen, answer>>

Commit(u) ==
  /\ Has(u, "flushed")
  /\ \E p \in Policies :
       /\ config' = NewConfig(u, p)
       /\ audit' = Append(audit, [version |-> NewVersion(u), policy |-> p])
  /\ holder' = Release(u)
  /\ At(u, "done")
  /\ UNCHANGED <<seen, answer>>

\* The audit chain may refuse the event, or the process die.
Abort(r) ==
  /\ pc[r] \in {"loaded", "flushed"}
  /\ holder' = Release(r)
  /\ At(r, "done")
  /\ UNCHANGED <<config, audit, seen, answer>>

----------------------------------------------------------------------------
(* GET /policies, POST /policies/preview, and the decision of a case *)

\* The answer is computed from the row read or from the policy the request
\* brings; the session is closed without a commit, which takes an insertion back.
AnswerReader(r) ==
  /\ r \in Reader
  /\ Has(r, "loaded")
  /\ \E p \in Policies \union {seen[r].policy}, f \in Previewed, a \in Actions :
       answer' = [answer EXCEPT ![r] =
         [kind |-> "preview", policy |-> p, facts |-> f, proposed |-> a,
          ruling |-> Preview(p, f, a)]]
  /\ holder' = Release(r)
  /\ At(r, "done")
  /\ UNCHANGED <<config, audit, seen>>

\* DecisionService.evaluate_case_decision or AIDecisionService.evaluate_with_ai,
\* the caller supplying the policy.
Evaluate(v) ==
  /\ v \in Evaluation
  /\ Has(v, "idle")
  /\ \E p \in Policies \union {DefaultPolicy}, f \in Facts, model \in Models,
        service \in Services :
       \E a \in Proposals(service, model, p, f) :
         answer' = [answer EXCEPT ![v] =
           [kind |-> "decision", policy |-> p, facts |-> f, model |-> model,
            by |-> service, proposed |-> a, ruling |-> Decision(model, p, f, a)]]
  /\ At(v, "done")
  /\ UNCHANGED <<config, audit, holder, seen>>

----------------------------------------------------------------------------

Init ==
  /\ config = Absent
  /\ audit = <<>>
  /\ holder = NoOne
  /\ \E mix \in Mixes : pc = [r \in Actor |-> IF r \in mix THEN "idle" ELSE "done"]
  /\ seen = [r \in Request |-> Absent]
  /\ answer = [r \in Actor |-> Unanswered]

Next ==
  \/ \E r \in Request : Load(r) \/ Create(r) \/ Abort(r)
  \/ \E u \in Update : Flush(u) \/ Commit(u)
  \/ \E r \in Reader : AnswerReader(r)
  \/ \E v \in Evaluation : Evaluate(v)

Spec == Init /\ [][Next]_vars

----------------------------------------------------------------------------
(* Properties *)

Ruling ==
  [verdict : Verdicts, action : Actions]

ArchivedPolicy ==
  [attempts : 1 .. 5, cooldown : 0 .. 1440, threshold : Nat \ (0 .. 999),
   disallowed : SUBSET Actions]

\* Every variable has the shape the column and the routes give it.
TypeOK ==
  /\ config.version \in Nat
  /\ config.policy \in Policy
  /\ \A i \in DOMAIN config.history :
       /\ config.history[i].version \in Nat
       /\ config.history[i].policy \in ArchivedPolicy
  /\ audit \in Seq([version : Nat, policy : Policy])
  /\ holder \in Request \union {NoOne}
  /\ pc \in [Actor -> {"idle", "absent", "loaded", "flushed", "done"}]
  /\ \A r \in Actor : answer[r] # Unanswered =>
       answer[r].proposed \in Actions /\ answer[r].ruling \in Ruling

\* Whatever updates overwrite each other, the history of the active version has
\* one entry for each version before it, in order.
HistoryContiguous ==
  /\ Len(config.history) = (IF config = Absent THEN 0 ELSE config.version - 1)
  /\ \A i \in DOMAIN config.history : config.history[i].version = i

\* The audit chain has what concurrent updates take from the history: its last
\* event is the active policy, and every archived policy is the default or that
\* of an event of its version.
HistoryIsAudited ==
  /\ config # Absent =>
       /\ audit # <<>>
       /\ audit[Len(audit)] = [version |-> config.version, policy |-> config.policy]
  /\ \A i \in DOMAIN config.history :
       LET entry == config.history[i]
       IN  IF entry.version = 1
             THEN entry.policy = Archived(DefaultPolicy)
             ELSE \E j \in DOMAIN audit : /\ audit[j].version = entry.version
                                          /\ Archived(audit[j].policy) = entry.policy

Decided == {v \in Evaluation : answer[v] # Unanswered}

Authorized(v) == answer[v].ruling.action

\* Candidates, scores, ranking and rules together never contact the customer of a
\* case blocked for fraud, whichever service decides: it is left alone or handed to
\* a human.  The one other outcome is a wait in a cooldown, whose rule comes before
\* the one that prohibits automated recovery.  The fraud score of DecisionService
\* keeps it from that one too as long as doing nothing is allowed; AIDecisionService
\* may propose a reminder or an escalation, and a wait is authorised instead.
FraudNotContacted ==
  \A v \in Decided : answer[v].facts.category = "FRAUD_RISK_BLOCK" =>
    \/ Authorized(v) \in {"DO_NOTHING", "HUMAN_ESCALATION"}
    \/ /\ Authorized(v) = "WAIT_AND_REASSESS"
       /\ Cooling(answer[v].policy, answer[v].facts)
       /\ answer[v].by = "DecisionService" => "DO_NOTHING" \in answer[v].policy.disallowed

\* What is spent on a customer is what the service proposed, one of the case's
\* candidates: no rule makes a link or a reminder of another action.  When it is
\* DecisionService that decides, it is spent only where it is expected to bring at
\* least as much as any other candidate, and never at an expected loss when doing
\* nothing is allowed.  AIDecisionService has no such bound.
SpendsAsProposed ==
  \A v \in Decided : Authorized(v) \in Contacting =>
    LET a == answer[v]
        erv(x) == Valued(a.model, x, a.facts).erv
    IN  /\ Authorized(v) = a.proposed
        /\ a.proposed \in Proposable(a.policy, a.facts)
        /\ a.by = "DecisionService" =>
             /\ \A x \in Proposable(a.policy, a.facts) : erv(x) <= erv(a.proposed)
             /\ "DO_NOTHING" \notin a.policy.disallowed => erv(a.proposed) >= 0

\* A disallowed action is authorised only by a rule that ranks above the
\* merchant's list: the cooldown's wait, the escalation of a high amount, or
\* doing nothing.  Never a payment link or a reminder.
DisallowedOnlyByGuards ==
  \A v \in Decided : Authorized(v) \in answer[v].policy.disallowed =>
    \/ Authorized(v) = "DO_NOTHING"
    \/ Authorized(v) = "WAIT_AND_REASSESS" /\ Cooling(answer[v].policy, answer[v].facts)
    \/ Authorized(v) = "HUMAN_ESCALATION" /\ High(answer[v].policy, answer[v].facts)

\* "Simulates how a policy configuration evaluates a specific candidate action":
\* for what the pipeline proposes, other than a reminder, for a case that is
\* neither expired nor in a cooldown, the preview rules as the decision did.
PreviewForetells ==
  \A v \in Decided :
    LET a == answer[v]
    IN  ~a.facts.expired /\ ~Cooling(a.policy, a.facts) /\ a.proposed # "CUSTOMER_REMINDER"
          => Preview(a.policy, a.facts, a.proposed) = a.ruling

=============================================================================
