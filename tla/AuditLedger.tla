---------------------------- MODULE AuditLedger ----------------------------
(***************************************************************************)
(* Concurrent transactions that append to the audit hash chain of one      *)
(* merchant with AuditLedgerService.record_event                           *)
(* (packages/persistence/audit_ledger.py), over a PostgreSQL database at   *)
(* its default isolation level, READ COMMITTED:                            *)
(*   - SELECT ... ORDER BY sequence_number DESC LIMIT 1 FOR UPDATE picks   *)
(*     the last row of a snapshot taken when the statement starts, then    *)
(*     waits for that row's lock; rows are never updated, so the wait      *)
(*     returns the very row it started with;                               *)
(*   - an empty chain has no row to lock;                                  *)
(*   - INSERT waits for an uncommitted row with the same key and fails on  *)
(*     a committed one: UNIQUE (merchant_id, sequence_number);             *)
(*   - row locks are held to the end of the transaction.                   *)
(* Chains of different merchants share no row and no key, so one is        *)
(* enough.  SHA-256 is taken to be injective: an entry's hash is the       *)
(* entry's identity.                                                       *)
(***************************************************************************)
EXTENDS Integers, Sequences, FiniteSets, Functions

CONSTANTS
  Txn,      \* transactions that record audit events
  Size,     \* how many events each of them records
  Retries,  \* how often an aborted transaction is tried again
  NoHash    \* what the first event of a chain holds for its predecessor's hash

ASSUME LedgerAssumption ==
  /\ IsFiniteSet(Txn)
  /\ Size \in [Txn -> Nat \ {0}]
  /\ Retries \in Nat
  /\ NoHash \notin Txn \X Nat

VARIABLES
  rows,     \* committed audit_events rows
  pending,  \* per transaction, the rows it has inserted
  locked,   \* per transaction, the rows it has locked
  seen,     \* per transaction, the last event its SELECT picked
  pc,       \* per transaction, where it is
  aborts    \* per transaction, how often it was rolled back

vars == <<rows, pending, locked, seen, pc, aborts>>

Hash == (Txn \X Nat) \union {NoHash}

Row == [seq : Nat, prev : Hash, hash : Hash]

GenesisCountedFromZero == [seq |-> -1, prev |-> NoHash, hash |-> NoHash]

\* Stands for the missing last event of an empty chain.
Genesis == [seq |-> 0, prev |-> NoHash, hash |-> NoHash]

Init ==
  /\ rows = {}
  /\ pending = [t \in Txn |-> <<>>]
  /\ locked = [t \in Txn |-> {}]
  /\ seen = [t \in Txn |-> Genesis]
  /\ pc = [t \in Txn |-> "ready"]
  /\ aborts = [t \in Txn |-> 0]

----------------------------------------------------------------------------
(* record_event *)

\* A statement sees what is committed and what its own transaction did.
Visible(t) == rows \union Range(pending[t])

LastEvent(S) ==
  IF S = {} THEN Genesis ELSE CHOOSE r \in S : \A q \in S : q.seq <= r.seq

Select(t) ==
  /\ pc[t] = "ready"
  /\ Len(pending[t]) < Size[t]
  /\ seen' = [seen EXCEPT ![t] = LastEvent(Visible(t))]
  /\ pc' = [pc EXCEPT ![t] = "locking"]
  /\ UNCHANGED <<rows, pending, locked, aborts>>

Lock(t) ==
  /\ pc[t] = "locking"
  /\ \A u \in Txn \ {t} : seen[t] \notin locked[u]
  /\ locked' = [locked EXCEPT ![t] = @ \union ({seen[t]} \ {Genesis})]
  /\ pc' = [pc EXCEPT ![t] = "insert"]
  /\ UNCHANGED <<rows, pending, seen, aborts>>

SequenceOf(row) == row.seq + 1

NextRow(t) ==
  [seq |-> SequenceOf(seen[t]), prev |-> seen[t].hash,
   hash |-> <<t, Len(pending[t]) + 1>>]

HasKey(S, n) == \E r \in S : r.seq = n

NeverTaken(t) == FALSE

\* The unique constraint refuses the row.
Taken(t) == HasKey(Visible(t), NextRow(t).seq)

\* The row's key awaits the end of another transaction.
Contended(t) == \E u \in Txn \ {t} : HasKey(Range(pending[u]), NextRow(t).seq)

Insert(t) ==
  /\ pc[t] = "insert"
  /\ ~Taken(t)
  /\ ~Contended(t)
  /\ pending' = [pending EXCEPT ![t] = Append(@, NextRow(t))]
  /\ pc' = [pc EXCEPT ![t] = "ready"]
  /\ UNCHANGED <<rows, locked, seen, aborts>>

----------------------------------------------------------------------------
(* The end of a transaction *)

LocksAfterLeak(t) == locked

LocksAfter(t) == [locked EXCEPT ![t] = {}]

Commit(t) ==
  /\ pc[t] = "ready"
  /\ Len(pending[t]) = Size[t]
  /\ rows' = rows \union Range(pending[t])
  /\ pending' = [pending EXCEPT ![t] = <<>>]
  /\ locked' = LocksAfter(t)
  /\ pc' = [pc EXCEPT ![t] = "done"]
  /\ UNCHANGED <<seen, aborts>>

RollbackKeepingEvents(t) ==
  /\ rows' = rows \union Range(pending[t])
  /\ pending' = [pending EXCEPT ![t] = <<>>]
  /\ locked' = LocksAfter(t)
  /\ pc' = [pc EXCEPT ![t] = IF aborts[t] < Retries THEN "ready" ELSE "failed"]
  /\ aborts' = [aborts EXCEPT ![t] = @ + 1]
  /\ UNCHANGED seen

\* Its caller tries again (a Celery retry) or gives up (an API request).
Rollback(t) ==
  /\ pending' = [pending EXCEPT ![t] = <<>>]
  /\ locked' = LocksAfter(t)
  /\ pc' = [pc EXCEPT ![t] = IF aborts[t] < Retries THEN "ready" ELSE "failed"]
  /\ aborts' = [aborts EXCEPT ![t] = @ + 1]
  /\ UNCHANGED <<rows, seen>>

\* The INSERT raises IntegrityError.
Conflict(t) ==
  /\ pc[t] = "insert"
  /\ Taken(t)
  /\ Rollback(t)

\* Whatever else the transaction does raises, or its process dies.
Abort(t) ==
  /\ pc[t] \in {"ready", "locking", "insert"}
  /\ Rollback(t)

----------------------------------------------------------------------------

Step(t) == Select(t) \/ Lock(t) \/ Insert(t) \/ Commit(t) \/ Conflict(t)

Next == \E t \in Txn : Step(t) \/ Abort(t)

Spec == Init /\ [][Next]_vars

\* A transaction that can take its next step takes it.
FairSpec == Spec /\ \A t \in Txn : WF_vars(Step(t))

----------------------------------------------------------------------------
(* Properties *)

TypeOK ==
  /\ rows \subseteq Row
  /\ pending \in [Txn -> Seq(Row)]
  /\ locked \in [Txn -> SUBSET Row]
  /\ seen \in [Txn -> Row]
  /\ pc \in [Txn -> {"ready", "locking", "insert", "done", "failed"}]
  /\ aborts \in [Txn -> Nat]

\* AuditLedgerService, GET /audit/verify: at every moment the committed rows are
\* numbered 1, 2, 3, ... and each holds the hash of the one before it, whatever
\* transactions raced for the end of the chain or were rolled back.
ChainUnbroken ==
  /\ {r.seq : r \in rows} = 1 .. Cardinality(rows)
  /\ \A r \in rows : \E q \in rows \union {Genesis} :
       q.seq = r.seq - 1 /\ q.hash = r.prev

\* The ledger as a sequence of entries.
Log ==
  [n \in {r.seq : r \in rows} |-> (CHOOSE r \in rows : r.seq = n).hash]

Ledger == INSTANCE AppendOnlyLog WITH log <- Log, done <- {t \in Txn : pc[t] = "done"}

\* The chain with its races implements the atomic log: what commits is appended
\* as one block, nothing committed is lost or moved.
ImplementsLog == Ledger!Spec

\* No transaction waits for ever, for a row lock or for a key.
EveryTransactionEnds == \A t \in Txn : <>(pc[t] \in {"done", "failed"})

=============================================================================
