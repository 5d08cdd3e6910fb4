------------------------- MODULE AuditLedger_proofs -------------------------
(***************************************************************************)
(* The audit chain for any number of transactions and events: its rows are *)
(* numbered without gap and linked by their hashes, and the ledger with    *)
(* its races, locks and rollbacks implements the atomic append-only log.   *)
(*                                                                         *)
(* The argument: let n be the number of committed rows.  Whoever inserts   *)
(* first has to insert number n + 1, for every earlier number is taken by  *)
(* a committed row; its uncommitted row makes every other transaction that *)
(* wants this number wait.  So at most one transaction has uncommitted     *)
(* rows, they follow the committed ones, and they stay there until it      *)
(* ends.  The row locks play no part in this.                              *)
(***************************************************************************)
EXTENDS AuditLedger, FiniteSetTheorems, SequenceTheorems, TLAPS

----------------------------------------------------------------------------
(* The invariant *)

\* A set of rows is numbered 1 .. n, one row per number.
Numbered(S, n) ==
  /\ \A r \in S : r.seq \in 1 .. n
  /\ \A i \in 1 .. n : HasKey(S, i)
  /\ \A r, q \in S : r.seq = q.seq => r = q

\* The committed rows are numbered, and each is linked to the one before it.
Chained(n) ==
  /\ Numbered(rows, n)
  /\ \A r \in rows : \E q \in rows \union {Genesis} :
       q.seq = r.seq - 1 /\ q.hash = r.prev

\* The uncommitted rows of a transaction continue the committed ones.
Continues(t, n) ==
  \A k \in 1 .. Len(pending[t]) :
    /\ pending[t][k].seq = n + k
    /\ pending[t][k].hash = <<t, k>>
    /\ k = 1 => \E q \in rows \union {Genesis} :
                  q.seq = n /\ q.hash = pending[t][k].prev
    /\ k > 1 => pending[t][k].prev = <<t, k - 1>>

\* At most one transaction has uncommitted rows.
OneWriter == \A t, u \in Txn : pending[t] # <<>> /\ pending[u] # <<>> => t = u

\* What the SELECT picked is committed, or the transaction's own last row.
PicksVisible(t) ==
  pc[t] \in {"locking", "insert"} =>
    IF pending[t] = <<>> THEN seen[t] \in rows \union {Genesis}
                         ELSE seen[t] = pending[t][Len(pending[t])]

Unforked(n) ==
  /\ Chained(n)
  /\ OneWriter
  /\ \A t \in Txn : Continues(t, n) /\ PicksVisible(t)

LedgerInv == TypeOK /\ \E n \in Nat : Unforked(n)

----------------------------------------------------------------------------
(* Rows *)

\* The uncommitted rows of a transaction are a sequence.
LEMMA PendingRows ==
  ASSUME TypeOK, NEW t \in Txn
  PROVE  /\ pending[t] \in Seq(Row)
         /\ Len(pending[t]) \in Nat
         /\ DOMAIN pending[t] = 1 .. Len(pending[t])
         /\ \A k \in 1 .. Len(pending[t]) : pending[t][k] \in Row
         /\ pending[t] = <<>> <=> Len(pending[t]) = 0
         /\ Range(pending[t]) = {pending[t][k] : k \in 1 .. Len(pending[t])}
<1>1. pending[t] \in Seq(Row)
  BY DEF TypeOK
<1>2. Len(pending[t]) \in Nat /\ DOMAIN pending[t] = 1 .. Len(pending[t])
  BY <1>1, LenProperties
<1>3. \A k \in 1 .. Len(pending[t]) : pending[t][k] \in Row
  BY <1>1, ElementOfSeq
<1>4. pending[t] = <<>> <=> Len(pending[t]) = 0
  BY <1>1, EmptySeq
<1>5. Range(pending[t]) = {pending[t][k] : k \in 1 .. Len(pending[t])}
  BY <1>2 DEF Range
<1> QED BY <1>1, <1>2, <1>3, <1>4, <1>5

\* The last event of a set of rows with one greatest number.
LEMMA LastEventIs ==
  ASSUME NEW S, NEW r \in S, \A q \in S : q.seq \in Int,
         \A q \in S : q.seq <= r.seq,
         \A q \in S : q.seq = r.seq => q = r
  PROVE  LastEvent(S) = r
<1> DEFINE Greatest(q) == \A p \in S : p.seq <= q.seq
<1>1. Greatest(r)
  OBVIOUS
<1>2. \A q \in S : Greatest(q) => q = r
  OBVIOUS
<1> HIDE DEF Greatest
<1>3. (CHOOSE q \in S : Greatest(q)) = r
  BY <1>1, <1>2
<1> QED BY <1>3 DEF LastEvent, Greatest

\* What SELECT ... ORDER BY sequence_number DESC picks.
LEMMA PickedRow ==
  ASSUME TypeOK, NEW n \in Nat, Unforked(n), NEW t \in Txn
  PROVE  LET last == LastEvent(Visible(t))
         IN  /\ last \in Row
             /\ IF pending[t] = <<>> THEN last \in rows \union {Genesis}
                                     ELSE last = pending[t][Len(pending[t])]
<1> DEFINE m == Len(pending[t])
<1>1. /\ m \in Nat
      /\ Range(pending[t]) = {pending[t][k] : k \in 1 .. m}
      /\ \A k \in 1 .. m : pending[t][k] \in Row
      /\ pending[t] = <<>> <=> m = 0
  BY PendingRows
<1>2. /\ \A r \in rows : r \in Row /\ r.seq \in 1 .. n
      /\ \A r, q \in rows : r.seq = q.seq => r = q
  BY DEF TypeOK, Unforked, Chained, Numbered
<1>3. CASE pending[t] = <<>>
  <2>1. Visible(t) = rows
    BY <1>1, <1>3 DEF Visible
  <2>2. CASE rows = {}
    BY <1>3, <2>1, <2>2 DEF LastEvent, Genesis, Row, Hash
  <2>3. CASE rows # {}
    <3>1. n \in 1 .. n
      BY <1>2, <2>3
    <3>2. PICK r \in rows : r.seq = n
      BY <3>1 DEF Unforked, Chained, Numbered, HasKey
    <3>3. LastEvent(rows) = r
      BY <1>2, <3>2, LastEventIs
    <3> QED BY <1>2, <1>3, <2>1, <3>3
  <2> QED BY <2>2, <2>3
<1>4. CASE pending[t] # <<>>
  <2> DEFINE r == pending[t][m]
  <2>1. m \in 1 .. m /\ r \in Row
    BY <1>1, <1>4
  <2>2. \A k \in 1 .. m : pending[t][k].seq = n + k
    BY DEF Unforked, Continues
  <2>3. r \in Visible(t) /\ r.seq = n + m
    BY <1>1, <2>1, <2>2 DEF Visible
  <2>4. ASSUME NEW q \in Visible(t)
        PROVE  q.seq \in Int /\ q.seq <= r.seq /\ (q.seq = r.seq => q = r)
    <3>1. CASE q \in rows
      BY <1>1, <1>2, <2>1, <2>3, <3>1
    <3>2. CASE q \in Range(pending[t])
      <4>1. PICK k \in 1 .. m : q = pending[t][k]
        BY <1>1, <3>2
      <4> QED BY <1>1, <2>2, <2>3, <4>1
    <3> QED BY <3>1, <3>2 DEF Visible
  <2>5. LastEvent(Visible(t)) = r
    <3> HIDE DEF r
    <3> QED BY <2>3, <2>4, LastEventIs
  <2> QED BY <1>4, <2>1, <2>5
<1> QED BY <1>3, <1>4

\* A row that can be inserted continues the chain, and its transaction is the only
\* one with uncommitted rows.
LEMMA InsertedRow ==
  ASSUME TypeOK, NEW n \in Nat, Unforked(n), NEW t \in Txn, Insert(t)
  PROVE  /\ NextRow(t) \in Row
         /\ NextRow(t).seq = n + Len(pending[t]) + 1
         /\ NextRow(t).hash = <<t, Len(pending[t]) + 1>>
         /\ pending[t] = <<>> => \E q \in rows \union {Genesis} :
                                   q.seq = n /\ q.hash = NextRow(t).prev
         /\ pending[t] # <<>> => NextRow(t).prev = <<t, Len(pending[t])>>
         /\ \A u \in Txn \ {t} : pending[u] = <<>>
<1> DEFINE m == Len(pending[t])
<1>1. m \in Nat /\ (pending[t] = <<>> <=> m = 0)
  BY PendingRows
<1>2. seen[t] \in Row /\ seen[t].seq \in Nat
  BY DEF TypeOK, Row
<1>3. NextRow(t) = [seq |-> seen[t].seq + 1, prev |-> seen[t].hash, hash |-> <<t, m + 1>>]
  BY DEF NextRow, SequenceOf
<1>4. NextRow(t) \in Row
  BY <1>1, <1>2, <1>3 DEF Row, Hash
<1>5. ~HasKey(rows, seen[t].seq + 1)
  BY <1>3 DEF Insert, Taken, HasKey, Visible
<1>6. PicksVisible(t) /\ pc[t] = "insert"
  BY DEF Unforked, Insert
<1>7. CASE pending[t] = <<>>
  <2>1. seen[t] \in rows \union {Genesis}
    BY <1>6, <1>7 DEF PicksVisible
  <2>2. seen[t].seq \in 0 .. n
    BY <2>1 DEF Unforked, Chained, Numbered, Genesis
  <2>3. seen[t].seq = n
    <3>1. ~(seen[t].seq + 1 \in 1 .. n)
      BY <1>5 DEF Unforked, Chained, Numbered
    <3> QED BY <2>2, <3>1
  <2>4. ASSUME NEW u \in Txn \ {t}, pending[u] # <<>>
        PROVE  FALSE
    <3>1. 1 \in 1 .. Len(pending[u])
      BY <2>4, PendingRows
    <3>2. pending[u][1].seq = n + 1
      BY <3>1 DEF Unforked, Continues
    <3>3. pending[u][1] \in Range(pending[u])
      BY <3>1, PendingRows
    <3>4. Contended(t)
      BY <1>3, <2>3, <3>2, <3>3 DEF Contended, HasKey
    <3> QED BY <3>4 DEF Insert
  <2> QED BY <1>1, <1>3, <1>4, <1>7, <2>1, <2>3, <2>4
<1>8. CASE pending[t] # <<>>
  <2>1. m \in 1 .. m
    BY <1>1, <1>8
  <2>2. seen[t] = pending[t][m]
    BY <1>6, <1>8 DEF PicksVisible
  <2>3. seen[t].seq = n + m /\ seen[t].hash = <<t, m>>
    BY <2>1, <2>2 DEF Unforked, Continues
  <2>4. \A u \in Txn \ {t} : pending[u] = <<>>
    BY <1>8 DEF Unforked, OneWriter
  <2> QED BY <1>1, <1>3, <1>4, <1>8, <2>3, <2>4
<1> QED BY <1>7, <1>8

----------------------------------------------------------------------------
(* The steps of a transaction *)

\* A SELECT picks a committed row or its own last one.
LEMMA SelectStep ==
  ASSUME TypeOK, NEW n \in Nat, Unforked(n), NEW t \in Txn, Select(t)
  PROVE  TypeOK' /\ Unforked(n)'
<1> DEFINE last == LastEvent(Visible(t))
<1>1. /\ last \in Row
      /\ IF pending[t] = <<>> THEN last \in rows \union {Genesis}
                              ELSE last = pending[t][Len(pending[t])]
  BY PickedRow
<1> HIDE DEF last
<1>2. /\ seen' = [seen EXCEPT ![t] = last]
      /\ pc' = [pc EXCEPT ![t] = "locking"]
      /\ UNCHANGED <<rows, pending, locked, aborts>>
  BY DEF Select, last
<1>3. TypeOK'
  BY <1>1, <1>2 DEF TypeOK
<1>4. Chained(n)' /\ OneWriter'
  BY <1>2 DEF Unforked, Chained, Numbered, HasKey, OneWriter
<1>5. ASSUME NEW u \in Txn
      PROVE  Continues(u, n)' /\ PicksVisible(u)'
  <2>1. Continues(u, n)'
    BY <1>2 DEF Unforked, Continues
  <2>2. PicksVisible(u)'
    <3>1. CASE u = t
      <4>1. seen'[u] = last
        BY <1>2, <3>1 DEF TypeOK
      <4> QED BY <1>1, <1>2, <3>1, <4>1 DEF PicksVisible
    <3>2. CASE u # t
      <4>1. seen'[u] = seen[u] /\ pc'[u] = pc[u]
        BY <1>2, <3>2 DEF TypeOK
      <4>2. PicksVisible(u)
        BY DEF Unforked
      <4> QED BY <1>2, <4>1, <4>2 DEF PicksVisible
    <3> QED BY <3>1, <3>2
  <2> QED BY <2>1, <2>2
<1> QED BY <1>3, <1>4, <1>5 DEF Unforked

\* A lock changes nothing the chain depends on.
LEMMA LockStep ==
  ASSUME TypeOK, NEW n \in Nat, Unforked(n), NEW t \in Txn, Lock(t)
  PROVE  TypeOK' /\ Unforked(n)'
<1>1. TypeOK'
  BY DEF Lock, TypeOK
<1>2. Chained(n)' /\ OneWriter'
  BY DEF Lock, Unforked, Chained, Numbered, HasKey, OneWriter
<1>3. ASSUME NEW u \in Txn
      PROVE  Continues(u, n)' /\ PicksVisible(u)'
  BY DEF Lock, Unforked, Continues, PicksVisible, TypeOK
<1> QED BY <1>1, <1>2, <1>3 DEF Unforked

\* An INSERT that goes through continues the chain.
LEMMA InsertStep ==
  ASSUME TypeOK, NEW n \in Nat, Unforked(n), NEW t \in Txn, Insert(t)
  PROVE  TypeOK' /\ Unforked(n)'
<1> DEFINE m   == Len(pending[t])
           row == NextRow(t)
<1>1. /\ row \in Row
      /\ row.seq = n + m + 1
      /\ row.hash = <<t, m + 1>>
      /\ pending[t] = <<>> => \E q \in rows \union {Genesis} :
                                q.seq = n /\ q.hash = row.prev
      /\ pending[t] # <<>> => row.prev = <<t, m>>
      /\ \A u \in Txn \ {t} : pending[u] = <<>>
  BY InsertedRow
<1>2. m \in Nat /\ pending[t] \in Seq(Row) /\ (pending[t] = <<>> <=> m = 0)
  BY PendingRows
<1> HIDE DEF row
<1>3. /\ pending' = [pending EXCEPT ![t] = Append(pending[t], row)]
      /\ pc' = [pc EXCEPT ![t] = "ready"]
      /\ UNCHANGED <<rows, locked, seen, aborts>>
  BY DEF Insert, row
<1>4. /\ pending'[t] \in Seq(Row)
      /\ Len(pending'[t]) = m + 1
      /\ \A k \in 1 .. m : pending'[t][k] = pending[t][k]
      /\ pending'[t][m + 1] = row
      /\ pending'[t] = Append(pending[t], row)
  <2>1. pending'[t] = Append(pending[t], row)
    BY <1>3 DEF TypeOK
  <2> QED BY <1>1, <1>2, <2>1, AppendProperties
<1>5. \A u \in Txn \ {t} : pending'[u] = <<>>
  BY <1>1, <1>3 DEF TypeOK
<1>6. TypeOK'
  BY <1>3, <1>4 DEF TypeOK
<1>7. Chained(n)' /\ OneWriter'
  BY <1>3, <1>5 DEF Unforked, Chained, Numbered, HasKey, OneWriter
<1>8. Continues(t, n)'
  <2> SUFFICES ASSUME NEW k \in 1 .. m + 1
               PROVE  /\ pending'[t][k].seq = n + k
                      /\ pending'[t][k].hash = <<t, k>>
                      /\ k = 1 => \E q \in rows \union {Genesis} :
                                    q.seq = n /\ q.hash = pending'[t][k].prev
                      /\ k > 1 => pending'[t][k].prev = <<t, k - 1>>
    BY <1>3, <1>4 DEF Continues
  <2>1. CASE k \in 1 .. m
    BY <1>4, <2>1 DEF Unforked, Continues
  <2>2. CASE k = m + 1
    <3>1. k = 1 <=> pending[t] = <<>>
      BY <1>2, <2>2
    <3>2. k - 1 = m /\ n + k = n + m + 1
      BY <1>2, <2>2
    <3> QED BY <1>1, <1>2, <1>4, <2>2, <3>1, <3>2
  <2> QED BY <1>2, <2>1, <2>2
<1>9. ASSUME NEW u \in Txn
      PROVE  Continues(u, n)' /\ PicksVisible(u)'
  <2>1. CASE u = t
    BY <1>3, <1>8, <2>1 DEF PicksVisible, TypeOK
  <2>2. CASE u # t
    <3>1. pending[u] = <<>> /\ pending'[u] = <<>>
      BY <1>1, <1>5, <2>2
    <3>2. Continues(u, n)'
      BY <3>1 DEF Continues
    <3>3. PicksVisible(u)'
      BY <1>3, <2>2, <3>1 DEF Unforked, PicksVisible, TypeOK
    <3> QED BY <3>2, <3>3
  <2> QED BY <2>1, <2>2
<1> QED BY <1>6, <1>7, <1>9 DEF Unforked

\* A rollback takes uncommitted rows away and leaves the committed ones.
LEMMA RollbackStep ==
  ASSUME TypeOK, NEW n \in Nat, Unforked(n), NEW t \in Txn, Rollback(t)
  PROVE  TypeOK' /\ Unforked(n)'
<1>1. /\ rows' = rows /\ seen' = seen
      /\ pending' = [pending EXCEPT ![t] = <<>>]
      /\ pc' = [pc EXCEPT ![t] = IF aborts[t] < Retries THEN "ready" ELSE "failed"]
  BY DEF Rollback
<1>2. pending'[t] = <<>> /\ \A u \in Txn \ {t} : pending'[u] = pending[u]
  BY <1>1 DEF TypeOK
<1>3. TypeOK'
  <2>1. <<>> \in Seq(Row)
    BY EmptySeq
  <2> QED BY <1>1, <2>1 DEF Rollback, LocksAfter, TypeOK
<1>4. Chained(n)'
  BY <1>1 DEF Unforked, Chained, Numbered, HasKey
<1>5. OneWriter'
  BY <1>2 DEF Unforked, OneWriter
<1>6. ASSUME NEW u \in Txn
      PROVE  Continues(u, n)' /\ PicksVisible(u)'
  <2>1. CASE u = t
    BY <1>1, <1>2, <2>1 DEF Continues, PicksVisible, TypeOK
  <2>2. CASE u # t
    BY <1>1, <1>2, <2>2 DEF Unforked, Continues, PicksVisible, TypeOK
  <2> QED BY <2>1, <2>2
<1> QED BY <1>3, <1>4, <1>5, <1>6 DEF Unforked

\* A commit makes the block of its transaction the end of the chain.
LEMMA CommitStep ==
  ASSUME TypeOK, NEW n \in Nat, Unforked(n), NEW t \in Txn, Commit(t)
  PROVE  TypeOK' /\ Unforked(n + Size[t])'
<1> DEFINE m == Size[t]
<1>1. m \in Nat \ {0} /\ Len(pending[t]) = m /\ pending[t] # <<>>
  BY LedgerAssumption, PendingRows DEF Commit
<1>2. /\ rows' = rows \union Range(pending[t])
      /\ pending' = [pending EXCEPT ![t] = <<>>]
      /\ pc' = [pc EXCEPT ![t] = "done"]
      /\ seen' = seen /\ aborts' = aborts
  BY DEF Commit
<1>3. /\ Range(pending[t]) = {pending[t][k] : k \in 1 .. m}
      /\ \A k \in 1 .. m : pending[t][k] \in Row
  BY <1>1, PendingRows
<1>4. \A u \in Txn : pending'[u] = <<>>
  BY <1>1, <1>2 DEF Unforked, OneWriter, TypeOK
<1>5. \A k \in 1 .. m :
        /\ pending[t][k].seq = n + k
        /\ pending[t][k].hash = <<t, k>>
        /\ k = 1 => \E q \in rows \union {Genesis} :
                      q.seq = n /\ q.hash = pending[t][k].prev
        /\ k > 1 => pending[t][k].prev = <<t, k - 1>>
  BY <1>1 DEF Unforked, Continues
<1>6. Chained(n)
  BY DEF Unforked
<1>7. TypeOK'
  <2>1. <<>> \in Seq(Row) /\ rows' \subseteq Row
    BY <1>2, <1>3, EmptySeq DEF TypeOK
  <2> QED BY <1>2, <2>1 DEF Commit, LocksAfter, TypeOK
<1>8. Chained(n + m)'
  <2>1. \A r \in rows' : r.seq \in 1 .. n + m
    BY <1>1, <1>2, <1>3, <1>5, <1>6 DEF Chained, Numbered
  <2>2. ASSUME NEW i \in 1 .. n + m
        PROVE  HasKey(rows', i)
    <3>1. CASE i \in 1 .. n
      BY <1>2, <1>6, <3>1 DEF Chained, Numbered, HasKey
    <3>2. CASE i \in n + 1 .. n + m
      <4>1. i - n \in 1 .. m /\ n + (i - n) = i
        BY <1>1, <3>2
      <4>2. pending[t][i - n] \in rows' /\ pending[t][i - n].seq = i
        BY <1>2, <1>3, <1>5, <4>1
      <4> QED BY <4>2 DEF HasKey
    <3> QED BY <1>1, <3>1, <3>2
  <2>3. ASSUME NEW r \in rows', NEW q \in rows', r.seq = q.seq
        PROVE  r = q
    <3>1. CASE r \in rows /\ q \in rows
      BY <1>6, <2>3, <3>1 DEF Chained, Numbered
    <3>2. CASE r \in Range(pending[t]) /\ q \in Range(pending[t])
      BY <1>1, <1>3, <1>5, <2>3, <3>2
    <3>3. ASSUME NEW a \in rows, NEW b \in Range(pending[t])
          PROVE  a.seq # b.seq
      BY <1>1, <1>3, <1>5, <1>6 DEF Chained, Numbered
    <3> QED BY <1>2, <2>3, <3>1, <3>2, <3>3
  <2>4. ASSUME NEW r \in rows'
        PROVE  \E q \in rows' \union {Genesis} : q.seq = r.seq - 1 /\ q.hash = r.prev
    <3>1. CASE r \in rows
      BY <1>2, <1>6, <3>1 DEF Chained, Numbered
    <3>2. CASE r \in Range(pending[t])
      <4>1. PICK k \in 1 .. m : r = pending[t][k]
        BY <1>3, <3>2
      <4>2. CASE k = 1
        BY <1>2, <1>5, <4>1, <4>2
      <4>3. CASE k > 1
        <5>1. k - 1 \in 1 .. m
          BY <1>1, <4>3
        <5>2. /\ pending[t][k - 1] \in rows'
              /\ pending[t][k - 1].seq = n + (k - 1)
              /\ pending[t][k - 1].hash = <<t, k - 1>>
          BY <1>2, <1>3, <1>5, <5>1
        <5>3. r.seq - 1 = n + (k - 1) /\ r.prev = <<t, k - 1>>
          BY <1>5, <4>1, <4>3
        <5> QED BY <5>2, <5>3
      <4> QED BY <4>2, <4>3
    <3> QED BY <1>2, <3>1, <3>2
  <2> QED BY <2>1, <2>2, <2>3, <2>4 DEF Chained, Numbered
<1>9. ASSUME NEW u \in Txn
      PROVE  Continues(u, n + m)' /\ PicksVisible(u)'
  <2>1. Len(pending'[u]) = 0
    BY <1>4
  <2>2. Continues(u, n + m)'
    BY <2>1 DEF Continues
  <2>3. CASE u = t
    BY <1>2, <2>2, <2>3 DEF PicksVisible, TypeOK
  <2>4. CASE u # t
    <3>1. pending[u] = <<>>
      BY <1>2, <1>4, <2>4 DEF TypeOK
    <3> QED BY <1>2, <1>4, <2>2, <2>4, <3>1 DEF Unforked, PicksVisible, TypeOK
  <2> QED BY <2>3, <2>4
<1>10. OneWriter'
  BY <1>4 DEF OneWriter
<1> QED BY <1>7, <1>8, <1>9, <1>10 DEF Unforked

\* Every step of the ledger keeps the chain and its uncommitted end; a commit
\* lengthens the chain by what its transaction recorded.
LEMMA TxnStep ==
  ASSUME TypeOK, NEW n \in Nat, Unforked(n), NEW t \in Txn, Step(t) \/ Abort(t)
  PROVE  /\ TypeOK'
         /\ \/ Unforked(n)' /\ rows' = rows /\ ~Commit(t)
            \/ Unforked(n + Size[t])' /\ Commit(t)
<1>1. CASE Select(t)
  BY <1>1, SelectStep DEF Select, Commit, TypeOK
<1>2. CASE Lock(t)
  BY <1>2, LockStep DEF Lock, Commit
<1>3. CASE Insert(t)
  BY <1>3, InsertStep DEF Insert, Commit
<1>4. CASE Commit(t)
  BY <1>4, CommitStep
<1>5. CASE Rollback(t)
  <2>1. pc'[t] # "done"
    BY <1>5 DEF Rollback, TypeOK
  <2>2. ~Commit(t)
    BY <2>1 DEF Commit, TypeOK
  <2> QED BY <1>5, <2>2, RollbackStep DEF Rollback
<1> QED BY <1>1, <1>2, <1>3, <1>4, <1>5 DEF Step, Conflict, Abort

\* LedgerInv is inductive.
LEMMA LedgerInductive ==
  ASSUME LedgerInv, [Next]_vars
  PROVE  LedgerInv'
<1>1. PICK n \in Nat : Unforked(n)
  BY DEF LedgerInv
<1>2. TypeOK
  BY DEF LedgerInv
<1>3. ASSUME NEW t \in Txn, Step(t) \/ Abort(t)
      PROVE  LedgerInv'
  <2>1. n + Size[t] \in Nat
    BY LedgerAssumption
  <2> QED BY <1>1, <1>2, <1>3, <2>1, TxnStep DEF LedgerInv
<1>4. CASE UNCHANGED vars
  <2>1. TypeOK'
    BY <1>2, <1>4 DEF vars, TypeOK
  <2>2. Chained(n)' /\ OneWriter'
    BY <1>1, <1>4 DEF vars, Unforked, Chained, Numbered, HasKey, OneWriter
  <2>3. ASSUME NEW u \in Txn
        PROVE  Continues(u, n)' /\ PicksVisible(u)'
    BY <1>1, <1>4 DEF vars, Unforked, Continues, PicksVisible
  <2> QED BY <2>1, <2>2, <2>3 DEF LedgerInv, Unforked
<1> QED BY <1>3, <1>4 DEF Next

\* The invariant holds in every reachable state.
THEOREM LedgerStaysWhole == Spec => []LedgerInv
<1>1. Init => LedgerInv
  <2> SUFFICES ASSUME Init
               PROVE  LedgerInv
    OBVIOUS
  <2>1. TypeOK
    BY EmptySeq DEF Init, TypeOK, Genesis, Row, Hash
  <2>2. Chained(0) /\ OneWriter
    BY DEF Init, Chained, Numbered, OneWriter
  <2>3. ASSUME NEW u \in Txn
        PROVE  Continues(u, 0) /\ PicksVisible(u)
    BY DEF Init, Continues, PicksVisible
  <2> QED BY <2>1, <2>2, <2>3 DEF LedgerInv, Unforked
<1>2. LedgerInv /\ [Next]_vars => LedgerInv'
  BY LedgerInductive
<1> QED BY <1>1, <1>2, PTL DEF Spec

\* Every reachable state is well-typed.
THEOREM LedgerTypeCorrect == Spec => []TypeOK
<1>1. LedgerInv => TypeOK
  BY DEF LedgerInv
<1> QED BY <1>1, LedgerStaysWhole, PTL

----------------------------------------------------------------------------
(* The chain *)

\* A set of rows numbered 1 .. n has n members.
LEMMA NumberedCardinality ==
  ASSUME NEW n \in Nat, NEW S, Numbered(S, n)
  PROVE  Cardinality(S) = n
<1> DEFINE f == [i \in 1 .. n |-> CHOOSE r \in S : r.seq = i]
<1>1. \A i \in 1 .. n : f[i] \in S /\ f[i].seq = i
  BY DEF Numbered, HasKey
<1>2. \A r \in S : r.seq \in 1 .. n /\ f[r.seq] = r
  BY <1>1 DEF Numbered
<1>3. f \in [1 .. n -> S]
  BY <1>1
<1>4. \A i, j \in 1 .. n : f[i] = f[j] => i = j
  BY <1>1
<1> HIDE DEF f
<1>5. f \in Bijection(1 .. n, S)
  BY <1>2, <1>3, <1>4 DEF Bijection, Injection, Surjection, IsInjective
<1>6. IsFiniteSet(1 .. n) /\ Cardinality(1 .. n) = n
  BY FS_Interval
<1> QED BY <1>5, <1>6, FS_Bijection DEF ExistsBijection

\* AuditLedgerService, GET /audit/verify: the committed events are numbered
\* without gap and each holds the hash of the one before it, whatever
\* transactions raced for the end of the chain or were rolled back.
THEOREM ChainIsUnbroken == Spec => []ChainUnbroken
<1>1. ASSUME LedgerInv
      PROVE  ChainUnbroken
  <2>1. PICK n \in Nat : Chained(n)
    BY <1>1 DEF LedgerInv, Unforked
  <2>2. Numbered(rows, n)
    BY <2>1 DEF Chained
  <2>3. Cardinality(rows) = n
    BY <2>2, NumberedCardinality
  <2>4. {r.seq : r \in rows} = 1 .. n
    BY <2>2 DEF Numbered, HasKey
  <2> QED BY <2>1, <2>3, <2>4 DEF Chained, ChainUnbroken
<1> QED BY <1>1, LedgerStaysWhole, PTL

----------------------------------------------------------------------------
(* Refinement of the append-only log *)

LogOf(S) == [n \in {r.seq : r \in S} |-> (CHOOSE r \in S : r.seq = n).hash]

\* Numbered rows make a log of their hashes.
LEMMA LogOfRows ==
  ASSUME NEW n \in Nat, NEW S \in SUBSET Row, Numbered(S, n)
  PROVE  /\ LogOf(S) \in Seq(Hash)
         /\ Len(LogOf(S)) = n
         /\ \A r \in S : LogOf(S)[r.seq] = r.hash
<1>1. {r.seq : r \in S} = 1 .. n
  BY DEF Numbered, HasKey
<1>2. ASSUME NEW r \in S
      PROVE  LogOf(S)[r.seq] = r.hash /\ r.hash \in Hash
  <2>1. (CHOOSE q \in S : q.seq = r.seq) = r
    BY DEF Numbered
  <2> QED BY <2>1 DEF LogOf, Row
<1>3. LogOf(S) \in [1 .. n -> Hash]
  <2>1. \A i \in 1 .. n : \E r \in S : r.seq = i
    BY DEF Numbered, HasKey
  <2>2. DOMAIN LogOf(S) = 1 .. n /\ \A i \in 1 .. n : LogOf(S)[i] \in Hash
    BY <1>1, <1>2, <2>1 DEF LogOf
  <2>3. LogOf(S) = [i \in 1 .. n |-> LogOf(S)[i]]
    BY <1>1 DEF LogOf
  <2> QED BY <2>2, <2>3
<1> QED BY <1>2, <1>3

\* What makes a sequence the concatenation of two others.
LEMMA IsConcatenation ==
  ASSUME NEW H, NEW old \in Seq(H), NEW block \in Seq(H), NEW new \in Seq(H),
         Len(new) = Len(old) + Len(block),
         \A i \in 1 .. Len(old) : new[i] = old[i],
         \A k \in 1 .. Len(block) : new[Len(old) + k] = block[k]
  PROVE  new = old \o block
<1>1. Len(old) \in Nat /\ Len(block) \in Nat
  BY LenProperties
<1>2. /\ old \o block \in Seq(H)
      /\ Len(old \o block) = Len(new)
      /\ \A i \in 1 .. Len(new) : (old \o block)[i] =
           IF i <= Len(old) THEN old[i] ELSE block[i - Len(old)]
  BY ConcatProperties
<1>3. ASSUME NEW i \in 1 .. Len(new)
      PROVE  new[i] = (old \o block)[i]
  <2>1. CASE i <= Len(old)
    BY <1>1, <1>2, <2>1
  <2>2. CASE ~(i <= Len(old))
    <3>1. i - Len(old) \in 1 .. Len(block) /\ Len(old) + (i - Len(old)) = i
      BY <1>1, <2>2
    <3> QED BY <1>2, <2>2, <3>1
  <2> QED BY <2>1, <2>2
<1> QED BY <1>2, <1>3, SeqEqual

\* A commit appends the entries of its transaction to the log.
LEMMA CommitAppends ==
  ASSUME TypeOK, NEW n \in Nat, Unforked(n), NEW t \in Txn, Commit(t)
  PROVE  Ledger!Commit(t)
<1> DEFINE m     == Size[t]
           batch == Ledger!Batch(t)
<1>1. m \in Nat \ {0} /\ Len(pending[t]) = m
  BY LedgerAssumption DEF Commit
<1>2. /\ rows' = rows \union Range(pending[t])
      /\ Range(pending[t]) = {pending[t][k] : k \in 1 .. m}
  BY <1>1, PendingRows DEF Commit
<1>3. \A k \in 1 .. m : pending[t][k].seq = n + k /\ pending[t][k].hash = <<t, k>>
  BY <1>1 DEF Unforked, Continues
<1>4. rows \in SUBSET Row /\ Numbered(rows, n)
  BY DEF TypeOK, Unforked, Chained
<1>5. rows' \in SUBSET Row /\ Numbered(rows', n + m) /\ n + m \in Nat
  <2>1. TypeOK' /\ Unforked(n + m)'
    BY CommitStep
  <2>2. rows' \in SUBSET Row
    BY <2>1 DEF TypeOK
  <2>3. Numbered(rows', n + m)
    BY <2>1 DEF Unforked, Chained
  <2> QED BY <1>1, <2>2, <2>3
<1>6. batch \in Seq(Hash) /\ Len(batch) = m /\ \A k \in 1 .. m : batch[k] = <<t, k>>
  <2>1. batch = [k \in 1 .. m |-> <<t, k>>]
    BY DEF Ledger!Batch
  <2>2. \A k \in 1 .. m : <<t, k>> \in Hash
    BY <1>1 DEF Hash
  <2> HIDE DEF batch
  <2> QED BY <1>1, <2>1, <2>2
<1> HIDE DEF batch
<1>7. LogOf(rows') = LogOf(rows) \o batch
  <2>1. /\ LogOf(rows) \in Seq(Hash) /\ Len(LogOf(rows)) = n
        /\ \A r \in rows : LogOf(rows)[r.seq] = r.hash
    BY <1>4, LogOfRows
  <2>2. /\ LogOf(rows') \in Seq(Hash) /\ Len(LogOf(rows')) = n + m
        /\ \A r \in rows' : LogOf(rows')[r.seq] = r.hash
    BY <1>5, LogOfRows
  <2>3. ASSUME NEW i \in 1 .. n
        PROVE  LogOf(rows')[i] = LogOf(rows)[i]
    <3>1. PICK r \in rows : r.seq = i
      BY <1>4 DEF Numbered, HasKey
    <3> QED BY <1>2, <2>1, <2>2, <3>1
  <2>4. ASSUME NEW k \in 1 .. m
        PROVE  LogOf(rows')[n + k] = batch[k]
    <3>1. pending[t][k] \in rows'
      BY <1>2
    <3> QED BY <1>3, <1>6, <2>2, <3>1
  <2> DEFINE old == LogOf(rows)
             new == LogOf(rows')
  <2>5. /\ old \in Seq(Hash) /\ new \in Seq(Hash)
        /\ Len(new) = Len(old) + Len(batch)
        /\ \A i \in 1 .. Len(old) : new[i] = old[i]
        /\ \A k \in 1 .. Len(batch) : new[Len(old) + k] = batch[k]
    BY <1>6, <2>1, <2>2, <2>3, <2>4
  <2> HIDE DEF old, new
  <2>6. new = old \o batch
    BY <1>6, <2>5, IsConcatenation
  <2> QED BY <2>6 DEF old, new
<1>8. Log' = Log \o batch
  BY <1>7 DEF Log, LogOf
<1>9. /\ t \notin {u \in Txn : pc[u] = "done"}
      /\ {u \in Txn : pc'[u] = "done"} = {u \in Txn : pc[u] = "done"} \union {t}
  BY DEF Commit, TypeOK
<1> QED BY <1>8, <1>9 DEF Ledger!Commit, batch

\* A step other than a commit leaves log and finished transactions as they are.
LEMMA OtherStepsStutter ==
  ASSUME TypeOK, NEW n \in Nat, Unforked(n), NEW t \in Txn,
         Step(t) \/ Abort(t), ~Commit(t)
  PROVE  UNCHANGED Ledger!vars
<1>1. rows' = rows
  BY TxnStep
<1>2. pc[t] # "done" /\ pc'[t] # "done" /\ \A u \in Txn \ {t} : pc'[u] = pc[u]
  BY DEF Step, Abort, Select, Lock, Insert, Conflict, Rollback, TypeOK
<1>3. {u \in Txn : pc'[u] = "done"} = {u \in Txn : pc[u] = "done"}
  BY <1>2
<1>4. Log' = Log
  BY <1>1 DEF Log
<1> QED BY <1>3, <1>4 DEF Ledger!vars

\* The races for the end of the chain, the conflicts and the rollbacks implement
\* the atomic log: the events of a transaction are appended as one block when it
\* commits, and nothing appended is ever lost or moved.
THEOREM ChainIsALog == Spec => ImplementsLog
<1>1. Init => Ledger!Init
  <2> SUFFICES ASSUME Init
               PROVE  Ledger!Init
    OBVIOUS
  <2>1. Log = <<>>
    BY DEF Init, Log
  <2>2. {t \in Txn : pc[t] = "done"} = {}
    BY DEF Init
  <2> QED BY <2>1, <2>2 DEF Ledger!Init
<1>2. LedgerInv /\ [Next]_vars => [Ledger!Next]_(Ledger!vars)
  <2> SUFFICES ASSUME LedgerInv, [Next]_vars
               PROVE  [Ledger!Next]_(Ledger!vars)
    OBVIOUS
  <2>1. PICK n \in Nat : Unforked(n)
    BY DEF LedgerInv
  <2>2. TypeOK
    BY DEF LedgerInv
  <2>3. ASSUME NEW t \in Txn, Step(t) \/ Abort(t)
        PROVE  Ledger!Next \/ UNCHANGED Ledger!vars
    <3>1. CASE Commit(t)
      BY <2>1, <2>2, <3>1, CommitAppends DEF Ledger!Next
    <3>2. CASE ~Commit(t)
      BY <2>1, <2>2, <2>3, <3>2, OtherStepsStutter
    <3> QED BY <3>1, <3>2
  <2>4. CASE UNCHANGED vars
    BY <2>4 DEF vars, Ledger!vars, Log
  <2> QED BY <2>3, <2>4 DEF Next
<1> QED BY <1>1, <1>2, LedgerStaysWhole, PTL DEF Spec, ImplementsLog, Ledger!Spec

=============================================================================
