--------------------------- MODULE AppendOnlyLog ---------------------------
(***************************************************************************)
(* What a merchant's audit ledger promises: transactions take effect one   *)
(* after another, and the ledger is the concatenation of the entries of    *)
(* those that took effect.  Nothing is removed, reordered or recorded      *)
(* twice, and the entries of one transaction stay together.                *)
(***************************************************************************)
EXTENDS Naturals, Sequences

CONSTANTS
  Txn,   \* transactions that record audit events
  Size   \* how many events each of them records

VARIABLES
  log,   \* the ledger
  done   \* the transactions that took effect

vars == <<log, done>>

\* The entries of a transaction, named by their position in it.
Batch(t) == [k \in 1 .. Size[t] |-> <<t, k>>]

Init == log = <<>> /\ done = {}

Commit(t) ==
  /\ t \notin done
  /\ log' = log \o Batch(t)
  /\ done' = done \union {t}

Next == \E t \in Txn : Commit(t)

Spec == Init /\ [][Next]_vars

=============================================================================
