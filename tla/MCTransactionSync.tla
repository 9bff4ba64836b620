-------------------------- MODULE MCTransactionSync --------------------------
(* Small instances of TransactionSync for TLC. *)
EXTENDS TransactionSync, TLC

CONSTANTS e1, e2, a1, a2

(* e1 may be mapped to another account between two attempts, e2 not. *)
Remapped == (e1 :> {a1, a2}) @@ (e2 :> {a1})
OneAccount == e1 :> {a1}

Symmetry == Permutations(Threads) \cup Permutations(Requests)
=============================================================================
