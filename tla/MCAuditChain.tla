---------------------------- MODULE MCAuditChain ----------------------------
EXTENDS AuditChain, TLC

CONSTANTS t1, t2, t3

(* Transactions are interchangeable; identifiers are ordered and are not. *)
Interchangeable == Permutations(Txns)
=============================================================================
