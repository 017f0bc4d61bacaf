-------------------------- MODULE MC_FeeController --------------------------
(* A free transaction and a paying one of 5000 bytes each.                 *)
EXTENDS FeeController

MCTxs == {[nSize |-> 5000, nFees |-> 0, allowFree |-> TRUE],
          [nSize |-> 5000, nFees |-> 10000, allowFree |-> FALSE]}
============================================================================
