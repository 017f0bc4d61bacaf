------------------------------ MODULE MC_Mempool ------------------------------
(* Six transactions over three confirmed coins c1, c2, c3:                *)
(*   A spends c1 -> a1 a2,   B spends a1 -> b (free),   C spends b        *)
(*   D spends c1 (conflicts with A),  E spends c2 and a2 (2nd child of A) *)
(*   F spends c3, is free with priority and fails its scripts after the    *)
(*   limiter.  A-B-C is longer than the ancestor limit; D is twice the    *)
(*   size; A, B and E together overflow the pool and B is trimmed.         *)
EXTENDS Mempool, TLC

MCTxs == {"A", "B", "C", "D", "E", "F"}
MCCoins == {"c1", "c2", "c3"}
MCVin == [t \in MCTxs |-> CASE t = "A" -> {"c1"} [] t = "B" -> {"a1"} [] t = "C" -> {"b"}
                            [] t = "D" -> {"c1"} [] t = "E" -> {"c2", "a2"} [] t = "F" -> {"c3"}]
MCVout == [t \in MCTxs |-> CASE t = "A" -> {"a1", "a2"} [] t = "B" -> {"b"} [] t = "D" -> {"d"}
                             [] OTHER -> {}]
MCFeeRate == [t \in MCTxs |-> CASE t = "A" -> 2 [] t = "B" -> 0 [] t = "C" -> 1
                                [] t = "D" -> 3 [] t = "E" -> 2 [] t = "F" -> 0]
MCTxSize == [t \in MCTxs |-> IF t = "D" THEN 2 ELSE 1]
MCHighPriority == [t \in MCTxs |-> t \in {"B", "F"}]
MCStaticFail == [t \in MCTxs |-> IF t = "F" THEN "script" ELSE "none"]
=============================================================================
