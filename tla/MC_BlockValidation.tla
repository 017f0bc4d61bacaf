------------------------- MODULE MC_BlockValidation -------------------------
(***************************************************************************)
(* Five blocks over three genesis coins (g a coinbase, n1 and n2 plain):  *)
(*   b1 on genesis, PoW: cb1, t1 spends n1 and pays for service tx s1      *)
(*   b2 on b1, PoW: cb2, t2 spends cb1 one block after it was mined        *)
(*   b3 on b1, PoS, version 2: empty cb3, coinstake k3 spends g, t3 spends *)
(*      n2 and pays for s2, u3 spends t3 in the same block                 *)
(*   b4 on genesis, PoW: cb4, t4 spends n1 and pays for s1; bad signature  *)
(*   b5 on b1, version 2 under a version-2 majority, wrong coinbase height *)
(***************************************************************************)
EXTENDS BlockValidation, TLC

MCBlocks == {"b1", "b2", "b3", "b4", "b5"}
MCTxs == {"g", "n1", "n2", "cb1", "t1", "cb2", "t2", "cb3", "k3", "t3", "u3",
          "cb4", "t4", "cb5"}

Tx(kind, ins, val, stx) == [kind |-> kind, ins |-> ins, val |-> val, stx |-> stx, time |-> 0]

MCTxInfo ==
    [t \in MCTxs |->
       CASE t = "g"   -> Tx("coinbase", {}, 10, NoStx)
         [] t = "n1"  -> Tx("normal", {}, 5, NoStx)
         [] t = "n2"  -> Tx("normal", {}, 5, NoStx)
         [] t = "t1"  -> Tx("normal", {"n1"}, 4, "s1")
         [] t = "t2"  -> Tx("normal", {"cb1"}, 9, NoStx)
         [] t = "cb3" -> Tx("coinbase", {}, 0, NoStx)
         [] t = "k3"  -> Tx("coinstake", {"g"}, 12, NoStx)
         [] t = "t3"  -> Tx("normal", {"n2"}, 5, "s2")
         [] t = "u3"  -> Tx("normal", {"t3"}, 5, NoStx)
         [] t = "t4"  -> Tx("normal", {"n1"}, 5, "s1")
         [] OTHER     -> Tx("coinbase", {}, 10, NoStx)]

B(parent, txs, pos, version, fails) ==
    [parent |-> parent, txs |-> txs, pos |-> pos, time |-> 1,
     version |-> version, fails |-> fails]

MCBlk ==
    [b \in MCBlocks |->
       CASE b = "b1" -> B("G", <<"cb1", "t1">>, FALSE, 1, {})
         [] b = "b2" -> B("b1", <<"cb2", "t2">>, FALSE, 1, {})
         [] b = "b3" -> B("b1", <<"cb3", "k3", "t3", "u3">>, TRUE, 2, {})
         [] b = "b4" -> B("G", <<"cb4", "t4">>, FALSE, 1, {"sig"})
         [] b = "b5" -> B("b1", <<"cb5">>, FALSE, 2, {"cbheight"})]

MCEntitlement == [t \in MCTxs |-> IF t = "k3" THEN 1 ELSE 0]
============================================================================
