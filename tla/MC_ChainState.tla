---------------------------- MODULE MC_ChainState ----------------------------
(* A block tree with two branches whose tips 5 and 4 tie in chain work:   *)
(*                                                                        *)
(*        0 -- 1 -- 2 -- 5        5 fails ConnectBlock                    *)
(*         \                                                              *)
(*          3 -- 4             4 carries twice the work of the others  *)
EXTENDS ChainState, TLC

MCBlocks == 0..5
MCParent == (1 :> 0) @@ (2 :> 1) @@ (5 :> 2) @@ (3 :> 0) @@ (4 :> 3)
MCWork == [b \in MCBlocks |-> IF b = 4 THEN 2 ELSE 1]   \* 4 and 5 both have chain work 3
=============================================================================
