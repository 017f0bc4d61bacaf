------------------------- MODULE MC_SequenceLocks --------------------------
(* Two branches from genesis, with one coin confirmed at different heights  *)
(* on them:                                                                *)
(*                                                                         *)
(*     0 -- 1 -- 2        c1 in block 1 (height 1), c2 in block 2          *)
(*      \                                                                  *)
(*       3 -- 4           c1 in block 4 (height 2)                         *)
(*                                                                         *)
(* c3 is never confirmed (its transaction stays in the mempool); c4 is in  *)
(* genesis.  Heights are below LocktimeThreshold = 10, times above it.     *)
EXTENDS SequenceLocks, TLC

MCParent == (1 :> 0) @@ (2 :> 1) @@ (3 :> 0) @@ (4 :> 3)
MCMTP == (0 :> 10) @@ (1 :> 12) @@ (2 :> 14) @@ (3 :> 11) @@ (4 :> 13)
MCCoinBlocks == ("c1" :> {1, 4}) @@ ("c2" :> {2}) @@ ("c3" :> {}) @@ ("c4" :> {0})

\* nSequence values
SeqHeight(n) == [final |-> FALSE, disable |-> FALSE, type |-> FALSE, value |-> n]
SeqTime(n) == [final |-> FALSE, disable |-> FALSE, type |-> TRUE, value |-> n]
Disabled == [final |-> FALSE, disable |-> TRUE, type |-> FALSE, value |-> 0]
Final == [final |-> TRUE, disable |-> TRUE, type |-> TRUE, value |-> 0]
In(c, s) == [prevout |-> c, nSequence |-> s]

MCTxs == {"tA", "tB", "tC", "tD", "tE"}
MCVersion == ("tA" :> 2) @@ ("tB" :> 2) @@ ("tC" :> 1) @@ ("tD" :> -1) @@ ("tE" :> 2)
MCLockTime == ("tA" :> 0) @@ ("tB" :> 0) @@ ("tC" :> 2) @@ ("tD" :> 11) @@ ("tE" :> 5)
MCVin == ("tA" :> <<In("c1", SeqHeight(2))>>)
      @@ ("tB" :> <<In("c1", SeqTime(1)), In("c3", SeqHeight(0))>>)
      @@ ("tC" :> <<In("c2", SeqHeight(3))>>)
      @@ ("tD" :> <<In("c3", SeqTime(0)), In("c4", Disabled)>>)
      @@ ("tE" :> <<In("c4", Final)>>)
=============================================================================
