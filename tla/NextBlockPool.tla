---------------------------- MODULE NextBlockPool ----------------------------
(***************************************************************************)
(* What the mempool promises about lock times (spec 4.2 step 4 and 7, and  *)
(* the comment at main.cpp:598): it holds only transactions that can be    *)
(* mined in the block after the active tip.  A transaction enters only if  *)
(* it is minable now; when the tip moves, every transaction that is no     *)
(* longer minable leaves, and more may leave (a cache may be conservative). *)
(***************************************************************************)
CONSTANTS
    Blocks, Genesis, Txs,
    Minable(_, _)     \* Minable(t, b): t may be in the block after b

VARIABLES tip, pool

Init == tip = Genesis /\ pool = {}

Accept(t) ==
    /\ t \notin pool
    /\ Minable(t, tip)
    /\ pool' = pool \cup {t}
    /\ UNCHANGED tip

Reorg(b) ==
    /\ b # tip
    /\ tip' = b
    /\ pool' \subseteq {t \in pool : Minable(t, b)}

Next == (\E t \in Txs : Accept(t)) \/ (\E b \in Blocks : Reorg(b))

Spec == Init /\ [][Next]_<<tip, pool>>
=============================================================================
