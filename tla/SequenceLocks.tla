---------------------------- MODULE SequenceLocks ----------------------------
(***************************************************************************)
(* The finality and sequence-lock evaluator of src/src/main.cpp (IsFinalTx,*)
(* CheckFinalTx, CalculateSequenceLocks, EvaluateSequenceLocks,            *)
(* SequenceLocks, TestLockPointValidity, CheckSequenceLocks) and the       *)
(* LockPoints cache a mempool entry keeps.                                 *)
(*                                                                         *)
(*   AcceptToMemoryPool  the two lock checks of AcceptToMemoryPoolWorker   *)
(*                       (non-final, non-BIP68-final) and the entry's      *)
(*                       LockPoints                                        *)
(*   UpdateTip           the active chain moves to another block (a        *)
(*                       reorg or an extension), then the mempool re-checks *)
(*                       every entry as removeForReorg does: the cached    *)
(*                       LockPoints are reused while TestLockPointValidity *)
(*                       holds and recomputed otherwise (both outside      *)
(*                       src/, modelled from spec 2 and 4.1)               *)
(*                                                                         *)
(* A coin is confirmed in at most one block of each branch; a coin not     *)
(* confirmed on the active chain belongs to a transaction in the mempool.  *)
(* Both callers use STANDARD_LOCKTIME_VERIFY_FLAGS (LOCKTIME_VERIFY_SEQUENCE *)
(* and LOCKTIME_MEDIAN_TIME_PAST).                                         *)
(***************************************************************************)
EXTENDS Integers, Sequences, FiniteSets

CONSTANTS
    Blocks, Genesis,
    Parent,            \* [Blocks \ {Genesis} -> Blocks], pprev
    MTP,               \* [Blocks -> Nat], GetMedianTimePast, non-decreasing along a chain
    Coins,
    CoinBlocks,        \* [Coins -> SUBSET Blocks], the blocks that confirm the coin's transaction
    Txs,
    Version,           \* [Txs -> Int], CTransaction::nVersion (signed)
    LockTime,          \* [Txs -> Nat], nLockTime
    Vin,               \* [Txs -> Seq([prevout: Coins, nSequence: Sequences])]
    LocktimeThreshold, \* LOCKTIME_THRESHOLD
    GranularityShift,  \* SEQUENCE_LOCKTIME_GRANULARITY
    NoBlock            \* a NULL CBlockIndex pointer

ASSUME NoBlock \notin Blocks

\* nSequence, decoded into the bits the code reads: SEQUENCE_FINAL,
\* SEQUENCE_LOCKTIME_DISABLE_FLAG, SEQUENCE_LOCKTIME_TYPE_FLAG and the
\* value under SEQUENCE_LOCKTIME_MASK.  SEQUENCE_FINAL has the disable flag.
SequenceValues == [final: BOOLEAN, disable: BOOLEAN, type: BOOLEAN, value: Nat]
ASSUME \A t \in Txs : \A i \in DOMAIN Vin[t] :
    Vin[t][i].nSequence \in SequenceValues
    /\ (Vin[t][i].nSequence.final => Vin[t][i].nSequence.disable)

VARIABLES
    tip,           \* chainActive.Tip()
    pool,          \* transactions in the mempool
    lockPoints     \* [Txs -> [height, time, maxInputBlock]], the entry's LockPoints

vars == <<tip, pool, lockPoints>>


-----------------------------------------------------------------------------
(* The block tree *)

RECURSIVE Height(_)
Height(b) == IF b = Genesis THEN 0 ELSE 1 + Height(Parent[b])

RECURSIVE AncestorsOf(_)
AncestorsOf(b) == IF b = Genesis THEN {b} ELSE {b} \cup AncestorsOf(Parent[b])

\* CBlockIndex::GetAncestor: NULL above the block or below zero
GetAncestor(b, h) ==
    IF h > Height(b) \/ h < 0 THEN NoBlock
    ELSE CHOOSE a \in AncestorsOf(b) : Height(a) = h

\* chainActive.Contains, chainActive ending at tipB
InChain(b, tipB) == b \in AncestorsOf(tipB)

\* static_cast<uint32_t>(tx.nVersion) >= 2: a negative version casts to at
\* least 2^31
UnsignedAtLeast2(v) == v < 0 \/ v >= 2

SetMax(S) == CHOOSE m \in S : \A x \in S : x <= m

-----------------------------------------------------------------------------
(* Absolute finality *)

IsFinalTx(t, nBlockHeight, nBlockTime) ==
    \/ LockTime[t] = 0
    \/ LockTime[t] < (IF LockTime[t] < LocktimeThreshold THEN nBlockHeight ELSE nBlockTime)
    \/ \A i \in DOMAIN Vin[t] : Vin[t][i].nSequence.final

\* with LOCKTIME_MEDIAN_TIME_PAST, at chainActive.Height() + 1
CheckFinalTx(t, tipB) == IsFinalTx(t, Height(tipB) + 1, MTP[tipB])

-----------------------------------------------------------------------------
(* Relative lock times (BIP68) *)

\* a mutant: the nLockTime semantics correction of -1 left out
RelativeLockMissingMinusOne(base, n) == base + n

\* "Subtract 1 to maintain nLockTime semantics": the last invalid height or time
RelativeLock(base, n) == base + n - 1

\* CalculateSequenceLocks for a block whose pprev is blk: the pair
\* <<nMinHeight, nMinTime>> and prevHeights with disabled inputs zeroed.
CalculateSequenceLocks(t, prevHeights, blk) ==
    LET enforce == UnsignedAtLeast2(Version[t])  \* flags & LOCKTIME_VERIFY_SEQUENCE
        seq(i) == Vin[t][i].nSequence
        live == {i \in DOMAIN Vin[t] : ~seq(i).disable}
        heights == {RelativeLock(prevHeights[i], seq(i).value) : i \in {j \in live : ~seq(j).type}}
        times == {RelativeLock(MTP[GetAncestor(blk, IF prevHeights[i] - 1 > 0 THEN prevHeights[i] - 1 ELSE 0)],
                               seq(i).value * 2^GranularityShift)
                  : i \in {j \in live : seq(j).type}}
    IN IF ~enforce THEN <<-1, -1, prevHeights>>
       ELSE <<SetMax({-1} \cup heights), SetMax({-1} \cup times),
              [i \in DOMAIN prevHeights |-> IF i \in live THEN prevHeights[i] ELSE 0]>>

\* a mutant: a tie counts as satisfied
EvaluateSequenceLocksLoose(nHeight, pprev, lockPair) ==
    ~(lockPair[1] > nHeight \/ lockPair[2] > MTP[pprev])

\* the block at nHeight with parent pprev satisfies the lock pair
EvaluateSequenceLocks(nHeight, pprev, lockPair) ==
    ~(lockPair[1] >= nHeight \/ lockPair[2] >= MTP[pprev])

SequenceLocks(t, prevHeights, nHeight, pprev) ==
    EvaluateSequenceLocks(nHeight, pprev, CalculateSequenceLocks(t, prevHeights, pprev))

\* a mutant: cached LockPoints are never invalidated
TestLockPointValidityAlways(lp, tipB) == TRUE

TestLockPointValidity(lp, tipB) == lp.maxInputBlock = NoBlock \/ InChain(lp.maxInputBlock, tipB)

\* coin.nHeight in the view of chainActive and the mempool
CoinHeight(c, tipB) ==
    IF \E b \in CoinBlocks[c] : InChain(b, tipB)
    THEN Height(CHOOSE b \in CoinBlocks[c] : InChain(b, tipB))
    ELSE Height(tipB) + 1                \* MEMPOOL_HEIGHT: assume it confirms next

\* a mutant: mempool inputs count towards maxInputBlock
MaxInputHeightUnfiltered(heights, nextHeight) == SetMax({0} \cup heights)

\* the highest confirmed input height; mempool inputs are left out
MaxInputHeight(heights, nextHeight) == SetMax({0} \cup (heights \ {nextHeight}))

\* CheckSequenceLocks(tx, flags, &lp, useExistingLockPoints): the result and
\* the LockPoints it leaves in lp
CheckSequenceLocks(t, lp, useExistingLockPoints, tipB) ==
    LET next == Height(tipB) + 1
        prevHeights == [i \in DOMAIN Vin[t] |-> CoinHeight(Vin[t][i].prevout, tipB)]
        calc == CalculateSequenceLocks(t, prevHeights, tipB)
        heightsAfter == {calc[3][i] : i \in DOMAIN calc[3]}
        fresh == [height |-> calc[1], time |-> calc[2],
                  maxInputBlock |-> GetAncestor(tipB, MaxInputHeight(heightsAfter, next))]
        used == IF useExistingLockPoints THEN lp ELSE fresh
    IN <<EvaluateSequenceLocks(next, tipB, <<used.height, used.time>>), used>>

-----------------------------------------------------------------------------
(* Actions *)

\* AcceptToMemoryPoolWorker: "non-final" (line 522), "non-BIP68-final"
\* (line 603); the entry keeps the LockPoints of that call (line 642)
AcceptToMemoryPool(t) ==
    LET r == CheckSequenceLocks(t, lockPoints[t], FALSE, tip)
    IN /\ t \notin pool
       /\ CheckFinalTx(t, tip)
       /\ r[1]
       /\ pool' = pool \cup {t}
       /\ lockPoints' = [lockPoints EXCEPT ![t] = r[2]]
       /\ UNCHANGED tip

\* removeForReorg against the new tip: keep an entry only if it is final
\* and its sequence locks hold, reusing LockPoints that are still valid and
\* storing the recomputed ones otherwise
RemoveForReorg(newTip) ==
    LET check(t) == CheckSequenceLocks(t, lockPoints[t],
                        TestLockPointValidity(lockPoints[t], newTip), newTip)
    IN
    /\ pool' = {t \in pool : CheckFinalTx(t, newTip) /\ check(t)[1]}
    /\ lockPoints' = [t \in Txs |-> IF t \in pool THEN check(t)[2] ELSE lockPoints[t]]

\* the active chain moves to b (ActivateBestChain), then the mempool is
\* re-checked against it
UpdateTip(b) ==
    /\ b # tip
    /\ tip' = b
    /\ RemoveForReorg(b)

-----------------------------------------------------------------------------

Init ==
    /\ tip = Genesis
    /\ pool = {}
    /\ lockPoints = [t \in Txs |-> [height |-> 0, time |-> 0, maxInputBlock |-> NoBlock]]

Next ==
    \/ \E t \in Txs : AcceptToMemoryPool(t)
    \/ \E b \in Blocks : UpdateTip(b)

Spec == Init /\ [][Next]_vars

-----------------------------------------------------------------------------
(* Reference: BIP68 as spec 4.1 states it.  An input whose lock is enabled *)
(* may be spent in a block at least value blocks above the coin, or whose  *)
(* parent's median time past is at least value units of 2^granularity    *)
(* seconds past that of the block before the coin.                         *)

BIP68Final(t, tipB) ==
    LET nextHeight == Height(tipB) + 1
        seq(i) == Vin[t][i].nSequence
        coinHeight(i) == CoinHeight(Vin[t][i].prevout, tipB)
        coinTime(i) == MTP[GetAncestor(tipB, IF coinHeight(i) > 1 THEN coinHeight(i) - 1 ELSE 0)]
    IN UnsignedAtLeast2(Version[t]) =>
        \A i \in DOMAIN Vin[t] : ~seq(i).disable =>
            IF seq(i).type
            THEN MTP[tipB] >= coinTime(i) + seq(i).value * 2^GranularityShift
            ELSE nextHeight >= coinHeight(i) + seq(i).value

-----------------------------------------------------------------------------
(* Properties *)

TypeOK ==
    /\ tip \in Blocks
    /\ pool \subseteq Txs
    /\ \A t \in Txs : lockPoints[t].height \in Int /\ lockPoints[t].time \in Int
    /\ \A t \in pool : lockPoints[t].maxInputBlock \in Blocks

\* The evaluator is BIP68: for every transaction and every tip, the lock
\* pair CalculateSequenceLocks derives, tested by EvaluateSequenceLocks with
\* its last-invalid-value semantics, accepts the transaction for the next
\* block exactly when the relative locks of the reference are met, both on
\* the consensus path (SequenceLocks) and the mempool path
\* (CheckSequenceLocks with fresh LockPoints).
SequenceLocksMatchBIP68 ==
    \A t \in Txs :
        LET prevHeights == [i \in DOMAIN Vin[t] |-> CoinHeight(Vin[t][i].prevout, tip)]
        IN /\ SequenceLocks(t, prevHeights, Height(tip) + 1, tip) = BIP68Final(t, tip)
           /\ CheckSequenceLocks(t, lockPoints[t], FALSE, tip)[1] = BIP68Final(t, tip)

\* the next block's ContextualCheckBlock and BIP68 both accept t
NextBlockMinable(t, b) == CheckFinalTx(t, b) /\ BIP68Final(t, b)

Abstract == INSTANCE NextBlockPool WITH Minable <- NextBlockMinable

\* Spec 2 (Lock Points) and the comment at CheckSequenceLocks: LockPoints
\* reused while their maxInputBlock stays on the active chain give the
\* answer a fresh calculation would.  The mempool with its LockPoints cache
\* implements NextBlockPool: it admits only transactions the next block
\* can include, and after any reorg keeps only such transactions.
ImplementsNextBlockPool == Abstract!Spec

====
