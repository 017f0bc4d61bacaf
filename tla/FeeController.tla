---------------------------- MODULE FeeController ----------------------------
(***************************************************************************)
(* The congestion controller and the free-transaction limiter of          *)
(* AcceptToMemoryPoolWorker (main.cpp 662-751), with a clock.  Each call   *)
(* that reaches them:                                                      *)
(*   1. rejects for insufficient priority against ::minRelayTxFee as the   *)
(*      previous call left it;                                             *)
(*   2. decays the function-static feeCutoff and nFreeLimit by            *)
(*      (1 - 1/86400)^(nNow - nLastTime), clamps them by the pool's byte   *)
(*      occupancy, and sets ::minRelayTxFee from feeCutoff;                *)
(*   3. for a low-fee call with fLimitFree, decays dFreeCount by           *)
(*      (1 - 1/600)^(nNow - nLastTime) with the limiter's own nLastTime,   *)
(*      rejects at the limit, and otherwise counts the transaction.        *)
(* The checks before step 1 and after step 3 change none of this state: a *)
(* rejection there is a stutter step.  Other calls resize the pool.        *)
(*                                                                         *)
(* Fee rates are integers in satoshis per 1000 bytes, the unit CFeeRate    *)
(* truncates feeCutoff * 1000 to; the decay windows are constants, scaled  *)
(* with the clock so that a few ticks cross them.                          *)
(***************************************************************************)
EXTENDS Integers

CONSTANTS
    Window,            \* the 86400 of the fee controller's decay
    FreeWindow,        \* the 600 of the limiter's decay
    initFeeCutoff,     \* -minlimitertxfee, times 1000
    maxFeeCutoff,      \* -maxlimitertxfee, times 1000
    nLimitFreeRelay,   \* -limitfreerelay
    DEFAULT_MIN_LIMITFREERELAY,
    nLargestBlockSeen, \* MAX_BLOCK_SIZE
    MAX_BLOCK_SIZE_MULTIPLIER,
    MinRelayDefault,   \* ::minRelayTxFee before the first call
    RelayPriority,     \* -relaypriority
    Txs,               \* transactions: [nSize, nFees, allowFree]
    PoolSizes,         \* values pool.GetTotalTxSize() may take
    MaxTime            \* bound on the clock

ASSUME Window > 1 /\ FreeWindow > 1 /\ MAX_BLOCK_SIZE_MULTIPLIER > 1

NoTime == -1

VARIABLES
    now,            \* GetTime()
    poolBytes,      \* pool.GetTotalTxSize()
    feeCutoff,      \* static feeCutoff
    nFreeLimit,     \* static nFreeLimit
    nLastTime,      \* the controller's static nLastTime; NoTime before its first call
    minRelayTxFee,  \* global ::minRelayTxFee
    dFreeCount,     \* the limiter's static dFreeCount, in bytes
    nLastTimeFree,  \* the limiter's static nLastTime
    lastCall        \* history: when the controller last ran; NoTime before

vars == <<now, poolBytes, feeCutoff, nFreeLimit, nLastTime, minRelayTxFee,
          dFreeCount, nLastTimeFree, lastCall>>

(* x * (1 - 1/w)^dt and x / (1 - 1/w)^dt, the double rounded once.        *)
Decay(x, w, dt) == (x * (w - 1)^dt) \div w^dt
Grow(x, w, dt) == (x * w^dt) \div (w - 1)^dt

(* CFeeRate::GetFee: the fee of nSize bytes at a rate per 1000 bytes.      *)
GetFee(rate, nSize) == (rate * nSize) \div 1000

MaxOf(a, b) == IF a >= b THEN a ELSE b
MinOf(a, b) == IF a <= b THEN a ELSE b

(* The clamps by pool occupancy: below one block, between one block and   *)
(* MAX_BLOCK_SIZE_MULTIPLIER blocks, and above.                            *)
ClampCutoff(cutoff, bytes) ==
    IF bytes < nLargestBlockSeen THEN MaxOf(cutoff, initFeeCutoff)
    ELSE IF bytes < nLargestBlockSeen * MAX_BLOCK_SIZE_MULTIPLIER
    THEN MaxOf(cutoff, initFeeCutoff
                 + ((maxFeeCutoff - initFeeCutoff) * (bytes - nLargestBlockSeen))
                     \div (nLargestBlockSeen * (MAX_BLOCK_SIZE_MULTIPLIER - 1)))
    ELSE maxFeeCutoff

ClampFreeLimit(limit, bytes) ==
    IF bytes < nLargestBlockSeen THEN MinOf(limit, nLimitFreeRelay)
    ELSE IF bytes < nLargestBlockSeen * MAX_BLOCK_SIZE_MULTIPLIER
    THEN MaxOf(MinOf(limit, nLimitFreeRelay
                  - ((nLimitFreeRelay - DEFAULT_MIN_LIMITFREERELAY) * (bytes - nLargestBlockSeen))
                      \div (nLargestBlockSeen * (MAX_BLOCK_SIZE_MULTIPLIER - 1))),
               DEFAULT_MIN_LIMITFREERELAY)
    ELSE DEFAULT_MIN_LIMITFREERELAY

(* The elapsed time the controller decays by.  The static nLastTime is    *)
(* initialised by the first call and never assigned again.                 *)
ControllerElapsed == now - (IF nLastTime = NoTime THEN now ELSE nLastTime)

Init ==
    /\ now = 0
    /\ poolBytes \in PoolSizes
    /\ feeCutoff = initFeeCutoff
    /\ nFreeLimit = nLimitFreeRelay
    /\ nLastTime = NoTime
    /\ minRelayTxFee = MinRelayDefault
    /\ dFreeCount = 0
    /\ nLastTimeFree = 0
    /\ lastCall = NoTime

Tick(dt) ==
    /\ now + dt <= MaxTime
    /\ now' = now + dt
    /\ UNCHANGED <<poolBytes, feeCutoff, nFreeLimit, nLastTime, minRelayTxFee,
                   dFreeCount, nLastTimeFree, lastCall>>

(* Other admissions, evictions and blocks change the pool's size.          *)
PoolChange(b) ==
    /\ b # poolBytes
    /\ poolBytes' = b
    /\ UNCHANGED <<now, feeCutoff, nFreeLimit, nLastTime, minRelayTxFee,
                   dFreeCount, nLastTimeFree, lastCall>>

(* One call of AcceptToMemoryPoolWorker that passes the checks before     *)
(* the priority check.                                                     *)
AcceptToMemoryPoolWorker(tx, fLimitFree) ==
    LET dt      == ControllerElapsed
        cutoff  == ClampCutoff(Decay(feeCutoff, Window, dt), poolBytes)
        limit   == ClampFreeLimit(Grow(nFreeLimit, Window, dt), poolBytes)
        newRate == cutoff
        lowFee  == fLimitFree /\ tx.nFees < GetFee(newRate, tx.nSize)
        free    == Decay(dFreeCount, FreeWindow, now - nLastTimeFree)
    IN  /\ ~(RelayPriority /\ tx.nFees < GetFee(minRelayTxFee, tx.nSize) /\ ~tx.allowFree)
        /\ feeCutoff' = cutoff
        /\ nFreeLimit' = limit
        /\ nLastTime' = IF nLastTime = NoTime THEN now ELSE nLastTime
        /\ minRelayTxFee' = newRate
        /\ lastCall' = now
        /\ dFreeCount' = IF ~lowFee THEN dFreeCount
                         ELSE IF free >= nLimitFreeRelay * 10 * 1000 THEN free
                         ELSE free + tx.nSize
        /\ nLastTimeFree' = IF lowFee THEN now ELSE nLastTimeFree
        /\ UNCHANGED <<now, poolBytes>>

Next ==
    \/ \E dt \in 1..MaxTime : Tick(dt)
    \/ \E b \in PoolSizes : PoolChange(b)
    \/ \E tx \in Txs, fLimitFree \in BOOLEAN : AcceptToMemoryPoolWorker(tx, fLimitFree)

Spec == Init /\ [][Next]_vars

----------------------------------------------------------------------------
(* Spec 4.2 step 10: the fee floor "decays toward a configured baseline    *)
(* over a 24-hour exponential window".  Each call may lower feeCutoff by   *)
(* no more than the window allows for the time since the previous call;   *)
(* the code decays it by the whole time since the first call instead,      *)
(* because the static nLastTime is never updated.                          *)
CutoffDecaysOverWindow ==
    [][ lastCall' = now /\ lastCall # NoTime
          => feeCutoff' >= Decay(feeCutoff, Window, now - lastCall) ]_vars
============================================================================
