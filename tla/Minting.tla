----------------------------- MODULE Minting -----------------------------
(***************************************************************************)
(* The difficulty retarget and the block rewards of main.cpp over a chain *)
(* that grows one block at a time.  Each new block, proof-of-work or       *)
(* proof-of-stake, carries the target GetNextTargetRequired computes for   *)
(* its parent and adds to the money supply the subsidy GetProofOfWorkReward *)
(* or GetProofOfStakeReward pays at its height.  Consensus parameters and  *)
(* the amounts of amount.h are constants, scaled so that TLC's integers    *)
(* hold every product; the height thresholds of the reward schedule are   *)
(* constants so that a short chain crosses them in the code's order.       *)
(***************************************************************************)
EXTENDS Integers, Sequences, TLC

CONSTANTS
    powLimit, posLimit,            \* consensus powLimit and posLimit
    nTargetTimespan, nTargetSpacing,
    SERVICE_UPGRADE_HARDFORK,      \* median time past that switches the spacing
    UpgradedSpacing,               \* the literal 150 of GetNextTargetRequired
    COIN, CENT, MAX_MONEY, MAX_MINT_PROOF_OF_STAKE,
    FirstBlockSubsidy,             \* 0.0099 * OLD_MAX_MONEY
    PowBaseSubsidy,                \* 100000 * COIN
    PowRandomDraws,                \* values of generateMTRandom(seed, 200000)
    CUTOFF_HEIGHT,                 \* the literal 86400
    PosV2Height, PosV3Height,      \* the literals 500000 and 1005000
    GenesisTime, GenesisSupply,
    BlockKinds,                    \* fProofOfStake values a miner may produce
    TimeSteps,                     \* nTime of a new block minus its parent's
    CoinAges,                      \* nCoinAge of a coinstake, in coin-days
    MaxHeight                      \* bound on the chain

ASSUME nTargetTimespan >= 2 * 3 * UpgradedSpacing
       /\ nTargetTimespan >= 2 * 3 * nTargetSpacing

VARIABLE chain   \* chain[i] is the block at height i - 1; chain[1] is genesis

vars == <<chain>>

Block == [nTime : Int, nBits : Int, pos : BOOLEAN, nMoneySupply : Int]

(* arith_uint256::GetCompact then SetCompact: three significant bytes, one *)
(* fewer when the top mantissa bit would read as the sign.                *)
RECURSIVE Bytes(_)
Bytes(v) == IF v = 0 THEN 0 ELSE 1 + Bytes(v \div 256)

Compact(v) ==
    LET n  == Bytes(v)
        m  == IF n <= 3 THEN v ELSE v \div 256^(n - 3)
        sh == IF n > 3 THEN n - 3 ELSE 0
    IN  IF m >= 8388608 THEN ((m \div 256) * 256) * 256^sh ELSE m * 256^sh

TargetLimit(fProofOfStake) == IF fProofOfStake THEN posLimit ELSE powLimit

(* CBlockIndex::GetMedianTimePast: median of the last eleven block times. *)
GetMedianTimePast(i) ==
    LET first == IF i > 11 THEN i - 10 ELSE 1
        s     == SortSeq([k \in 1..(i - first + 1) |-> chain[first + k - 1].nTime], <)
    IN  s[Len(s) \div 2 + 1]

(* GetLastBlockIndex: walk back to the last block of the requested kind,   *)
(* stopping at genesis.                                                    *)
RECURSIVE GetLastBlockIndex(_, _)
GetLastBlockIndex(i, fProofOfStake) ==
    IF i > 1 /\ chain[i].pos # fProofOfStake
    THEN GetLastBlockIndex(i - 1, fProofOfStake) ELSE i

ClampSpacing(nActualSpacing) ==
    IF nActualSpacing < 0 THEN 1
    ELSE IF nActualSpacing > nTargetTimespan THEN nTargetTimespan
    ELSE nActualSpacing

TargetSpacingAt(prev) ==
    IF GetMedianTimePast(prev) > SERVICE_UPGRADE_HARDFORK
    THEN UpgradedSpacing ELSE nTargetSpacing

Spacing(last, prev, fProofOfStake) ==
    LET t == TargetSpacingAt(prev)
    IN  IF fProofOfStake THEN t
        ELSE IF 3 * t < t * (1 + last - prev) THEN 3 * t ELSE t * (1 + last - prev)

RetargetUnclamped(bn, nActualSpacing, spacing, limit) ==
    LET nInterval == nTargetTimespan \div spacing
    IN  (bn * ((nInterval - 1) * spacing + 2 * nActualSpacing))
            \div ((nInterval + 1) * spacing)

(* The exponential move toward the target spacing, capped at the limit.    *)
Retarget(bn, nActualSpacing, spacing, limit) ==
    LET nInterval == nTargetTimespan \div spacing
        bnNew     == (bn * ((nInterval - 1) * spacing + 2 * nActualSpacing))
                        \div ((nInterval + 1) * spacing)
    IN  IF bnNew > limit THEN limit ELSE bnNew

GetNextTargetRequiredReversed(last, fProofOfStake) ==
    LET limit == TargetLimit(fProofOfStake)
        prev  == GetLastBlockIndex(last, fProofOfStake)
        pp    == GetLastBlockIndex(prev - 1, fProofOfStake)
    IN  IF prev = 1 \/ pp = 1 THEN Compact(limit)
        ELSE Compact(Retarget(chain[prev].nBits,
                              ClampSpacing(chain[pp].nTime - chain[prev].nTime),
                              Spacing(last, prev, fProofOfStake), limit))

(* GetNextTargetRequired(pindexLast = chain[last], fProofOfStake).         *)
GetNextTargetRequired(last, fProofOfStake) ==
    LET limit == TargetLimit(fProofOfStake)
        prev  == GetLastBlockIndex(last, fProofOfStake)
        pp    == GetLastBlockIndex(prev - 1, fProofOfStake)
    IN  IF prev = 1 \/ pp = 1 THEN Compact(limit)
        ELSE Compact(Retarget(chain[prev].nBits,
                              ClampSpacing(chain[prev].nTime - chain[pp].nTime),
                              Spacing(last, prev, fProofOfStake), limit))

(* GetProofOfWorkReward with nFees = 0; draw is the seeded Mersenne draw.  *)
GetProofOfWorkReward(nHeight, draw) ==
    IF nHeight = 1 THEN FirstBlockSubsidy
    ELSE IF nHeight > CUTOFF_HEIGHT THEN 1 * COIN
    ELSE PowBaseSubsidy + draw * COIN

ValueFromAmountAsInt(amount) == amount \div COIN

(* GetProofOfStakeReward; CMS is chainActive.Tip()->nMoneySupply.          *)
GetProofOfStakeReward(nCoinAge, nHeight, CMS) ==
    LET rateV2 == (5 * MAX_MINT_PROOF_OF_STAKE) \div 2
        nextV2 == ValueFromAmountAsInt(CMS) + rateV2
        yearV2 == IF nextV2 = MAX_MONEY THEN 0
                  ELSE IF nextV2 > MAX_MONEY THEN MAX_MONEY ELSE rateV2
        sub    == (nCoinAge * (25 * CENT)) \div 365
    IN  IF CMS = MAX_MONEY THEN 0
        ELSE IF nHeight > PosV2Height /\ nHeight < PosV3Height
             THEN (nCoinAge * yearV2) \div 365
        ELSE IF nHeight >= PosV3Height /\ CMS + sub > MAX_MONEY
             THEN sub - (CMS + sub - MAX_MONEY)
        ELSE sub

Init == chain = << [nTime |-> GenesisTime, nBits |-> Compact(powLimit),
                    pos |-> FALSE, nMoneySupply |-> GenesisSupply] >>

(* A miner connects a block on the tip: its nBits is the required target   *)
(* and its coinbase or coinstake mints the subsidy of its height.          *)
ConnectBlock(fProofOfStake, dt, amount) ==
    LET last   == Len(chain)
        nHeight == last
        tipSupply == chain[last].nMoneySupply
        minted == IF fProofOfStake
                  THEN GetProofOfStakeReward(amount, nHeight, tipSupply)
                  ELSE GetProofOfWorkReward(nHeight, amount)
    IN  /\ last <= MaxHeight
        /\ chain' = Append(chain,
              [nTime |-> chain[last].nTime + dt,
               nBits |-> GetNextTargetRequired(last, fProofOfStake),
               pos |-> fProofOfStake,
               nMoneySupply |-> tipSupply + minted])

Next ==
    \E fProofOfStake \in BlockKinds, dt \in TimeSteps :
        \E amount \in (IF fProofOfStake THEN CoinAges ELSE PowRandomDraws) :
            ConnectBlock(fProofOfStake, dt, amount)

Spec == Init /\ [][Next]_vars

----------------------------------------------------------------------------
(* Every block carries a target that some hash can meet and that is no     *)
(* easier than the limit of its kind: GetNextTargetRequired's clamp and    *)
(* the interval arithmetic never yield zero or more than the limit.        *)
TypeOK ==
    /\ chain \in Seq(Block)
    /\ \A i \in 1..Len(chain) :
          chain[i].nBits \in 1..TargetLimit(chain[i].pos)

(* Reference for the retarget: the last two blocks of the new block's kind, *)
(* found by position rather than by GetLastBlockIndex's walk.              *)
LastOfKind(n, p) ==
    LET S == {i \in 2..n : chain[i].pos = p}
    IN  IF S = {} THEN 1 ELSE CHOOSE i \in S : \A j \in S : j <= i

(* "Retarget with exponential moving toward target spacing": a block's     *)
(* target is easier than that of the last block of its kind only if those  *)
(* two blocks of its kind were further apart than the target spacing, and  *)
(* harder only if they were closer.                                        *)
RetargetTowardSpacing ==
    [][ LET n    == Len(chain)
            b    == chain'[n + 1]
            prev == LastOfKind(n, b.pos)
            pp   == LastOfKind(prev - 1, b.pos)
            a    == ClampSpacing(chain[prev].nTime - chain[pp].nTime)
            s    == Spacing(n, prev, b.pos)
        IN  (Len(chain') = n + 1 /\ prev > 1 /\ pp > 1) =>
               /\ b.nBits > chain[prev].nBits => a > s
               /\ b.nBits < chain[prev].nBits => a < s ]_vars

(* The money supply never exceeds MAX_MONEY: "no new coins are to be       *)
(* minted" at the cap, and the subsidy "stops at max money and doesnt go   *)
(* over" (GetProofOfStakeReward).                                          *)
MoneySupplyCapped ==
    \A i \in 1..Len(chain) : chain[i].nMoneySupply <= MAX_MONEY
============================================================================
