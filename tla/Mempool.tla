------------------------------- MODULE Mempool -------------------------------
(***************************************************************************)
(* Transaction admission of src/src/main.cpp: AcceptToMemoryPool and       *)
(* AcceptToMemoryPoolWorker, with the trailing LimitMempoolSize.           *)
(*                                                                         *)
(* One call is one step: the worker runs under cs_main from start to end.  *)
(* The ordered early returns are kept as an ordered list of checks; the    *)
(* state a call changes before it returns is the pcoinsTip cache (inputs   *)
(* fetched by HaveCoin / GetValueIn), the pool's rolling minimum fee, the  *)
(* fee controller (static feeCutoff, global minRelayTxFee), the free-relay *)
(* counter dFreeCount, and the pool itself (insert, expire, trim).         *)
(*                                                                         *)
(* Checks that depend only on the transaction (CheckTransaction,           *)
(* IsStandardTx, finality, sequence locks, sigops, scripts, absurd fee)    *)
(* are abstracted to StaticFail: the first of them the transaction fails.  *)
(* Fees are fee rates and sizes are small integers.  Time is not kept:     *)
(* every decay (dFreeCount, feeCutoff, the rolling minimum fee, expiry) is *)
(* a choice among the values elapsed time can produce.                     *)
(***************************************************************************)
EXTENDS Integers, Sequences, SequencesExt, FiniteSets

CONSTANTS
    Txs,              \* transactions that may be offered
    Coins,            \* outpoints unspent in pcoinsTip
    Vin,              \* [Txs -> SUBSET outpoints], prevouts spent
    Vout,             \* [Txs -> SUBSET outpoints], outputs created
    FeeRate,          \* [Txs -> Nat], nModifiedFees per size unit
    TxSize,           \* [Txs -> Nat \ {0}], GetTxSize
    HighPriority,     \* [Txs -> BOOLEAN], AllowFree(GetPriority(height + 1))
    StaticFail,       \* [Txs -> StaticChecks \cup {"none"}]
    MaxMempool,       \* -maxmempool, in size units
    MaxBlockSize,     \* MAX_BLOCK_SIZE (nLargestBlockSeen)
    SizeMultiplier,   \* MAX_BLOCK_SIZE_MULTIPLIER
    InitFeeCutoff,    \* -minlimitertxfee
    MaxFeeCutoff,     \* -maxlimitertxfee
    MinRelayDefault,  \* DEFAULT_MIN_RELAY_TX_FEE, the initial minRelayTxFee
    FreeRelayLimit,   \* -limitfreerelay * 10 * 1000, in size units
    AncestorLimit,    \* -limitancestorcount
    DescendantLimit,  \* -limitdescendantcount
    RelayPriority,    \* -relaypriority
    NullMissingArgs   \* {TRUE, FALSE}: whether callers pass pfMissingInputs == NULL

\* The transaction-only checks, in the order the worker makes them.
StaticChecks == {"check", "coinbase", "standard", "non-final", "non-BIP68-final",
                 "nonstandard-inputs", "too-many-sigops", "absurdly-high-fee",
                 "script", "mandatory-script"}

VARIABLES
    pool,             \* mempool entries, oldest first (entry time order)
    cache,            \* outpoints of Coins held in the pcoinsTip cache
    rollingMinFee,    \* the pool's rolling minimum fee rate (GetMinFee)
    feeCutoff,        \* static feeCutoff of the fee controller
    minRelayTxFee,    \* global ::minRelayTxFee, as a rate
    dFreeCount,       \* static dFreeCount of the free-transaction limiter
    result            \* the last call: transaction, reject reason, fOverrideMempoolLimit

vars == <<pool, cache, rollingMinFee, feeCutoff, minRelayTxFee, dFreeCount, result>>

-----------------------------------------------------------------------------
(* The transaction graph of a pool *)

Spent(P) == UNION {Vin[t] : t \in P}           \* mapNextTx
Outputs(P) == UNION {Vout[t] : t \in P}
ParentsIn(t, P) == {p \in P : Vout[p] \cap Vin[t] # {}}
ChildrenIn(t, P) == {c \in P : Vout[t] \cap Vin[c] # {}}

RECURSIVE AncestorsIn(_, _)
AncestorsIn(t, P) == LET ps == ParentsIn(t, P) IN ps \cup UNION {AncestorsIn(p, P) : p \in ps}
RECURSIVE DescendantsIn(_, _)
DescendantsIn(t, P) == LET cs == ChildrenIn(t, P) IN cs \cup UNION {DescendantsIn(c, P) : c \in cs}

\* GetTotalTxSize
PoolBytes(P) == MapThenSumSet(LAMBDA t : TxSize[t], P)

\* CCoinsViewMemPool::HaveCoin fails for some input
MissingInputs(tx, P) == ~(Vin[tx] \subseteq Coins \cup Outputs(P))

\* A variant that does not count the new entry itself.
WithinChainLimitsLoose(tx, P) ==
    LET anc == AncestorsIn(tx, P)
    IN  /\ Cardinality(anc) <= AncestorLimit
        /\ \A a \in anc : Cardinality(DescendantsIn(a, P)) + 2 <= DescendantLimit

\* _CalculateMemPoolAncestors: the new entry with its in-pool ancestors
\* stays within the ancestor limit, and no ancestor exceeds the descendant limit.
WithinChainLimits(tx, P) ==
    LET anc == AncestorsIn(tx, P)
    IN  /\ Cardinality(anc) + 1 <= AncestorLimit
        /\ \A a \in anc : Cardinality(DescendantsIn(a, P)) + 2 <= DescendantLimit

-----------------------------------------------------------------------------
(* The fee controller: feeCutoff decays (by an amount set by the time since *)
(* nLastTime) and is then raised to the floor that pool occupancy sets.     *)

\* The floor of each occupancy band; the middle band interpolates linearly.
CutoffFloor(poolBytes) ==
    IF poolBytes < MaxBlockSize THEN InitFeeCutoff
    ELSE InitFeeCutoff + ((MaxFeeCutoff - InitFeeCutoff) * (poolBytes - MaxBlockSize))
                         \div (MaxBlockSize * (SizeMultiplier - 1))

\* Every feeCutoff the controller can produce from the current one.
FeeCutoffs(poolBytes) ==
    IF poolBytes >= MaxBlockSize * SizeMultiplier THEN {MaxFeeCutoff}
    ELSE {IF decayed > CutoffFloor(poolBytes) THEN decayed ELSE CutoffFloor(poolBytes) :
              decayed \in 0..feeCutoff}

-----------------------------------------------------------------------------
(* LimitMempoolSize: Expire, then TrimToSize, uncaching the coins no       *)
(* remaining entry spends.                                                 *)

\* A variant of Expire that leaves the descendants behind.
ExpiredAlone(P, oldest) == oldest
\* Expire: the entries older than the cutoff, with their descendants.
Expired(P, oldest) == oldest \cup UNION {DescendantsIn(t, P) : t \in oldest}

RECURSIVE TrimToSize(_, _)
\* Evict the lowest fee-rate entry with its descendants until the pool fits;
\* each eviction raises the rolling minimum fee above the evicted rate
\* (trackPackageRemoved with incrementalRelayFee = 1).  Returns <<kept, fee>>.
TrimToSize(P, rolling) ==
    IF PoolBytes(P) <= MaxMempool THEN <<P, rolling>>
    ELSE LET worst == CHOOSE t \in P : \A u \in P : FeeRate[t] <= FeeRate[u]
             bump  == IF FeeRate[worst] + 1 > rolling THEN FeeRate[worst] + 1 ELSE rolling
         IN  TrimToSize(P \ ({worst} \cup DescendantsIn(worst, P)), bump)

\* The coins spent by removed entries that no remaining entry spends.
NoSpendsRemaining(removed, kept) == (Spent(removed) \ Spent(kept)) \cap Coins

-----------------------------------------------------------------------------
(* The ordered checks of AcceptToMemoryPoolWorker *)

CheckOrder ==
    << "check", "coinbase", "standard", "non-final",
       "txn-already-in-mempool", "txn-mempool-conflict", "missing-inputs",
       "non-BIP68-final", "nonstandard-inputs", "too-many-sigops",
       "mempool min fee not met", "insufficient priority",
       "rate limited free transaction", "absurdly-high-fee",
       "inputs-missingorspent", "script", "mandatory-script",
       "too-long-mempool-chain" >>

At(name) == CHOOSE i \in 1..Len(CheckOrder) : CheckOrder[i] = name

\* Whether each check rejects tx: rolling is the decayed GetMinFee rate,
\* cutoff the new feeCutoff, free the decayed dFreeCount.
Fails(tx, P, fLimitFree, fNullMissing, rolling, cutoff, free) ==
    [c \in ToSet(CheckOrder) |->
        CASE c \in StaticChecks           -> StaticFail[tx] = c
          [] c = "txn-already-in-mempool" -> tx \in P
          [] c = "txn-mempool-conflict"   -> Vin[tx] \cap Spent(P) # {}
          [] c = "missing-inputs"         -> ~fNullMissing /\ MissingInputs(tx, P)
          [] c = "mempool min fee not met" -> rolling > 0 /\ FeeRate[tx] < rolling
          [] c = "insufficient priority"  ->
                RelayPriority /\ FeeRate[tx] < minRelayTxFee /\ ~HighPriority[tx]
          [] c = "rate limited free transaction" ->
                fLimitFree /\ FeeRate[tx] < cutoff /\ free >= FreeRelayLimit
          [] c = "inputs-missingorspent"  -> fNullMissing /\ MissingInputs(tx, P)
          [] c = "too-long-mempool-chain" -> ~WithinChainLimits(tx, P)]

\* Index of the check that returns, Len(CheckOrder) + 1 when all pass.
FirstFailure(fails) ==
    LET bad == {i \in 1..Len(CheckOrder) : fails[CheckOrder[i]]}
    IN  IF bad = {} THEN Len(CheckOrder) + 1
        ELSE CHOOSE i \in bad : \A j \in bad : i <= j

-----------------------------------------------------------------------------
(* The input stage of the worker *)

\* A variant that caches every prevout, the pool's outputs included.
FetchedAll(tx) == Vin[tx]
\* HaveCoin / GetValueIn fetch the confirmed input coins into pcoinsTip;
\* inputs that are pool outputs are served by CCoinsViewMemPool.
FetchedCoins(tx) == Vin[tx] \cap Coins

\* A variant that asks HaveCoinInCache after HaveCoin has fetched the coin.
CoinsToUncacheAfterFetch(tx, fNullMissing) ==
    IF fNullMissing THEN {} ELSE Vin[tx] \ (cache \cup FetchedCoins(tx))
\* vCoinsToUncache: inputs not in the cache before the call, collected
\* only inside if (pfMissingInputs)
CoinsToUncache(tx, fNullMissing) == IF fNullMissing THEN {} ELSE Vin[tx] \ cache

\* if (!pool.exists(hash)): the new entry was not expired or trimmed away
Survived(tx, kept) == tx \in kept

-----------------------------------------------------------------------------
(* AcceptToMemoryPool: the worker, then the uncache of the fetched coins    *)
(* when the call failed for any reason other than missing inputs.           *)
(* fNullMissing: the caller passed pfMissingInputs == NULL.                 *)

AcceptToMemoryPool(tx, fLimitFree, fNullMissing, fOverrideMempoolLimit) ==
    LET P == ToSet(pool) IN
    \E r \in 0..rollingMinFee, f \in FeeCutoffs(PoolBytes(P)), d \in 0..dFreeCount :
    LET fst       == FirstFailure(Fails(tx, P, fLimitFree, fNullMissing, r, f, d))
        Ran(c)    == fst >= At(c)
        pulled    == IF Ran("missing-inputs") THEN cache \cup FetchedCoins(tx) ELSE cache
        toUncache == CoinsToUncache(tx, fNullMissing)
        limited   == Ran("rate limited free transaction") /\ fLimitFree /\ FeeRate[tx] < f
    IN
    /\ feeCutoff' = IF Ran("rate limited free transaction") THEN f ELSE feeCutoff
    /\ minRelayTxFee' = IF Ran("rate limited free transaction") THEN f ELSE minRelayTxFee
    /\ dFreeCount' = IF ~limited THEN dFreeCount
                     ELSE IF fst = At("rate limited free transaction") THEN d
                     ELSE d + TxSize[tx]
    /\ \/ \* an early return of the worker
          /\ fst <= Len(CheckOrder)
          /\ pool' = pool
          /\ cache' = IF fst > At("missing-inputs") THEN pulled \ toUncache ELSE pulled
          /\ rollingMinFee' = IF Ran("mempool min fee not met") THEN r ELSE rollingMinFee
          /\ result' = [tx |-> tx, reason |-> CheckOrder[fst], override |-> fOverrideMempoolLimit]
       \/ \* addUnchecked, without the size limit
          /\ fst = Len(CheckOrder) + 1
          /\ fOverrideMempoolLimit
          /\ pool' = Append(pool, tx)
          /\ cache' = pulled
          /\ rollingMinFee' = r
          /\ result' = [tx |-> tx, reason |-> "accepted", override |-> TRUE]
       \/ \* addUnchecked, then LimitMempoolSize: the k oldest entries expire
          /\ fst = Len(CheckOrder) + 1
          /\ ~fOverrideMempoolLimit
          /\ \E k \in 0..Len(pool) :
               LET added   == P \cup {tx}
                   expired == Expired(added, ToSet(SubSeq(pool, 1, k)))
                   live    == added \ expired
                   trimmed == TrimToSize(live, r)
                   kept    == trimmed[1]
                   uncached == NoSpendsRemaining(expired, live) \cup
                               NoSpendsRemaining(live \ kept, kept)
               IN  /\ pool' = SelectSeq(Append(pool, tx), LAMBDA t : t \in kept)
                   /\ rollingMinFee' = trimmed[2]
                   /\ IF Survived(tx, kept)
                      THEN /\ cache' = pulled \ uncached
                           /\ result' = [tx |-> tx, reason |-> "accepted", override |-> FALSE]
                      ELSE /\ cache' = (pulled \ uncached) \ toUncache
                           /\ result' = [tx |-> tx, reason |-> "mempool full", override |-> FALSE]

-----------------------------------------------------------------------------

Init ==
    /\ pool = <<>>
    /\ cache = {}
    /\ rollingMinFee = 0
    /\ feeCutoff = InitFeeCutoff
    /\ minRelayTxFee = MinRelayDefault
    /\ dFreeCount = 0
    /\ result = [tx |-> CHOOSE t \in Txs : TRUE, reason |-> "none", override |-> FALSE]

Next ==
    \E tx \in Txs, fLimitFree, fOverride \in BOOLEAN, fNullMissing \in NullMissingArgs :
        AcceptToMemoryPool(tx, fLimitFree, fNullMissing, fOverride)

Spec == Init /\ [][Next]_vars

-----------------------------------------------------------------------------
(* Properties *)

TypeOK ==
    /\ pool \in Seq(Txs) /\ cache \subseteq Coins
    /\ rollingMinFee \in Nat /\ feeCutoff \in Nat /\ minRelayTxFee \in Nat
    /\ dFreeCount \in Nat
    /\ result.tx \in Txs /\ result.override \in BOOLEAN

\* The pool is a consistent transaction graph after any sequence of calls:
\* no two entries spend one outpoint, every input of an entry is a coin or
\* an output of another entry, and each entry appears once.  Expire and
\* TrimToSize must take descendants with what they evict, and the conflict
\* and missing-input checks must see the pool as it is.
PoolConsistent ==
    LET P == ToSet(pool) IN
    /\ Len(pool) = Cardinality(P)
    /\ \A t \in P : Vin[t] \subseteq Coins \cup Outputs(P \ {t})
    /\ \A t, u \in P : t # u => Vin[t] \cap Vin[u] = {}

\* No entry has more in-pool ancestors or descendants than the limits allow,
\* however the chain was built up and trimmed.
ChainLimitsHold ==
    LET P == ToSet(pool) IN
    \A t \in P : /\ Cardinality(AncestorsIn(t, P)) + 1 <= AncestorLimit
                 /\ Cardinality(DescendantsIn(t, P)) + 1 <= DescendantLimit

\* Spec 4.2: each check is a fast reject with no partial mutation on
\* failure.  A rejected call may let the free-relay counter decay, never grow.
RejectLeavesFreeCount ==
    [][result'.reason \notin {"accepted", "none"} => dFreeCount' <= dFreeCount]_vars

\* The comment on vCoinsToUncache: a call that fails for any reason other
\* than missing inputs leaves no coin it fetched in the pcoinsTip cache.
RejectLeavesCache ==
    [][result'.reason \notin {"accepted", "missing-inputs"} => cache' \subseteq cache]_vars
====
