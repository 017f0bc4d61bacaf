--------------------------- MODULE BlockValidation ---------------------------
(***************************************************************************)
(* Block validation of src/src/main.cpp: the context-free CheckBlock with  *)
(* its service-transaction side channel and its fChecked cache,            *)
(* ContextualCheckBlock with IsSuperMajority, and the coin view as         *)
(* ConnectBlock drives it (CheckInputs, CheckTxInputs, UpdateCoins), with  *)
(* the undo data that disconnecting a block restores.                      *)
(*                                                                         *)
(*   ReceiveStx         a service transaction enters g_stxmempool          *)
(*   ProcessNewBlock    a block object arrives from a peer: CheckBlock,    *)
(*                      then AcceptBlock (CheckBlock again on the same     *)
(*                      object, ContextualCheckBlock, store to disk)       *)
(*   ConnectBlock       the tip's child is read back from disk (a fresh    *)
(*                      object), re-checked, and its transactions applied  *)
(*                      to the coin view in order                          *)
(*   DisconnectBlock    the tip's undo data is applied in reverse order    *)
(*                                                                         *)
(* Blocks and transactions are constants: a block's header-level faults   *)
(* (proof of work, merkle root, size, sigops, signature, coinbase height)  *)
(* are a set of names; a transaction has one output.                       *)
(***************************************************************************)
EXTENDS Integers, Sequences, FiniteSets, FiniteSetsExt

CONSTANTS
    Blocks, Genesis, Blk,     \* Blk[b]: [parent, txs, pos, time, version, fails]
    GenesisVersion,
    Txs, GenesisTxs, TxInfo,  \* TxInfo[t]: [kind, ins, val, stx, time]
    BadTxs,                   \* transactions CheckTransaction rejects
    NonFinal,                 \* transactions IsFinalTx rejects where they are mined
    Stxs, StxValid, NoStx,    \* service transactions; those CheckServiceTransaction accepts
    Entitlement,              \* GetProofOfStakeReward of each coinstake
    COINBASE_MATURITY, MaturityHeight,  \* MaturityHeight: the literal 1600000
    MAX_MONEY, DEFAULT_TRANSACTION_MINFEE,
    nMajorityWindow, nMajorityEnforceBlockUpgrade,
    MaxCount                  \* saturation of the per-block execution counts

ASSUME NoStx \notin Stxs /\ Genesis \notin Blocks

VARIABLES
    stxmempool,   \* g_stxmempool
    requested,    \* service transactions asked for from peers (AskFor)
    execCount,    \* ProcessServiceCommand calls per (stx, block), saturating
    accepted,     \* blocks AcceptBlock stored
    chain,        \* blocks connected after genesis, in order
    coins,        \* pcoinsTip: records [tx, h, cb]
    undo          \* undo[i][k]: coins transaction k of chain[i] spent

vars == <<stxmempool, requested, execCount, accepted, chain, coins, undo>>

Coin == [tx : Txs, h : Nat, cb : BOOLEAN]
IsCoinBaseOrStake(t) == TxInfo[t].kind \in {"coinbase", "coinstake"}

RECURSIVE Height(_)
Height(b) == IF b = Genesis THEN 0 ELSE 1 + Height(Blk[b].parent)

Version(b) == IF b = Genesis THEN GenesisVersion ELSE Blk[b].version
Tip == IF chain = <<>> THEN Genesis ELSE chain[Len(chain)]

----------------------------------------------------------------------------
(* CheckBlock, context-free.                                               *)

HeaderFails(b, fCheckPOW, fCheckMerkleRoot) ==
    \/ fCheckPOW /\ ~Blk[b].pos /\ "pow" \in Blk[b].fails
    \/ fCheckMerkleRoot /\ Blk[b].fails \cap {"merkle", "mutated"} # {}

ShapeFails(b) ==
    LET v == Blk[b].txs IN
    \/ v = <<>> \/ "size" \in Blk[b].fails
    \/ TxInfo[v[1]].kind # "coinbase"
    \/ \E i \in 2..Len(v) : TxInfo[v[i]].kind = "coinbase"
    \/ \E i \in 3..Len(v) : TxInfo[v[i]].kind = "coinstake"
    \/ Blk[b].pos /\ TxInfo[v[1]].val # 0

(* Position in the transaction loop where CheckTransaction or the          *)
(* timestamp check returns, or Len + 1.                                    *)
LoopStop(b) ==
    LET v   == Blk[b].txs
        bad == {i \in 1..Len(v) : v[i] \in BadTxs \/ Blk[b].time < TxInfo[v[i]].time}
    IN  IF bad = {} THEN Len(v) + 1 ELSE Min(bad)

(* Transactions whose nVersion == 2 branch ran: every one before the stop, *)
(* and the stopping one when it failed only its timestamp.                 *)
ServiceRefs(b, fCheckPOW, fCheckMerkleRoot) ==
    LET v == Blk[b].txs IN
    IF HeaderFails(b, fCheckPOW, fCheckMerkleRoot) \/ ShapeFails(b) THEN {}
    ELSE {TxInfo[v[i]].stx : i \in {i \in 1..Len(v) :
              i < LoopStop(b) \/ (i = LoopStop(b) /\ v[i] \notin BadTxs)}} \ {NoStx}

CheckBlockOK(b, fCheckPOW, fCheckMerkleRoot) ==
    /\ ~HeaderFails(b, fCheckPOW, fCheckMerkleRoot)
    /\ ~ShapeFails(b)
    /\ LoopStop(b) = Len(Blk[b].txs) + 1
    /\ Blk[b].fails \cap {"sigops", "sig"} = {}

(* block.fChecked is set only after a call with both checks enabled.       *)
CacheChecked(fCheckPOW, fCheckMerkleRoot) == fCheckPOW /\ fCheckMerkleRoot

Bump(ec, b, S) ==
    [k \in DOMAIN ec |-> IF k[2] = b /\ k[1] \in S
                         THEN Min({ec[k] + 1, MaxCount}) ELSE ec[k]]

(* The side effects of one CheckBlock call on an unchecked object: missing *)
(* service transactions are requested, valid ones are executed.            *)
Executed(b, fP, fM) == ServiceRefs(b, fP, fM) \cap stxmempool \cap StxValid
Requested(b, fP, fM) == ServiceRefs(b, fP, fM) \ stxmempool

----------------------------------------------------------------------------
(* ContextualCheckBlock and IsSuperMajority.                               *)

RECURSIVE CountVersions(_, _, _, _, _)
CountVersions(minVersion, p, i, nFound, nRequired) ==
    IF i < nMajorityWindow /\ nFound < nRequired /\ p # Genesis
    THEN CountVersions(minVersion, Blk[p].parent, i + 1,
                       nFound + (IF Blk[p].version >= minVersion THEN 1 ELSE 0), nRequired)
    ELSE IF i < nMajorityWindow /\ nFound < nRequired /\ p = Genesis
    THEN nFound + (IF GenesisVersion >= minVersion THEN 1 ELSE 0)
    ELSE nFound

IsSuperMajority(minVersion, pstart, nRequired) ==
    CountVersions(minVersion, pstart, 0, 0, nRequired) >= nRequired

ContextualCheckBlock(b) ==
    /\ \A i \in 1..Len(Blk[b].txs) : Blk[b].txs[i] \notin NonFinal
    /\ (Blk[b].version >= 2
        /\ IsSuperMajority(2, Blk[b].parent, nMajorityEnforceBlockUpgrade))
          => "cbheight" \notin Blk[b].fails

----------------------------------------------------------------------------
(* The coin view.                                                          *)

ValueIn(t, view) == MapThenSumSet(LAMBDA c : TxInfo[c.tx].val,
                                  {c \in view : c.tx \in TxInfo[t].ins})

(* Consensus::CheckTxInputs; nSpendHeight is GetSpendHeight, the view's    *)
(* best block plus one, and the tip is that best block.                    *)
CheckTxInputs(t, view, nSpendHeight) ==
    LET spent   == {c \in view : c.tx \in TxInfo[t].ins}
        nValueIn == ValueIn(t, view)
        val      == TxInfo[t].val
    IN  /\ \A i \in TxInfo[t].ins : \E c \in view : c.tx = i
        /\ \A c \in spent :
              (c.cb \/ TxInfo[t].kind = "coinstake")
                 => ~(nSpendHeight - c.h < COINBASE_MATURITY
                      /\ nSpendHeight - 1 > MaturityHeight)
        /\ nValueIn <= MAX_MONEY
        /\ IF TxInfo[t].kind # "coinstake"
           THEN nValueIn >= val /\ nValueIn - val <= MAX_MONEY
           ELSE val - nValueIn <= Entitlement[t] + DEFAULT_TRANSACTION_MINFEE

(* CheckInputs: nothing for a coinbase; script verification is assumed to *)
(* pass, the block-level faults carrying what it would reject.             *)
CheckInputs(t, view, nSpendHeight) ==
    TxInfo[t].kind = "coinbase" \/ CheckTxInputs(t, view, nSpendHeight)

UpdateCoinsHeightOff(t, view, nHeight) ==
    LET spent == IF TxInfo[t].kind = "coinbase" THEN {}
                 ELSE {c \in view : c.tx \in TxInfo[t].ins}
    IN  <<(view \ spent) \cup {[tx |-> t, h |-> nHeight - 1, cb |-> IsCoinBaseOrStake(t)]}, spent>>

(* UpdateCoins: spend the inputs into the undo record, then AddCoins.      *)
UpdateCoins(t, view, nHeight) ==
    LET spent == IF TxInfo[t].kind = "coinbase" THEN {}
                 ELSE {c \in view : c.tx \in TxInfo[t].ins}
    IN  <<(view \ spent) \cup {[tx |-> t, h |-> nHeight, cb |-> IsCoinBaseOrStake(t)]}, spent>>

(* ConnectBlock's transaction loop: each transaction is checked against   *)
(* the view as the earlier ones of the block left it.                      *)
RECURSIVE ConnectTxs(_, _, _, _, _)
ConnectTxs(v, i, view, txundo, nHeight) ==
    IF i > Len(v) THEN <<TRUE, view, txundo>>
    ELSE IF ~CheckInputs(v[i], view, nHeight) THEN <<FALSE, view, txundo>>
    ELSE LET r == UpdateCoins(v[i], view, nHeight)
         IN  ConnectTxs(v, i + 1, r[1], Append(txundo, r[2]), nHeight)

(* DisconnectBlock: transactions in reverse order, each removing its       *)
(* output and restoring the coins it spent.                                *)
RECURSIVE DisconnectTxs(_, _, _, _)
DisconnectTxs(v, i, view, txundo) ==
    IF i = 0 THEN view
    ELSE DisconnectTxs(v, i - 1, {c \in view : c.tx # v[i]} \cup txundo[i], txundo)

----------------------------------------------------------------------------
Init ==
    /\ stxmempool = {}
    /\ requested = {}
    /\ execCount = [k \in Stxs \X Blocks |-> 0]
    /\ accepted = {}
    /\ chain = <<>>
    /\ coins = {[tx |-> t, h |-> 0, cb |-> IsCoinBaseOrStake(t)] : t \in GenesisTxs}
    /\ undo = <<>>

ReceiveStx(s) ==
    /\ s \notin stxmempool
    /\ stxmempool' = stxmempool \cup {s}
    /\ UNCHANGED <<requested, execCount, accepted, chain, coins, undo>>

(* ProcessNewBlock on a fresh object: CheckBlock; on success AcceptBlock   *)
(* calls CheckBlock again on the same object, which the cache short-      *)
(* circuits, then ContextualCheckBlock against the block's parent.         *)
ProcessNewBlock(b) ==
    LET ok     == CheckBlockOK(b, TRUE, TRUE)
        first  == Bump(execCount, b, Executed(b, TRUE, TRUE))
        second == IF ok /\ ~CacheChecked(TRUE, TRUE)
                  THEN Bump(first, b, Executed(b, TRUE, TRUE)) ELSE first
    IN  /\ b \notin accepted
        /\ requested' = requested \cup Requested(b, TRUE, TRUE)
        /\ execCount' = second
        /\ accepted' = IF ok /\ ContextualCheckBlock(b) THEN accepted \cup {b} ELSE accepted
        /\ UNCHANGED <<stxmempool, chain, coins, undo>>

(* ConnectTip reads the block back from disk and ConnectBlock re-runs      *)
(* CheckBlock on that fresh object before applying its transactions.       *)
ConnectBlock(b) ==
    LET nHeight == Len(chain) + 1
        r       == ConnectTxs(Blk[b].txs, 1, coins, <<>>, nHeight)
        ok      == CheckBlockOK(b, TRUE, TRUE) /\ r[1]
    IN  /\ b \in accepted
        /\ Blk[b].parent = Tip
        /\ requested' = requested \cup Requested(b, TRUE, TRUE)
        /\ execCount' = Bump(execCount, b, Executed(b, TRUE, TRUE))
        /\ chain' = IF ok THEN Append(chain, b) ELSE chain
        /\ coins' = IF ok THEN r[2] ELSE coins
        /\ undo'  = IF ok THEN Append(undo, r[3]) ELSE undo
        /\ UNCHANGED <<stxmempool, accepted>>

DisconnectBlockKeepUndo ==
    /\ chain # <<>>
    /\ coins' = DisconnectTxs(Blk[Tip].txs, Len(Blk[Tip].txs), coins, undo[Len(undo)])
    /\ chain' = SubSeq(chain, 1, Len(chain) - 1)
    /\ UNCHANGED <<stxmempool, requested, execCount, accepted, undo>>

(* DisconnectTip: DisconnectBlock on the tip's undo record, which the      *)
(* chain drops along with the block.                                       *)
DisconnectBlock ==
    /\ chain # <<>>
    /\ coins' = DisconnectTxs(Blk[Tip].txs, Len(Blk[Tip].txs), coins, undo[Len(undo)])
    /\ chain' = SubSeq(chain, 1, Len(chain) - 1)
    /\ undo'  = SubSeq(undo, 1, Len(undo) - 1)
    /\ UNCHANGED <<stxmempool, requested, execCount, accepted>>

Next ==
    \/ \E s \in Stxs : ReceiveStx(s)
    \/ \E b \in Blocks : ProcessNewBlock(b)
    \/ \E b \in Blocks : ConnectBlock(b)
    \/ DisconnectBlock

Spec == Init /\ [][Next]_vars

----------------------------------------------------------------------------
(* Every variable holds values of its type, and DisconnectTip drops the    *)
(* undo record of each block it takes off the chain, so there is exactly   *)
(* one record per connected block.                                         *)
TypeOK ==
    /\ stxmempool \subseteq Stxs /\ requested \subseteq Stxs
    /\ execCount \in [Stxs \X Blocks -> 0..MaxCount]
    /\ accepted \subseteq Blocks
    /\ chain \in Seq(Blocks) /\ coins \subseteq Coin
    /\ Len(undo) = Len(chain)

(* Reference UTXO set of the active chain: every output created on it,     *)
(* at the height of its block, that no transaction on it spends.           *)
ChainTxs(i) == {Blk[chain[i]].txs[k] : k \in 1..Len(Blk[chain[i]].txs)}
Created ==
    {[tx |-> t, h |-> 0, cb |-> IsCoinBaseOrStake(t)] : t \in GenesisTxs}
    \cup UNION {{[tx |-> t, h |-> i, cb |-> IsCoinBaseOrStake(t)] : t \in ChainTxs(i)}
                : i \in 1..Len(chain)}
SpentOnChain == UNION {UNION {TxInfo[t].ins : t \in ChainTxs(i)} : i \in 1..Len(chain)}

(* Spec 8: connecting then disconnecting blocks leaves the coin view       *)
(* exactly as the active chain defines it; UpdateCoins' undo records and   *)
(* the reverse-order disconnect restore every spent coin with its height   *)
(* and coinbase flag, including coins created and spent in one block.      *)
CoinsMatchChain == coins = {c \in Created : c.tx \notin SpentOnChain}

(* Service commands take effect only for blocks that pass CheckBlock:      *)
(* spec 4.3 calls the service transaction in CheckBlock a cross-check and  *)
(* a block failing a check terminal, yet CheckBlock runs                   *)
(* ProcessServiceCommand inside its transaction loop, before the           *)
(* timestamp, sigop and signature checks can still reject the block.       *)
ServiceOnlyForValidBlocks ==
    \A k \in Stxs \X Blocks : execCount[k] > 0 => CheckBlockOK(k[2], TRUE, TRUE)
============================================================================
