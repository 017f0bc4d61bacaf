------------------------------ MODULE ChainState ------------------------------
(***************************************************************************)
(* The block index, the active chain and the candidate-tip set of          *)
(* src/src/main.cpp, all guarded by cs_main.                               *)
(*                                                                         *)
(*   ReceivedBlockTransactions  links a block whose data arrived, and every *)
(*                              descendant waiting in mapBlocksUnlinked     *)
(*   InvalidateBlock            RPC: mark a block failed, disconnect it     *)
(*   ReconsiderBlock            RPC: clear failure flags of a subtree       *)
(*   ActivateBestChainStep      switch to the best candidate (the driver    *)
(*                              lives outside src/ and is modelled from     *)
(*                              spec 4.4); it ends with the in-source       *)
(*                              PruneBlockIndexCandidates                   *)
(*                                                                         *)
(* Every header is known from the start (headers-first sync); block data   *)
(* arrives in any order.  Each action is one critical section of cs_main;  *)
(* the RPCs and ProcessNewBlock release cs_main before ActivateBestChain,  *)
(* so the actions interleave freely.                                       *)
(***************************************************************************)
EXTENDS Integers, Sequences, FiniteSets

CONSTANTS
    Blocks,           \* block-index entries, numbered; the number stands for the pointer address
    Genesis,          \* the genesis block, loaded from disk
    Parent,           \* [Blocks \ {Genesis} -> Blocks], pprev
    BlockWork,        \* [Blocks -> Nat \ {0}], GetBlockProof of each header
    BadBlocks,        \* blocks whose ConnectBlock fails a consensus rule
    MaxInvalidate,    \* bound on invalidateblock RPC calls
    MaxReconsider,    \* bound on reconsiderblock RPC calls
    DisconnectMayFail \* whether DisconnectTip may fail (I/O error reading block or undo data)

ASSUME Genesis \in Blocks /\ Blocks \subseteq Nat
ASSUME BadBlocks \subseteq Blocks \ {Genesis}
ASSUME MaxInvalidate \in Nat /\ MaxReconsider \in Nat /\ DisconnectMayFail \in BOOLEAN

VARIABLES
    haveData,         \* blocks with BLOCK_HAVE_DATA
    validity,         \* [Blocks -> Levels], nStatus & BLOCK_VALID_MASK
    failedValid,      \* blocks with BLOCK_FAILED_VALID
    failedChild,      \* blocks with BLOCK_FAILED_CHILD
    nChainTx,         \* [Blocks -> Nat], transactions in the block and all ancestors; 0 = not linked
    nSequenceId,      \* [Blocks -> Nat], order in which blocks were linked
    nBlockSequenceId, \* next sequence id
    candidates,       \* setBlockIndexCandidates
    unlinked,         \* mapBlocksUnlinked: sequence of <<pprev, block>> in insertion order
    chain,            \* chainActive: sequence of blocks from Genesis to the tip
    dirty,            \* setDirtyBlockIndex
    rpcInvalidate,    \* invalidateblock calls made so far (model bound)
    rpcReconsider     \* reconsiderblock calls made so far (model bound)

vars == <<haveData, validity, failedValid, failedChild, nChainTx, nSequenceId,
          nBlockSequenceId, candidates, unlinked, chain, dirty,
          rpcInvalidate, rpcReconsider>>

-----------------------------------------------------------------------------
(* Static shape of the block tree *)

Levels == <<"tree", "transactions", "scripts">>   \* BLOCK_VALID_TREE < _TRANSACTIONS < _SCRIPTS
Rank(l) == CHOOSE i \in 1..3 : Levels[i] = l

RECURSIVE PathTo(_)
\* the chain from Genesis to b, as chainActive would hold it with b as tip
PathTo(b) == IF b = Genesis THEN <<Genesis>> ELSE Append(PathTo(Parent[b]), b)

Set(s) == {s[i] : i \in DOMAIN s}

AncestorsOf(b) == Set(PathTo(b))                 \* b and every pprev of it
ChainWork == [b \in Blocks |-> LET p == PathTo(b) IN
                 LET RECURSIVE S(_) S(i) == IF i = 0 THEN 0 ELSE BlockWork[p[i]] + S(i - 1)
                 IN S(Len(p))]                    \* nChainWork
NTx == 1                                          \* nTx of every block (any positive count)

-----------------------------------------------------------------------------
(* Status helpers of CBlockIndex *)

Failed(b) == b \in failedValid \cup failedChild        \* nStatus & BLOCK_FAILED_MASK
\* CBlockIndex::IsValid(nUpTo)
IsValid(b, upTo) == ~Failed(b) /\ Rank(validity[b]) >= Rank(upTo)
Tip == chain[Len(chain)]
InChain(b) == b \in Set(chain)                         \* chainActive.Contains

\* CBlockIndexWorkComparator()(a, b): a sorts before (is worse than) b.
\* Most work first, then lowest sequence id, then lowest address.
Worse(a, b, seq) ==
    \/ ChainWork[a] < ChainWork[b]
    \/ ChainWork[a] = ChainWork[b] /\ seq[a] > seq[b]
    \/ ChainWork[a] = ChainWork[b] /\ seq[a] = seq[b] /\ a > b

\* the last element of setBlockIndexCandidates (its rbegin())
BestOf(S) == CHOOSE c \in S : \A d \in S \ {c} : Worse(d, c, nSequenceId)

-----------------------------------------------------------------------------
(* ReceivedBlockTransactions: the breadth-first walk over mapBlocksUnlinked *)

Seconds(s) == [i \in 1..Len(s) |-> s[i][2]]

RECURSIVE LinkOrder(_, _, _)
\* Blocks in the order the deque visits them, starting with queue.
LinkOrder(queue, unl, visited) ==
    IF queue = <<>> THEN visited
    ELSE LET x    == Head(queue)
             kids == SelectSeq(unl, LAMBDA p : p[1] = x)
         IN  LinkOrder(Tail(queue) \o Seconds(kids),
                       SelectSeq(unl, LAMBDA p : p[1] # x),
                       Append(visited, x))

IndexIn(s, x) == CHOOSE i \in 1..Len(s) : s[i] = x

\* A variant that tests the parent's BLOCK_HAVE_DATA instead of its nChainTx.
ParentHasData(b) == Parent[b] \in haveData
\* pindexNew->pprev == NULL || pindexNew->pprev->nChainTx
ParentLinked(b) == nChainTx[Parent[b]] > 0

\* A variant that never parks a block in mapBlocksUnlinked.
ParkNever(b) == unlinked
\* mapBlocksUnlinked.insert, only under a parent that IsValid(BLOCK_VALID_TREE)
ParkUnlinked(b) == IF IsValid(Parent[b], "tree")
                   THEN Append(unlinked, <<Parent[b], b>>)
                   ELSE unlinked

ReceivedBlockTransactions(b) ==
    /\ b # Genesis
    /\ b \notin haveData                \* AcceptBlock: already have the data
    /\ ~Failed(b)                       \* AcceptBlock: block is marked invalid
    /\ haveData' = haveData \cup {b}
    /\ validity' = [validity EXCEPT ![b] =
                      IF Rank(@) < Rank("transactions") THEN "transactions" ELSE @]
    /\ dirty' = dirty \cup {b}
    /\ IF ParentLinked(b)
       THEN LET order  == LinkOrder(<<b>>, unlinked, <<>>)
                linked == Set(order)
                seq    == [x \in Blocks |-> IF x \in linked
                                            THEN nBlockSequenceId + IndexIn(order, x) - 1
                                            ELSE nSequenceId[x]]
                RECURSIVE NewChainTx(_)
                NewChainTx(x) == IF x \in linked THEN NewChainTx(Parent[x]) + NTx ELSE nChainTx[x]
            IN  /\ nChainTx' = [x \in Blocks |-> NewChainTx(x)]
                /\ nSequenceId' = seq
                /\ nBlockSequenceId' = nBlockSequenceId + Len(order)
                /\ candidates' = candidates \cup {x \in linked : ~Worse(x, Tip, seq)}
                /\ unlinked' = SelectSeq(unlinked, LAMBDA p : p[1] \notin linked)
       ELSE /\ unlinked' = ParkUnlinked(b)
            /\ UNCHANGED <<nChainTx, nSequenceId, nBlockSequenceId, candidates>>
    /\ UNCHANGED <<failedValid, failedChild, chain, rpcInvalidate, rpcReconsider>>

-----------------------------------------------------------------------------
(* InvalidateBlock *)

\* A variant whose walk stops one block above b.
WalkFromAbove(b) == IF InChain(b) THEN {chain[i] : i \in (IndexIn(chain, b) + 1)..Len(chain)} ELSE {}
\* The blocks the while-loop walks: the tip downwards to b, if b is on the chain.
WalkFrom(b) == IF InChain(b) THEN {chain[i] : i \in IndexIn(chain, b)..Len(chain)} ELSE {}

\* The loop ends early when DisconnectTip fails on the k-th walked tip:
\* the top k blocks are marked, only the top k-1 were disconnected.
InvalidateBlock(b) ==
    /\ b # Genesis
    /\ rpcInvalidate < MaxInvalidate
    /\ rpcInvalidate' = rpcInvalidate + 1
    /\ failedValid' = failedValid \cup {b}
    /\ LET walk == WalkFrom(b)
           n    == Cardinality(walk)
       IN \/ \* every DisconnectTip succeeds: re-add every valid tip candidate
             LET newChain == SubSeq(chain, 1, Len(chain) - n)
                 newTip   == newChain[Len(newChain)]
                 fv == failedValid \cup {b}
                 fc == failedChild \cup walk
             IN /\ failedChild' = fc
                /\ chain' = newChain
                /\ dirty' = dirty \cup {b} \cup walk
                /\ candidates' = (candidates \ ({b} \cup walk)) \cup
                     {x \in Blocks : /\ x \notin fv \cup fc
                                     /\ Rank(validity[x]) >= Rank("transactions")
                                     /\ nChainTx[x] > 0
                                     /\ ~Worse(x, newTip, nSequenceId)}
          \/ \* DisconnectTip fails on the k-th walked tip: return false
             /\ DisconnectMayFail
             /\ \E k \in 1..n :
                  LET marked == {chain[i] : i \in (Len(chain) - k + 1)..Len(chain)}
                  IN  /\ failedChild' = failedChild \cup marked
                      /\ chain' = SubSeq(chain, 1, Len(chain) - (k - 1))
                      /\ dirty' = dirty \cup {b} \cup marked
                      /\ candidates' = candidates \ ({b} \cup marked)
    /\ UNCHANGED <<haveData, validity, nChainTx, nSequenceId, nBlockSequenceId,
                   unlinked, rpcReconsider>>

-----------------------------------------------------------------------------
(* ReconsiderBlock *)

ReconsiderBlock(b) ==
    /\ rpcReconsider < MaxReconsider
    /\ rpcReconsider' = rpcReconsider + 1
    /\ LET \* b itself and the descendants the mapBlockIndex loop visits
           sub     == {x \in Blocks : b \in AncestorsOf(x) /\ ~IsValid(x, "transactions")}
           \* ancestors of b (b included) whose failure flags are cleared last
           anc     == {a \in AncestorsOf(b) : Failed(a)}
           cleared == sub \cup anc
       IN /\ failedValid' = failedValid \ cleared
          /\ failedChild' = failedChild \ cleared
          /\ dirty' = dirty \cup sub \cup anc
          /\ candidates' = candidates \cup
               {x \in sub : /\ Rank(validity[x]) >= Rank("transactions")
                            /\ nChainTx[x] > 0
                            /\ Worse(Tip, x, nSequenceId)}
    /\ UNCHANGED <<haveData, validity, nChainTx, nSequenceId, nBlockSequenceId,
                   unlinked, chain, rpcInvalidate>>

-----------------------------------------------------------------------------
(* ActivateBestChainStep, spec 4.4: find the best candidate whose branch has *)
(* no failed block, disconnect to the fork, connect one block at a time.    *)

\* Blocks of b's branch that are not on the active chain, fork-side first.
BranchTo(b) == SelectSeq(PathTo(b), LAMBDA x : ~InChain(x))

\* A variant that also drops the tip itself.
PruneStrict(cands, tip) == {c \in cands : Worse(tip, c, nSequenceId)}
\* PruneBlockIndexCandidates: drop every candidate worse than the tip.
PruneBlockIndexCandidates(cands, tip) == {c \in cands : ~Worse(c, tip, nSequenceId)}

\* Index in branch of the first block whose ConnectTip fails (Len + 1: none).
ConnectStop(branch) ==
    LET badAt == {i \in 1..Len(branch) : branch[i] \in BadBlocks}
    IN  IF badAt = {} THEN Len(branch) + 1
        ELSE CHOOSE i \in badAt : \A j \in badAt : i <= j

\* A variant that connects the branch without first disconnecting to the fork.
ChainKeepOld(newTip) == chain \o BranchTo(newTip)
\* chainActive after DisconnectTip down to the fork and ConnectTip up to newTip
ChainAfterConnect(newTip) == PathTo(newTip)

ActivateBestChainStep ==
    /\ candidates # {}
    /\ LET best   == BestOf(candidates)
           branch == BranchTo(best)
           bad    == {i \in 1..Len(branch) : Failed(branch[i])}
       IN
       /\ best # Tip
       /\ IF bad # {}
          THEN \* FindMostWorkChain: the branch has a failed block; drop the
               \* candidate and mark the blocks above the highest failed one
               LET top   == CHOOSE i \in bad : \A j \in bad : j <= i
                   above == {branch[i] : i \in (top + 1)..Len(branch)}
               IN  /\ failedChild' = failedChild \cup above
                   /\ candidates' = candidates \ (above \cup {branch[top]})
                   /\ UNCHANGED <<chain, validity, failedValid, dirty>>
          ELSE LET stop   == ConnectStop(branch)
                   conn   == {branch[i] : i \in 1..(stop - 1)}
                   fork   == Parent[branch[1]]
                   newTip == IF stop = 1 THEN fork ELSE branch[stop - 1]
               IN  /\ chain' = ChainAfterConnect(newTip)
                   /\ validity' = [x \in Blocks |-> IF x \in conn THEN "scripts" ELSE validity[x]]
                   /\ IF stop > Len(branch)
                      THEN /\ candidates' = PruneBlockIndexCandidates(candidates, newTip)
                           /\ UNCHANGED <<failedValid, failedChild>>
                           /\ dirty' = dirty \cup conn
                      ELSE \* ConnectTip failed: the block and its descendants are marked
                           LET c    == branch[stop]
                               desc == {x \in Blocks : c \in AncestorsOf(x)} \ {c}
                               kept == IF stop = 1 THEN candidates
                                       ELSE PruneBlockIndexCandidates(candidates, newTip)
                           IN  /\ failedValid' = failedValid \cup {c}
                               /\ failedChild' = failedChild \cup desc
                               /\ candidates' = kept \ ({c} \cup desc)
                               /\ dirty' = dirty \cup conn \cup {c}
    /\ UNCHANGED <<haveData, nChainTx, nSequenceId, nBlockSequenceId, unlinked,
                   rpcInvalidate, rpcReconsider>>

-----------------------------------------------------------------------------

Init ==
    /\ haveData = {Genesis}
    /\ validity = [b \in Blocks |-> IF b = Genesis THEN "scripts" ELSE "tree"]
    /\ failedValid = {}
    /\ failedChild = {}
    /\ nChainTx = [b \in Blocks |-> IF b = Genesis THEN NTx ELSE 0]
    /\ nSequenceId = [b \in Blocks |-> 0]          \* blocks loaded from disk have id 0
    /\ nBlockSequenceId = 1
    /\ candidates = {Genesis}
    /\ unlinked = <<>>
    /\ chain = <<Genesis>>
    /\ dirty = {}
    /\ rpcInvalidate = 0
    /\ rpcReconsider = 0

Next ==
    \/ \E b \in Blocks : ReceivedBlockTransactions(b)
    \/ \E b \in Blocks : InvalidateBlock(b)
    \/ \E b \in Blocks : ReconsiderBlock(b)
    \/ ActivateBestChainStep

\* ProcessNewBlock and both RPCs call ActivateBestChain, which loops until
\* the tip is the best candidate: the step is weakly fair.
Spec == Init /\ [][Next]_vars /\ WF_vars(ActivateBestChainStep)

-----------------------------------------------------------------------------
(* Properties *)

TypeOK ==
    /\ haveData \subseteq Blocks /\ Genesis \in haveData
    /\ validity \in [Blocks -> Set(Levels)]
    /\ failedValid \subseteq Blocks /\ failedChild \subseteq Blocks
    /\ nChainTx \in [Blocks -> Nat] /\ nSequenceId \in [Blocks -> Nat]
    /\ candidates \subseteq Blocks /\ dirty \subseteq Blocks
    /\ \A i \in 1..Len(unlinked) : unlinked[i] \in Blocks \X Blocks
    \* chainActive is a path of the block tree from Genesis
    /\ chain = PathTo(chain[Len(chain)])

\* No block of the active chain is marked failed: invalidateblock disconnects
\* every block it marks, and FindMostWorkChain never picks a branch through
\* a failed block.  Breaking it takes an invalidation, a reconsider or a
\* failed connect interleaved with block arrivals.
ActiveChainValid ==
    \A x \in Set(chain) : ~Failed(x)

\* A linked block (nChainTx set) has its own data and the data of every
\* ancestor: FindMostWorkChain and ConnectTip rely on it.  It takes the
\* breadth-first walk over mapBlocksUnlinked to link only descendants of a
\* block that was itself linked, whatever order the data arrived in.
LinkedHasData ==
    \A x \in Blocks : nChainTx[x] > 0 => AncestorsOf(x) \subseteq haveData

\* Blocks that may be on the best chain: all data present, nothing on the
\* branch fails ConnectBlock or was invalidated.
Eligible(x) == \A a \in AncestorsOf(x) : a \in haveData /\ a \notin BadBlocks \cup failedValid

\* The nChainTx rule of CheckBlockIndex: a block with no failed ancestor
\* whose data and every ancestor's data have been processed is linked.
\* ReceivedBlockTransactions parks a block in mapBlocksUnlinked only while
\* its parent is valid; reconsiderblock can later clear the parent's flag.
ProcessedBlocksLinked ==
    \A x \in Blocks :
        (AncestorsOf(x) \subseteq haveData /\ \A a \in AncestorsOf(x) : ~Failed(a))
            => nChainTx[x] > 0

\* The candidate rule of CheckBlockIndex: a block with no failed ancestor,
\* linked (all its data and its ancestors' data processed) and at least as
\* good as the tip is in setBlockIndexCandidates.  ReceivedBlockTransactions,
\* InvalidateBlock and ReconsiderBlock each re-insert such blocks, and
\* PruneBlockIndexCandidates may only drop blocks worse than the tip.
CandidatesComplete ==
    \A x \in Blocks :
        (/\ \A a \in AncestorsOf(x) : ~Failed(a)
         /\ Rank(validity[x]) >= Rank("transactions")
         /\ nChainTx[x] > 0
         /\ ~Worse(x, Tip, nSequenceId)) => x \in candidates

\* Chain selection converges: once blocks stop arriving, the active chain
\* ends up with at least as much work as every eligible block.
EventuallyMostWork ==
    <>[](\A x \in Blocks : Eligible(x) => ChainWork[x] <= ChainWork[Tip])
=============================================================================
