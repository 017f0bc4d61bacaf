-------------------------------- MODULE Flush --------------------------------
(***************************************************************************)
(* The persistent-state flush controller of src/src/main.cpp and the block *)
(* file allocation it coordinates with, under cs_main and cs_LastBlockFile.*)
(*                                                                         *)
(*   AcceptBlock        FindBlockPos, WriteBlockToDisk and the index part  *)
(*                      of ReceivedBlockTransactions (the AcceptBlock      *)
(*                      driver lives outside src/)                         *)
(*   ConnectBlock       ConnectTip: the coin cache moves to the block and  *)
(*                      its index entry is raised to BLOCK_VALID_SCRIPTS   *)
(*   FlushStateToDisk   one call in one of the three FlushStateModes       *)
(*   Tick               wall-clock time passes                             *)
(*   Restart            the process exits after StartShutdown and starts   *)
(*                      again; what it wrote to the OS survives            *)
(*   Crash              power loss at any point between two critical       *)
(*                      sections; unsynced file data is lost               *)
(*                                                                         *)
(* Memory holds the block index (level and file of each entry), the dirty  *)
(* sets, vinfoBlockFile, nLastBlockFile and the coin cache; the disk holds *)
(* the block files, the block-index database and the coin database.  The   *)
(* chain is linear: block b extends b-1, block 0 is genesis, always known. *)
(* Every block is one size unit long.                                      *)
(***************************************************************************)
EXTENDS Integers, FiniteSets

CONSTANTS
    NBlocks,          \* blocks 1..NBlocks after genesis
    NFiles,           \* block files 0..NFiles-1 (model bound on blk?????.dat)
    MaxFileSize,      \* MAX_BLOCKFILE_SIZE, in block units
    ChunkSize,        \* BLOCKFILE_CHUNK_SIZE, in block units
    CoinCacheUsage,   \* nCoinCacheUsage, in connected blocks' worth of coins
    WriteInterval,    \* DATABASE_WRITE_INTERVAL, in ticks
    FlushInterval,    \* DATABASE_FLUSH_INTERVAL, in ticks
    DiskMayFill,      \* whether CheckDiskSpace may report low space
    BatchMayFail,     \* whether pblocktree->WriteBatchSync may fail
    SyncMayFail,      \* whether FlushBlockFile may fail to open the file it commits
    CoinFlushMayFail  \* whether pcoinsTip->Flush may fail

ASSUME NBlocks \in Nat \ {0} /\ NFiles \in Nat \ {0}
ASSUME MaxFileSize \in Nat /\ MaxFileSize >= 2 /\ ChunkSize \in Nat \ {0}
ASSUME {CoinCacheUsage, WriteInterval, FlushInterval} \subseteq Nat
ASSUME {DiskMayFill, BatchMayFail, SyncMayFail, CoinFlushMayFail} \subseteq BOOLEAN

Blocks == 1..NBlocks
Files == 0..NFiles-1
Modes == {"IF_NEEDED", "PERIODIC", "ALWAYS"}   \* FlushStateMode
AgeCap == IF WriteInterval > FlushInterval THEN WriteInterval + 1 ELSE FlushInterval + 1

VARIABLES
    \* process memory
    idxLevel,          \* [Blocks -> 0..2]: 0 unknown, 1 BLOCK_HAVE_DATA|VALID_TRANSACTIONS, 2 VALID_SCRIPTS
    idxFile,           \* [Blocks -> Files], CBlockIndex::nFile
    setDirtyBlockIndex,
    setDirtyFileInfo,
    vinfoSize,         \* [Files -> Nat], vinfoBlockFile[f].nSize
    nLastBlockFile,
    coinsBest,         \* pcoinsTip->GetBestBlock(), also the tip of chainActive
    cacheSize,         \* pcoinsTip->DynamicMemoryUsage()
    started,           \* nLastWrite, nLastFlush and nLastSetChain are no longer 0
    sinceWrite,        \* nNow - nLastWrite, saturating at AgeCap
    sinceFlush,        \* nNow - nLastFlush
    sinceSetChain,     \* nNow - nLastSetChain
    shutdown,          \* StartShutdown was called
    \* disk
    synced,            \* [Files -> SUBSET Blocks], block data committed to the medium
    buffered,          \* [Files -> SUBSET Blocks], block data written but not yet committed
    diskLevel,         \* block-index database: level of each entry
    diskFile,          \* block-index database: nFile of each entry
    diskSize,          \* block-index database: file info sizes
    diskLastFile,      \* block-index database: last block file
    diskBest,          \* coin database best block
    walletBest         \* best block recorded by the wallet (SetBestChain)

memVars == <<idxLevel, idxFile, setDirtyBlockIndex, setDirtyFileInfo, vinfoSize,
             nLastBlockFile, coinsBest, cacheSize, started, sinceWrite,
             sinceFlush, sinceSetChain, shutdown>>
diskVars == <<synced, buffered, diskLevel, diskFile, diskSize, diskLastFile,
              diskBest, walletBest>>
vars == <<memVars, diskVars>>

-----------------------------------------------------------------------------
(* Block file allocation *)

SizeOf(f) == IF f \in Files THEN vinfoSize[f] ELSE 0   \* vinfoBlockFile.resize gives empty files

\* a mutant: the block always goes to the current file
FileForNoSkip(f) == f

\* FindBlockPos: skip every file the block does not fit in
RECURSIVE FileFor(_)
FileFor(f) == IF SizeOf(f) + 1 >= MaxFileSize THEN FileFor(f + 1) ELSE f

Chunks(size) == (size + ChunkSize - 1) \div ChunkSize

\* a mutant: leaving a block file never commits it
FinalizeNever(old, new) == FALSE

\* FindBlockPos calls FlushBlockFile(!fKnown) when it leaves nLastBlockFile
FinalizeOnSwitch(old, new) == old # new

\* FlushBlockFile(f): open the file and FileCommit it; a file that fails to
\* open is skipped silently.  Returns the new <<synced, buffered>>.
FlushBlockFile(f, opened) ==
    IF opened
    THEN <<[synced EXCEPT ![f] = @ \cup buffered[f]], [buffered EXCEPT ![f] = {}]>>
    ELSE <<synced, buffered>>

OpenResults == IF SyncMayFail THEN BOOLEAN ELSE {TRUE}
SpaceResults == IF DiskMayFill THEN BOOLEAN ELSE {TRUE}   \* CheckDiskSpace

\* AbortNode: warn the user and StartShutdown
AbortNode == shutdown' = TRUE

AcceptBlock(b) ==
    LET nFile == FileFor(nLastBlockFile)
        pos == SizeOf(nFile)
        commit == FinalizeOnSwitch(nLastBlockFile, nFile)
    IN
    /\ ~shutdown
    /\ idxLevel[b] = 0
    /\ nFile \in Files
    /\ \E opened \in OpenResults, space \in SpaceResults :
        LET files == IF commit THEN FlushBlockFile(nLastBlockFile, opened) ELSE <<synced, buffered>>
            spaceOk == Chunks(pos + 1) > Chunks(pos) => space
        IN
        /\ nLastBlockFile' = nFile
        /\ vinfoSize' = [vinfoSize EXCEPT ![nFile] = @ + 1]
        /\ synced' = files[1]
        /\ IF spaceOk
           THEN \* setDirtyFileInfo, WriteBlockToDisk, ReceivedBlockTransactions
                /\ setDirtyFileInfo' = setDirtyFileInfo \cup {nFile}
                /\ buffered' = [files[2] EXCEPT ![nFile] = @ \cup {b}]
                /\ idxLevel' = [idxLevel EXCEPT ![b] = 1]
                /\ idxFile' = [idxFile EXCEPT ![b] = nFile]
                /\ setDirtyBlockIndex' = setDirtyBlockIndex \cup {b}
                /\ UNCHANGED shutdown
           ELSE \* "out of disk space": CheckDiskSpace has aborted
                /\ buffered' = files[2]
                /\ AbortNode
                /\ UNCHANGED <<setDirtyFileInfo, idxLevel, idxFile, setDirtyBlockIndex>>
    /\ UNCHANGED <<coinsBest, cacheSize, started, sinceWrite, sinceFlush, sinceSetChain,
                   diskLevel, diskFile, diskSize, diskLastFile, diskBest, walletBest>>

\* ConnectTip of the next block: it is read back from its file, its coins
\* enter the cache, and RaiseValidity(BLOCK_VALID_SCRIPTS) dirties its entry.
ConnectBlock(b) ==
    /\ ~shutdown
    /\ b = coinsBest + 1
    /\ idxLevel[b] >= 1
    /\ b \in synced[idxFile[b]] \cup buffered[idxFile[b]]
    /\ coinsBest' = b
    /\ cacheSize' = cacheSize + 1
    /\ idxLevel' = [idxLevel EXCEPT ![b] = 2]
    /\ setDirtyBlockIndex' = setDirtyBlockIndex \cup {b}
    /\ UNCHANGED <<idxFile, setDirtyFileInfo, vinfoSize, nLastBlockFile, started,
                   sinceWrite, sinceFlush, sinceSetChain, shutdown, diskVars>>

-----------------------------------------------------------------------------
(* FlushStateToDisk *)

\* a mutant: the nLastWrite == 0 guard dropped, so the timers restart on every call
SinceReset(age) == 0

\* the static timers are set to nNow on the first call after startup
Since(age) == IF started THEN age ELSE 0

\* a mutant: only the periodic write persists the block index
WritesIndexPeriodicOnly(fDoFullFlush, fPeriodicWrite) == fPeriodicWrite

\* blocks and block index are written on a full flush or a periodic write
WritesIndex(fDoFullFlush, fPeriodicWrite) == fDoFullFlush \/ fPeriodicWrite

\* the points at which the call returns early, in the order they are reached
Stage == [space1 |-> 1, batch |-> 2, space2 |-> 3, coins |-> 4, none |-> 5]

FlushStateToDisk(mode) ==
    LET fCacheLarge    == mode = "PERIODIC" /\ cacheSize * 10 > CoinCacheUsage * 9
        fCacheCritical == mode = "IF_NEEDED" /\ cacheSize > CoinCacheUsage
        fPeriodicWrite == mode = "PERIODIC" /\ Since(sinceWrite) > WriteInterval
        fPeriodicFlush == mode = "PERIODIC" /\ Since(sinceFlush) > FlushInterval
        fDoFullFlush   == mode = "ALWAYS" \/ fCacheLarge \/ fCacheCritical \/ fPeriodicFlush
        fWrite         == WritesIndex(fDoFullFlush, fPeriodicWrite)
        fSetChain      == fDoFullFlush \/ (mode \in {"ALWAYS", "PERIODIC"}
                                           /\ Since(sinceSetChain) > WriteInterval)
        \* the early returns this call can take
        Failures == {"none"}
                    \cup (IF fWrite /\ DiskMayFill THEN {"space1"} ELSE {})
                    \cup (IF fWrite /\ BatchMayFail THEN {"batch"} ELSE {})
                    \cup (IF fDoFullFlush /\ DiskMayFill THEN {"space2"} ELSE {})
                    \cup (IF fDoFullFlush /\ CoinFlushMayFail THEN {"coins"} ELSE {})
    IN
    \E fail \in Failures, opened \in OpenResults :
        LET passed(s) == Stage[fail] > Stage[s]
            erased    == fWrite /\ passed("space1")   \* dirty sets moved into the batch
            written   == fWrite /\ passed("batch")
            flushed   == fDoFullFlush /\ passed("coins")
            setChain  == fSetChain /\ fail = "none"
            files     == IF erased THEN FlushBlockFile(nLastBlockFile, opened)
                         ELSE <<synced, buffered>>
        IN
        /\ started' = TRUE
        /\ synced' = files[1]
        /\ buffered' = files[2]
        /\ setDirtyBlockIndex' = IF erased THEN {} ELSE setDirtyBlockIndex
        /\ setDirtyFileInfo' = IF erased THEN {} ELSE setDirtyFileInfo
        \* WriteBatchSync(vFiles, nLastBlockFile, vBlocks)
        /\ diskLevel' = IF written THEN [b \in Blocks |-> IF b \in setDirtyBlockIndex
                                                       THEN idxLevel[b] ELSE diskLevel[b]]
                        ELSE diskLevel
        /\ diskFile' = IF written THEN [b \in Blocks |-> IF b \in setDirtyBlockIndex
                                                     THEN idxFile[b] ELSE diskFile[b]]
                       ELSE diskFile
        /\ diskSize' = IF written THEN [f \in Files |-> IF f \in setDirtyFileInfo
                                                    THEN vinfoSize[f] ELSE diskSize[f]]
                       ELSE diskSize
        /\ diskLastFile' = IF written THEN nLastBlockFile ELSE diskLastFile
        /\ sinceWrite' = IF written THEN 0 ELSE Since(sinceWrite)
        \* pcoinsTip->Flush()
        /\ diskBest' = IF flushed THEN coinsBest ELSE diskBest
        /\ cacheSize' = IF flushed THEN 0 ELSE cacheSize
        /\ sinceFlush' = IF flushed THEN 0 ELSE Since(sinceFlush)
        \* GetMainSignals().SetBestChain(chainActive.GetLocator())
        /\ walletBest' = IF setChain THEN coinsBest ELSE walletBest
        /\ sinceSetChain' = IF setChain THEN 0 ELSE Since(sinceSetChain)
        /\ shutdown' = (shutdown \/ fail # "none")
        /\ UNCHANGED <<idxLevel, idxFile, vinfoSize, nLastBlockFile, coinsBest>>

-----------------------------------------------------------------------------
(* Time, restart and crash *)

Tick ==
    /\ started
    /\ \E s \in {sinceWrite, sinceFlush, sinceSetChain} : s < AgeCap
    /\ sinceWrite' = IF sinceWrite < AgeCap THEN sinceWrite + 1 ELSE AgeCap
    /\ sinceFlush' = IF sinceFlush < AgeCap THEN sinceFlush + 1 ELSE AgeCap
    /\ sinceSetChain' = IF sinceSetChain < AgeCap THEN sinceSetChain + 1 ELSE AgeCap
    /\ UNCHANGED <<idxLevel, idxFile, setDirtyBlockIndex, setDirtyFileInfo, vinfoSize,
                   nLastBlockFile, coinsBest, cacheSize, started, shutdown, diskVars>>

\* LoadBlockIndex and the coin view start from what the databases hold
Reload ==
    /\ idxLevel' = diskLevel
    /\ idxFile' = diskFile
    /\ vinfoSize' = diskSize
    /\ nLastBlockFile' = diskLastFile
    /\ coinsBest' = diskBest
    /\ setDirtyBlockIndex' = {}
    /\ setDirtyFileInfo' = {}
    /\ cacheSize' = 0
    /\ started' = FALSE
    /\ sinceWrite' = 0
    /\ sinceFlush' = 0
    /\ sinceSetChain' = 0
    /\ shutdown' = FALSE
    /\ UNCHANGED <<diskLevel, diskFile, diskSize, diskLastFile, diskBest, walletBest>>

\* after StartShutdown the process exits; data handed to the OS reaches the disk
Restart ==
    /\ shutdown
    /\ synced' = [f \in Files |-> synced[f] \cup buffered[f]]
    /\ buffered' = [f \in Files |-> {}]
    /\ Reload

\* power loss: data not yet committed is lost
Crash ==
    /\ buffered' = [f \in Files |-> {}]
    /\ UNCHANGED synced
    /\ Reload

-----------------------------------------------------------------------------

Init ==
    /\ idxLevel = [b \in Blocks |-> 0]
    /\ idxFile = [b \in Blocks |-> 0]
    /\ setDirtyBlockIndex = {}
    /\ setDirtyFileInfo = {}
    /\ vinfoSize = [f \in Files |-> 0]
    /\ nLastBlockFile = 0
    /\ coinsBest = 0
    /\ cacheSize = 0
    /\ started = FALSE
    /\ sinceWrite = 0
    /\ sinceFlush = 0
    /\ sinceSetChain = 0
    /\ shutdown = FALSE
    /\ synced = [f \in Files |-> {}]
    /\ buffered = [f \in Files |-> {}]
    /\ diskLevel = [b \in Blocks |-> 0]
    /\ diskFile = [b \in Blocks |-> 0]
    /\ diskSize = [f \in Files |-> 0]
    /\ diskLastFile = 0
    /\ diskBest = 0
    /\ walletBest = 0

Next ==
    \/ \E b \in Blocks : AcceptBlock(b) \/ ConnectBlock(b)
    \/ \E mode \in Modes : FlushStateToDisk(mode)
    \/ Tick
    \/ Restart
    \/ Crash

\* FLUSH_STATE_PERIODIC is called from the message-handler loop again and
\* again, time passes, and a requested shutdown completes.
Spec == Init /\ [][Next]_vars
        /\ WF_vars(FlushStateToDisk("PERIODIC")) /\ WF_vars(Tick) /\ WF_vars(Restart)

-----------------------------------------------------------------------------
(* Properties *)

TypeOK ==
    /\ idxLevel \in [Blocks -> 0..2] /\ diskLevel \in [Blocks -> 0..2]
    /\ idxFile \in [Blocks -> Files] /\ diskFile \in [Blocks -> Files]
    /\ setDirtyBlockIndex \subseteq Blocks /\ setDirtyFileInfo \subseteq Files
    /\ vinfoSize \in [Files -> 0..MaxFileSize] /\ diskSize \in [Files -> 0..MaxFileSize]
    /\ nLastBlockFile \in Files /\ diskLastFile \in Files
    /\ {coinsBest, diskBest, walletBest, cacheSize} \subseteq 0..NBlocks
    /\ {sinceWrite, sinceFlush, sinceSetChain} \subseteq 0..AgeCap
    /\ started \in BOOLEAN /\ shutdown \in BOOLEAN
    /\ synced \in [Files -> SUBSET Blocks] /\ buffered \in [Files -> SUBSET Blocks]

\* Crash safety of the write order in FlushStateToDisk: the block index is
\* written before the coin database, so whenever the process stops, every
\* block up to the coin database's best block has an entry in the on-disk
\* block index and LoadBlockIndex can set the tip.
CoinsBestIndexed == \A b \in 1..diskBest : diskLevel[b] >= 1

\* FlushBlockFile commits the block file before the index batch, and
\* FindBlockPos commits a file before leaving it: the on-disk block index
\* never points at block data a power loss can take away.
IndexedDataDurable ==
    \A b \in Blocks : diskLevel[b] >= 1 => b \in synced[diskFile[b]]

\* The periodic flush persists every change to the block index: an entry
\* that is newer in memory than on disk is eventually on disk as it is in
\* memory (or memory is reloaded from disk).
EventuallyPersisted ==
    \A b \in Blocks : (idxLevel[b] > diskLevel[b]) ~> (idxLevel[b] = diskLevel[b])

====
