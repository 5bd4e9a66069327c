----------------------------- MODULE BlockCommit -----------------------------
(***************************************************************************)
(* How a block becomes durable, and what a restart makes of it: the        *)
(* executor's Commit, the state tree with its read tree (RWTree over IAVL),*)
(* commit ids kept by state hash, the checkpoint of the previous block in  *)
(* the blockchain tip, the kernel loading them, and Tendermint replaying   *)
(* the blocks that are missing.                                            *)
(*                                                                         *)
(* The state is the sequence number of every account; a transaction names  *)
(* an account and the sequence number it must move to, and verifies or     *)
(* does not.  A tree keeps with every leaf the version that wrote it, as   *)
(* IAVL's node hash does, so the hash of a tree is the tree itself.        *)
(***************************************************************************)
EXTENDS Integers, Sequences, FiniteSets, Functions, TLC

CONSTANTS Accounts,
          EmptyBlocks,  \* whether Tendermint makes blocks without transactions
          MaxHeight,    \* bound on the length of the chain
          MaxCrashes    \* bound on the number of crashes

ASSUME CommitAssumption == /\ EmptyBlocks \in BOOLEAN
                           /\ MaxHeight \in Nat /\ MaxCrashes \in Nat

VARIABLES
    roots,       \* disk: the saved tree of every version, 1..Len(roots)
    refs,        \* disk: commit ids, from state hash to version and height
    blocks,      \* disk: the block executions by height
    checkpoint,  \* disk: height and app hash of the blockchain tip; none saved is height 0
    store,       \* disk: Tendermint's block store
    tm,          \* disk: Tendermint's state, the last height applied and its app hash
    node,        \* the memory of the process, or Down
    published,   \* history: heights whose events were published
    chain,       \* history: app hashes of a node that never restarts
    loaded,      \* history: some restart loaded the state from a checkpoint
    crashes

disk == <<roots, refs, blocks, checkpoint>>
vars == <<disk, store, tm, node, published, chain, loaded, crashes>>

\* The hash of the genesis document, which no tree has.
GenesisHash == [a \in Accounts |-> [seq |-> 0, version |-> 0]]
GenesisTree == [a \in Accounts |-> [seq |-> 0, version |-> 1]]
NoCheckpoint == [height |-> 0, appHash |-> GenesisHash]
Down == [phase |-> "down"]
Halted == [phase |-> "halted"]

-----------------------------------------------------------------------------
(* The state tree *)

\* Flushing the caches into the working tree of the version being written.
Written(tree, cache, version) ==
    [a \in Accounts |-> IF a \in DOMAIN cache THEN [seq |-> cache[a], version |-> version]
                        ELSE tree[a]]

\* IAVL SaveVersion: a version known to exist may only be saved again with the
\* same hash; a root that exists but is not known is silently left in place.
SaveFails(tree, version, known) == version \in known /\ roots[version] # tree

RootsWith(tree, version) == IF version = Len(roots) + 1 THEN Append(roots, tree) ELSE roots

\* Mutant: the read tree stays one version behind.
ReadTreeAfterSaveLagging(version) == roots'[IF version = 1 THEN 1 ELSE version - 1]

\* RWTree.Save points the read tree at the root just saved.
ReadTreeAfterSave(version) == roots'[version]

\* RWTree.Load points it at the version before the one it loads.
ReadTreeAfterLoad(version) == roots[version - 1]

\* Mutant: the reference names the version before the save.
RefsWithOldVersion(tree, version, height) ==
    (tree :> [version |-> version - 1, height |-> height]) @@ refs

\* Mutant: the reference names the version after the save.
RefsWithNextVersion(tree, version, height) ==
    (tree :> [version |-> version + 1, height |-> height]) @@ refs

\* writeState.commit: the reference to load this version from its hash.
RefsWith(tree, version, height) ==
    (tree :> [version |-> version, height |-> height]) @@ refs

\* Mutant: the block execution is left out of the batch.
BlocksWithout(height, txExecutions) == blocks

\* writeState.AddBlock.
BlocksWith(height, txExecutions) == (height :> txExecutions) @@ blocks

-----------------------------------------------------------------------------
(* Starting the process *)

Memory(height, appHash, tree, version, known, readTree) ==
    [phase |-> "ready", handshake |-> TRUE,
     height |-> height, appHash |-> appHash,
     tree |-> tree, version |-> version, known |-> known, readTree |-> readTree,
     stateHeight |-> 0, exeHeight |-> height + 1,
     cache |-> <<>>, pending |-> {}, txExecutions |-> {}]

\* MakeGenesisState, run whenever the checkpoint is at height 0.
StartFromGenesis ==
    /\ checkpoint.height = 0
    /\ roots' = RootsWith(GenesisTree, 1)
    /\ refs' = RefsWith(GenesisTree, 1, 0)
    /\ node' = Memory(0, GenesisHash, GenesisTree, 1, {1}, ReadTreeAfterSave(1))
    /\ UNCHANGED <<blocks, checkpoint, loaded>>

Loadable(hash) == hash \in DOMAIN refs /\ refs[hash].version \in 2..Len(roots)

\* Mutant: loading a version does not make the other ones known.
StartFromCheckpointAlone ==
    /\ checkpoint.height > 0
    /\ IF Loadable(checkpoint.appHash)
         THEN LET v == refs[checkpoint.appHash].version
              IN node' = Memory(checkpoint.height, checkpoint.appHash, roots[v], v,
                                {v}, ReadTreeAfterLoad(v))
         ELSE node' = Halted
    /\ loaded' = TRUE
    /\ UNCHANGED disk

\* LoadBlockchain and LoadState.
StartFromCheckpoint ==
    /\ checkpoint.height > 0
    /\ IF Loadable(checkpoint.appHash)
         THEN LET v == refs[checkpoint.appHash].version
              IN node' = Memory(checkpoint.height, checkpoint.appHash, roots[v], v,
                                1..Len(roots), ReadTreeAfterLoad(v))
         ELSE node' = Halted
    /\ loaded' = TRUE
    /\ UNCHANGED disk

Start == /\ node = Down
         /\ StartFromGenesis \/ StartFromCheckpoint
         /\ UNCHANGED <<store, tm, published, chain, crashes>>

\* The power goes, or a panic ended the process: memory is lost.
Crash == /\ node # Down /\ crashes < MaxCrashes
         /\ crashes' = crashes + 1
         /\ node' = Down
         /\ UNCHANGED <<disk, store, tm, published, chain, loaded>>

-----------------------------------------------------------------------------
(* Tendermint *)

ChainTree(height) == IF height = 0 THEN GenesisTree ELSE chain[height]
ChainHash(height) == IF height = 0 THEN GenesisHash ELSE chain[height]

Synced == /\ node.phase = "ready" /\ ~node.handshake
          /\ node.height = Len(store) /\ tm.height = Len(store)

\* Consensus decides the next block.  Those of its transactions that verify are
\* valid for a node that never restarted, whose app hash the next header will
\* carry.
DecideBlock(accounts, signed) ==
    /\ Synced /\ tm.appHash = ChainHash(tm.height)
    /\ Len(store) < MaxHeight
    /\ accounts # {} \/ EmptyBlocks
    /\ LET tree == ChainTree(Len(store))
           tx(a) == [account |-> a, seq |-> tree[a].seq + 1, signed |-> a \in signed]
       IN /\ store' = Append(store, {tx(a) : a \in accounts})
          /\ chain' = Append(chain, Written(tree, [a \in signed |-> tx(a).seq], Len(store) + 2))
    /\ UNCHANGED <<disk, tm, node, published, loaded, crashes>>

\* A header with another app hash than the one this node computed.
WrongAppHash ==
    /\ Synced /\ tm.appHash # ChainHash(tm.height)
    /\ node' = Halted
    /\ UNCHANGED <<disk, store, tm, published, chain, loaded, crashes>>

\* The end of the handshake.  If only blocks Tendermint had already applied
\* were replayed, their app hash must be the one it remembers.
FinishHandshake ==
    /\ node.phase = "ready" /\ node.handshake /\ node.height = Len(store)
    /\ node' = IF node.appHash = tm.appHash THEN [node EXCEPT !.handshake = FALSE] ELSE Halted
    /\ UNCHANGED <<disk, store, tm, published, chain, loaded, crashes>>

\* ApplyBlock ends by saving Tendermint's state.
SaveState ==
    /\ node.phase = "committed"
    /\ tm' = [height |-> node.height, appHash |-> node.appHash]
    /\ node' = [node EXCEPT !.phase = "ready"]
    /\ UNCHANGED <<disk, store, published, chain, loaded, crashes>>

-----------------------------------------------------------------------------
(* Executing and committing a block *)

BeginBlock ==
    /\ node.phase = "ready" /\ node.height < Len(store)
    /\ node' = [node EXCEPT !.phase = "deliver", !.pending = store[node.height + 1]]
    /\ UNCHANGED <<disk, store, tm, published, chain, loaded, crashes>>

Sequence(a) == IF a \in DOMAIN node.cache THEN node.cache[a] ELSE node.readTree[a].seq

\* Mutant: the execution is recorded before the signatures are verified.
DeliverTxRecordFirst(tx) ==
    /\ node.phase = "deliver" /\ tx \in node.pending
    /\ node' = [node EXCEPT
                  !.pending = @ \ {tx},
                  !.txExecutions = @ \cup {tx},
                  !.cache = IF tx.signed /\ tx.seq = Sequence(tx.account) + 1
                              THEN (tx.account :> tx.seq) @@ @ ELSE @]
    /\ UNCHANGED <<disk, store, tm, published, chain, loaded, crashes>>

\* executor.Execute: a transaction that does not verify leaves no trace.  Of
\* the others the execution is recorded before the sequence number is checked;
\* only one with the next number changes the cache.
DeliverTx(tx) ==
    /\ node.phase = "deliver" /\ tx \in node.pending
    /\ node' = [node EXCEPT
                  !.pending = @ \ {tx},
                  !.txExecutions = IF tx.signed THEN @ \cup {tx} ELSE @,
                  !.cache = IF tx.signed /\ tx.seq = Sequence(tx.account) + 1
                              THEN (tx.account :> tx.seq) @@ @ ELSE @]
    /\ UNCHANGED <<disk, store, tm, published, chain, loaded, crashes>>

HeightsFollow == /\ node.exeHeight = node.height + 1
                 /\ node.stateHeight = 0 \/ node.exeHeight = node.stateHeight + 1

NewTree == Written(node.tree, node.cache, node.version + 1)

\* State.Update in executor.Commit: caches, block execution, new tree version
\* and its commit id reach the disk in one batch.
UpdateState ==
    /\ node.phase = "deliver" /\ node.pending = {}
    /\ HeightsFollow /\ ~SaveFails(NewTree, node.version + 1, node.known)
    /\ roots' = RootsWith(NewTree, node.version + 1)
    /\ refs' = RefsWith(NewTree, node.version + 1, node.exeHeight)
    /\ blocks' = BlocksWith(node.exeHeight, node.txExecutions)
    /\ node' = [node EXCEPT !.phase = "saved", !.tree = NewTree, !.version = @ + 1,
                           !.known = @ \cup {node.version + 1},
                           !.readTree = ReadTreeAfterSave(node.version + 1),
                           !.stateHeight = node.exeHeight, !.exeHeight = @ + 1,
                           !.cache = <<>>, !.txExecutions = {}]
    /\ UNCHANGED <<checkpoint, store, tm, published, chain, loaded, crashes>>

\* Commit returned an error, which abci.App turns into a panic.
UpdateStateFails ==
    /\ node.phase = "deliver" /\ node.pending = {}
    /\ ~HeightsFollow \/ SaveFails(NewTree, node.version + 1, node.known)
    /\ node' = Halted
    /\ UNCHANGED <<disk, store, tm, published, chain, loaded, crashes>>

\* Mutant: a block published before the crash is not published again.
PublishOnce ==
    /\ node.phase = "saved" /\ node.stateHeight \notin published
    /\ published' = published \cup {node.stateHeight}
    /\ node' = [node EXCEPT !.phase = "published"]
    /\ UNCHANGED <<disk, store, tm, chain, loaded, crashes>>

Publish ==
    /\ node.phase = "saved"
    /\ published' = published \cup {node.stateHeight}
    /\ node' = [node EXCEPT !.phase = "published"]
    /\ UNCHANGED <<disk, store, tm, chain, loaded, crashes>>

\* Mutant: nothing is checkpointed for a block that changed nothing.
CommitBlockOnChange ==
    /\ node.phase = "published"
    /\ checkpoint' = IF node.tree = node.appHash THEN checkpoint
                     ELSE [height |-> node.height, appHash |-> node.appHash]
    /\ node' = [node EXCEPT !.height = @ + 1, !.appHash = node.tree,
                           !.phase = IF node.height + 1 > tm.height THEN "committed" ELSE "ready"]
    /\ UNCHANGED <<roots, refs, blocks, store, tm, published, chain, loaded, crashes>>

\* Blockchain.CommitBlock: the tip of the previous block is saved, then the tip
\* moves to this one.  Only a block Tendermint has not applied yet is followed
\* by SaveState.
CommitBlock ==
    /\ node.phase = "published"
    /\ checkpoint' = [height |-> node.height, appHash |-> node.appHash]
    /\ node' = [node EXCEPT !.height = @ + 1, !.appHash = node.tree,
                           !.phase = IF node.height + 1 > tm.height THEN "committed" ELSE "ready"]
    /\ UNCHANGED <<roots, refs, blocks, store, tm, published, chain, loaded, crashes>>

Init == /\ roots = <<>> /\ refs = <<>> /\ blocks = <<>> /\ checkpoint = NoCheckpoint
        /\ store = <<>> /\ tm = [height |-> 0, appHash |-> GenesisHash]
        /\ node = Down
        /\ published = {} /\ chain = <<>> /\ loaded = FALSE /\ crashes = 0

Executing == \/ FinishHandshake \/ BeginBlock
             \/ \E tx \in node.pending : DeliverTx(tx)
             \/ UpdateState \/ UpdateStateFails \/ Publish \/ CommitBlock \/ SaveState

Running == node.phase \notin {"down", "halted"}

Next == \/ Start \/ Crash
        \/ Running /\ (\/ Executing \/ WrongAppHash
                       \/ \E accounts \in SUBSET Accounts : \E signed \in SUBSET accounts :
                            DecideBlock(accounts, signed))

\* A process that is up keeps executing and a stopped one is started again.
Fairness == WF_vars(Start) /\ WF_vars(Running /\ Executing)

Spec == Init /\ [][Next]_vars /\ Fairness
-----------------------------------------------------------------------------
Tree == [Accounts -> [seq : 0..MaxHeight, version : Nat]]
Phases == {"ready", "deliver", "saved", "published", "committed", "down", "halted"}

TypeOK ==
    /\ roots \in Seq(Tree)
    /\ DOMAIN refs \subseteq Tree
    /\ \A hash \in DOMAIN refs : /\ refs[hash].version \in 1..Len(roots)
                                 /\ refs[hash].height \in 0..MaxHeight
    /\ checkpoint \in [height : 0..MaxHeight, appHash : Tree]
    /\ tm \in [height : 0..MaxHeight, appHash : Tree]
    /\ node.phase \in Phases
    /\ Running => /\ node.height \in 0..Len(store) /\ node.appHash \in Tree
                  /\ node.tree \in Tree /\ node.readTree \in Tree
                  /\ node.version \in 1..Len(roots)
    /\ published \subseteq 1..MaxHeight

\* "we know the previous app hash is safely committed because we are about to
\* commit the next": whatever the checkpoint names can be loaded, at every
\* moment the process can die, however often it has died before.
CheckpointLoads ==
    checkpoint.height > 0 => /\ Loadable(checkpoint.appHash)
                             /\ roots[refs[checkpoint.appHash].version] = checkpoint.appHash

\* "At worst we go back one block": the checkpoint a restart resumes from is
\* never more than one block behind the last block Tendermint applied.
AtWorstOneBlockBack == checkpoint.height >= tm.height - 1

\* The state a running node holds is the one on disk under its version.  A
\* replayed block saves a version that a crash left behind, and the database
\* keeps the old root without a word unless it knows the version: so a replay
\* never goes on from a state that differs from what it believes it saved.
MemoryMatchesDisk == Running => roots[node.version] = node.tree

\* As long as no restart loaded a checkpoint above height 0, and so also after
\* crashes during the first blocks and their replay from the genesis document,
\* the node computes the app hash of a node that never crashed.
AgreesUntilStateIsLoaded ==
    ~loaded => /\ tm.appHash = ChainHash(tm.height)
               /\ Running => node.appHash = ChainHash(node.height)

\* "Now state is committed publish events": subscribers never see a block whose
\* execution a crash can still take from the database.
PublishedIsDurable == published \subseteq DOMAIN blocks

\* The block executions on disk are those of the chain, from height 1 without a
\* gap, whatever was replayed: of every block the transactions that verify.
BlocksFollowChain ==
    /\ DOMAIN blocks = 1..Cardinality(DOMAIN blocks)
    /\ \A h \in DOMAIN blocks : blocks[h] = {tx \in store[h] : tx.signed}

\* Every block in Tendermint's store is eventually applied, through crashes and
\* restarts, unless the node halts with a panic.
StoredBlocksAreApplied ==
    \A h \in 1..MaxHeight : Len(store) >= h ~> (tm.height >= h \/ node.phase = "halted")

\* "If we fall over we can resume a safe committed state and Tendermint will
\* catch us up" (CommitBlock): no restart ends in a panic.
RestartCatchesUp == node.phase # "halted"

\* "Provide a reference to load this version in the future from the state hash"
\* (writeState.commit): the commit id under the checkpointed hash is the one of
\* the checkpointed block.
HashNamesItsVersion ==
    checkpoint.height > 0 => refs[checkpoint.appHash].height = checkpoint.height
=============================================================================
