# A TLA+ verification of Hyperledger Burrow

Burrow is a permissioned blockchain node. Tendermint orders transactions and
drives Burrow through ABCI; Burrow executes them against accounts, contract
storage, a name registry and a validator set, keeps that state in versioned IAVL
trees, and serves it over RPC. This directory holds TLA+ models of Burrow's
components, the TLC configurations that check them, and TLAPS proofs.

## The system's parts

| Part | Source | State | Operations | What is hard about it |
|---|---|---|---|---|
| ABCI application | `consensus/tendermint/abci/app.go` | current block, checker, committer, mempool locker | Info, InitChain, BeginBlock, CheckTx, DeliverTx, EndBlock, Commit | Commit holds the checker lock until a goroutine obtains the mempool lock; every error is a panic that stops the node |
| Private validator | `consensus/tendermint/sign_info.go`, `priv_validator_memory.go` | last signed height/round/step, sign bytes, signature | SignVote, SignProposal | re-signing after a retry, failing signer, guard lost at a restart |
| Executor | `execution/execution.go` | state cache, name cache, block execution | Execute, Commit, Reset | partial effects of a failing transaction; the order of flush, save, publish and checkpoint |
| Transaction contexts | `execution/contexts/*.go` | accounts, permissions, names, validators | Send, Call, Name, Permissions, Governance | several updates of which a later one fails; 64-bit sums |
| State and storage | `execution/state.go`, `storage/*.go` | IAVL tree and its versions, read tree, reference database | Update, Save, Load, iterators | crash between save and checkpoint; the read tree's version; commit ids keyed by hash |
| Blockchain tip | `bcm/blockchain.go` | height, app hash, validator rings, persisted checkpoint | CommitBlock, save, load | the checkpoint is of the previous block but holds the current ring |
| Validator ring | `acm/validator/*.go` | buckets of deltas and cumulative sets, flow, total power | AlterPower, Rotate, PreviousSet, Persistable, UnpersistRing | flow bound, undo of a refused change, what a restart forgets |
| Caches | `acm/state/state_cache.go`, `execution/names/cache.go` | cached entries with updated/removed flags | Get, Update, Remove, Sync, Reset, Flush | remove and re-create within a block, flush order |
| Transactor | `execution/transactor.go`, `execution/accounts.go`, `sync/ring_mutex.go` | account mutexes, subscriptions, sequence numbers | BroadcastTxSync, CheckTxSync, SignTxMempool | lock order, lock leaks, timeouts racing answers |
| Events | `event/` | subscriptions, channels | Subscribe, Publish, Unsubscribe | slow subscribers, leaked subscriptions |
| EVM | `execution/evm/` | call frames, stack, memory, gas, nested caches | opcodes, calls, natives | roll back of nested calls |
| Kernel | `core/kernel.go` | launched processes | Boot, Shutdown, Panic | restart from the checkpoint, shutdown order |
| Keys, RPC, logging, deploy, commands | `keys/`, `rpc/`, `logging/`, `deploy/`, `cmd/` | key store, servers, loggers | request handlers | mostly I/O around the parts above |

A transaction enters through the Transactor, which locks the accounts it signs
for, takes their sequence numbers from the checker's state and pushes the
transaction to the mempool; CheckTx runs it against the checker. Tendermint
delivers blocks: BeginBlock, DeliverTx for each transaction against the
committer, EndBlock, Commit. Commit flushes the committer's caches into the
state trees, saves them, publishes events, checkpoints the blockchain and
resets the checker.

## Modules

### LastSignedInfo

The double-signing guard. `lsi` is the LastSignedInfo struct. A message is its
height, round, step, block and timestamp, and its sign bytes are that record;
a signature is the sign bytes it covers, or `None` for the nil the signer
adapter returns when the signer fails. Requests run under `lsi.Lock`, so each
is one step of `SignVote` or `SignProposal`: `SignNew` (past the remembered height/round/step), `SignAgain`
(the remembered one again) and `PanicNilSignature` (the assertion in checkHRS).
Refused requests change nothing and are stuttering steps. `Restart` loses the
guard. `produced` and `answer` are history variables.

Runs, with one height, two rounds, three steps, two blocks, two timestamps, at
most three signatures and one restart. Two blocks give a conflicting message,
two timestamps the case that differs by timestamp only.

* `sign_info` (pass): no double signing within one run of the process
  (`NoDoubleSignWithinRun`), every returned signature covers its own message
  (`AnswersVerify`), the guard never moves back (`GuardOnlyAdvances`).
* `sign_info_restart` (violation): `saveSigned` is commented "Persist
  height/round/step and signature" but keeps it in memory only, so the key signs
  twice for one height/round/step after a restart.

A signer failure is saved as a nil signature and the next request for the same
height/round/step panics (`PanicNilSignature`); the model has both steps, and the
passing properties hold through them.

`LastSignedInfoProofs` proves the four passing properties for all constants.
The inductive invariant adds that everything signed since the restart is at or
before the remembered height/round/step and equals the remembered sign bytes
exactly there, and that a remembered signature covers the remembered bytes:
without these nothing relates the history of the key to what the guard compares.

No fairness is assumed; the module has no liveness property. Deadlock is not
checked because a node whose guard panicked really stops.

### ValidatorRing and RingWindow

`ValidatorRing` has the Set and the Ring of `acm/validator` as operators on
records with the fields of the Go structs: `Altered` and `Refused` are the two
outcomes of AlterPower, `Rotated` is Rotate, `Persistable` and `UnpersistRing`
the conversion through the checkpoint (Uint64 drops a sign, the trim flag and
`populated` are lost). `RingWindow` runs one ring through power changes and
rotations, with `deltas` and `cums` as history variables.

Runs, with three validators of powers 7, 5 and 0, a window of three buckets,
attempted powers 0, 2, 7 and three rotations (so that the window wraps):

* `ring_window` (pass): totals are exact sums (`TotalsExact`), cumulative sets
  have no zero entries (`CumHasNoZeros`), `Ring.power` is the sum of the buckets
  in the window (`WindowPower`), `PreviousSet` is history
  (`PreviousSetIsHistory`), one rotation moves less than a third of the power
  (`FlowBelowThird`), the ring equals itself after persistence
  (`SurvivesPersistence`).
* `ring_refusal` (violation): a refusal does not restore the flow as its comment
  says. The bound on the real flow still holds: the error is on the safe side.

The powers give a change that is accepted, one that removes a validator and one
whose flow alone reaches a third. Deadlock is not checked because rotations are
bounded.

`RingWindowProofs` proves `PreviousSetIsHistory` for all window sizes. The
invariant `Window` says that `populated` is the number of rotations up to the
window size and that the bucket d behind the head holds the set d rotations ago;
`Wrap` reduces the modular index. The other properties are about sums folded
over a set, whose proofs need induction over data; they stay with TLC.

### BlockCommit

How a block becomes durable. The disk is `roots` (the IAVL versions), `refs`
(commit ids by state hash), `blocks` (block executions), `checkpoint` (the
blockchain tip), and Tendermint's `store` and `tm`. `node` is the memory of the
process: heights, working tree, known versions, read tree, cache, and the phase
it is in. The state is the sequence number of each account, kept with the version
that wrote it, because IAVL hashes versions into its nodes; a hash is the tree
itself.

`StartFromGenesis` and `StartFromCheckpoint` are the kernel's start. `BeginBlock`,
`DeliverTx`, `UpdateState` or `UpdateStateFails`, `Publish` and `CommitBlock`
follow `executor.Commit` and `Blockchain.CommitBlock` step by step, so that
`Crash` can happen between any two of them. A transaction that does not verify is
delivered without being recorded in the block execution. `UpdateState` is one step
because `State.Update` writes one database batch. `RootsWith` and `SaveFails` are
IAVL's (a version that exists is accepted again with the same hash and refused
with another), and `DecideBlock`, `WrongAppHash`, `FinishHandshake` and `SaveState`
Tendermint's, all from the vendored code. `published`, `chain` (what a node that never restarts computes) and
`loaded` are history.

Runs, with two accounts, up to three blocks (empty ones included) and three
crashes; the pass run has 243,358 states. Two accounts let consecutive blocks touch
the same account or different ones. Three blocks are the fewest in which a
restart loads a checkpoint above genesis and has a further block to execute.

* `block_commit` (pass): the checkpoint can always be loaded (`CheckpointLoads`)
  and is at most one block behind Tendermint (`AtWorstOneBlockBack`); the
  tree a running node works on is the one on disk for its version
  (`MemoryMatchesDisk`), although a restart may find later versions there, saved
  before the crash, and replays blocks onto them; up to the first load of a
  checkpoint the node computes the app hashes of a node that never crashed
  (`AgreesUntilStateIsLoaded`); events are published only of durable blocks
  (`PublishedIsDurable`); stored block executions are the chain's, without gaps
  and with the transactions that verify only (`BlocksFollowChain`); a block in Tendermint's store is applied or the node
  halts (`StoredBlocksAreApplied`).
* `block_commit_catch_up` (violation): `RWTree.Load` points the read tree at the
  version before the one it loads. The first block replayed after such a restart
  reads stale accounts, and the node halts.
* `block_commit_hash` (violation): two blocks with the same state share one commit
  id, so the id of the earlier one is overwritten.

Fairness is weak fairness of `Start` and of the running process: an operator or a
supervisor restarts a stopped process, and a process that is up continues.
Crashes are bounded, so they cannot prevent progress for ever. "Halted" is part of
`StoredBlocksAreApplied` because of the divergence above. Deadlock is not checked:
a halted node stops.

### ValidatorHandover

The validator set between Burrow and Tendermint, on top of `ValidatorRing`.
`DeliverTx` books a governance change in the ring, `EndBlock` hands the head bucket
to Tendermint, `CommitBlock` writes the checkpoint and rotates, and `BeginBlock`
compares Tendermint's last validators with `PreviousSet(2)`; a difference ends in
phase `mismatch`, the panic of `abci.App`. `tm.vals[h]` are the validators of height
h; `LastValidators`, `PrecommitsFit`, `UpdateAccepted` and `UpdateVals` are taken from
the vendored `state/execution.go`. `Restart` loads ring and height from the checkpoint.

Runs, with validators of powers 7, 5 and 0, a window of four buckets, five blocks
of at most one change each and one restart (178,178 states). The changes add,
remove, repeat, revert, and exceed the flow. Five blocks let a change reach the
votes and leave the window.

* `handover` (pass): the comparison never stops a node that has not been
  restarted, nor a restarted one whose validators never changed
  (`ValidatorsAgree`); between blocks the next validators are Burrow's current set
  (`NextValidatorsAreCurrent`).
* `handover_replay` (violation): the checkpoint pairs the previous height with a
  ring that already holds the current block, so a replayed change can be refused
  that was accepted before.

The qualification in `ValidatorsAgree` is needed. After a validator change TLC
finds a restart that ends in `mismatch`: a replay presents the validators of
Tendermint's last applied block, not of the block being replayed. TLC also finds
that setting the power of an address that is no validator to zero makes
Tendermint reject the update (phase `rejected`).

### MempoolSigning

The path of a transaction that the node signs, and the locks it crosses. Each
client is a goroutine in `BroadcastTxSync`, with one action per point where it can
be preempted or blocked: `LockAccount`, `ReadSequence`, `Subscribe`, `EnterMempool`,
`CheckTx` or `RefuseTx`, `Unlock`, `Await` (the select on execution, timer and
context). `KeyMissing`, `SignFails` and `SubscribeFails` are the error returns; the
first two leave mutexes locked, whose owner becomes `Lost`. `Reap`, `LockMempool`,
`Commit` and `UpdateMempool` are consensus, from the vendored `state/execution.go` and
`mempool/mempool.go`, and `UnlockChecker` is the goroutine that `App.Commit` starts to
release the checker once it obtains the mempool lock.

Two assumptions are built in. Blocks are prefixes of this node's own mempool. The
ABCI client is the local one, which calls back before `CheckTxAsync` returns. Any
delivered or rechecked transaction may fail, for its sequence number or for another
reason; a client that read a sequence number which counts on it is in `disturbed`
(history). The branch of `App.Commit` without a mempool locker is not an action:
the locker is set by `consensus/tendermint/tendermint.go:76` right after the node was
made, so only blocks replayed in the handshake commit without it, before any
request is served and before anybody could wait for the checker.

Runs, with two clients, three accounts of which the first and the third share a
mutex, and two requests in total (33,772 states). The input lists have one or two
inputs, the same two in both orders, and two that share a mutex. Two requests are
the fewest in which one waits for the other, and blocks are committed at any
point between their steps.

* `mempool_signing` (pass): sequence numbers that were signed still fit at CheckTx
  unless a transaction of the same account failed since they were read
  (`SignedSequencesFit`, with the proviso of Transactor's comment); whoever can read
  the checker sees the committed state plus the whole mempool
  (`CheckerShowsMempool`); requests end (`RequestsEnd`) and commits end with the
  checker unlocked (`CommitsEnd`).
* `mempool_collision` (violation): two inputs of one transaction whose addresses
  share a mutex make the request wait for itself.

The code has waits without end, and the two liveness properties name them, so that
they say there are no others. TLC reaches each:

* `Stuck`: a request waits for a mutex in a circle of requests (two that lock in
  opposite orders, or one whose inputs share a mutex), or behind a mutex that
  `KeyMissing` or `SignFails` left locked. It stops only the requests for these
  accounts: `CommitsEnd` does not have it as an exception.
* `Overtaken`: the next commit takes the mempool lock before the goroutine that
  unlocks the checker does, and then waits for the checker. Go's mutexes hand over
  to a waiter only after it has waited for a millisecond, so nothing rules this out;
  it stops the node.

Fairness is strong fairness of each client, of consensus and of the unlocking
goroutine: a runnable goroutine runs, and Go's mutexes do not starve a waiter, so a
lock that is free again and again is obtained. The error returns are not part of
it: requests end even if nothing fails. Deadlock is not checked, because the states
above are deadlocks when no other request is left.

### BlockStore and StateCache

`BlockStore` says what a write cache promises to the code that executes
transactions: changes take effect at once and are kept or dropped as a whole. An
account that is removed cannot be written again before that, and the changes to
its storage are dropped with it while the storage it had stays. `StateCache` is the
code: entries with the account, the words read or written and the `updated` and
`removed` flags, created on the first access; `Flush` is Sync and Reset. Storage can
be set on an address that has no account. If none is made before the flush, the
state refuses it when Sync comes to it: `FlushFails` leaves the entries of lower
addresses written, that address with its storage only, and the rest untouched.
The cache is not used again afterwards (`App.Commit` panics, or the transaction
ends), so only `Reset`, which stands for a new cache, follows. Addresses are numbers
because Sync visits them in order. One cache over one state is modelled; the EVM's
stacked caches are not yet.

The run `state_cache` (pass) has two addresses, one key, two accounts and two words
(51,836 states). Addresses do not interact except through `Flush`, and neither do
keys, so more of them add no case. It checks that an entry Sync will skip says what
the state says (`CleanEntriesMirrorBackend`) and that the cache implements
`BlockStore` (`ImplementsBlockStore`). The refinement mapping is `View`, the state as
read through the cache.

No fairness is assumed; deadlock is checked.

## What is proved

TLAPS proves the following for all values of the constants.

| Module | Theorem | Statement | Assumptions used |
|---|---|---|---|
| `LastSignedInfoProofs` | `TypeCorrect`, `NoDoubleSign`, `ReturnedSignaturesVerify`, `GuardAdvances` | the four properties of `sign_info` | `SignAssumption` |
| `RingWindowProofs` | `PreviousSetCorrect` | `PreviousSetIsHistory` | `RingAssumption` |
| `StateCacheProofs` | `EntriesSound` | `TypeOK` and `CleanEntriesMirrorBackend` | `CacheAssumption` |
| `StateCacheProofs` | `CacheImplementsBlockStore` | `ImplementsBlockStore` | `CacheAssumption` |

For the cache the inductive invariant is the type together with
`CleanEntriesMirrorBackend`. Without it a flush could not be shown to keep the view:
Sync skips unmarked entries, so they must already agree with the state. Each step
that changes one entry changes the view at one address (`ViewPut`); reads leave the
view alone (`ReadKeepsView`), and how the sets of removed accounts and of orphans
follow is `SetsPut`; what Sync writes is what `BlockStore` keeps (`SyncedIsKept`), for
all addresses in a flush and for those below the refused one in a flush that fails
(`FailRefines`); an empty cache shows the state (`ViewEmpty`).

Only model-checked: liveness (`StoredBlocksAreApplied`, `RequestsEnd`,
`CommitsEnd`), which the prover does not handle under fairness; every property about
sums of powers, whose proof needs induction over data; and all of `BlockCommit`,
`ValidatorHandover` and `MempoolSigning`.

## Divergences

Each violation run shows a disagreement between the code and a comment in it.

| Run | Code | Comment it contradicts |
|---|---|---|
| `sign_info_restart` | `consensus/tendermint/sign_info.go:176` | "Persist height/round/step and signature" |
| `ring_refusal` | `acm/validator/ring.go:100` | "Reset flow to previous value to undo update above" |
| `block_commit_catch_up` | `storage/rwtree.go:42` | "Tendermint will catch us up" |
| `block_commit_hash` | `execution/state.go:216` | "a reference to load this version in the future from the state hash" |
| `handover_replay` | `bcm/blockchain.go:146` | "Checkpoint on the _previous_ block" |
| `mempool_collision` | `execution/transactor.go:174` | "unnecessary contention" |

## Plan

In order; a module below is not yet written.

1. `TxExecution`: `executor.Execute` and the five contexts; effects of a
   transaction that fails half way, conservation of balances, sequence numbers of
   a checked and of a delivered transaction.
2. `NameCache`: the name registry's cache as a second implementation of a block
   store.
3. `EvmCalls`: call frames with stacked caches, transfer, self-destruct, the error
   of a nested Sync.
4. `KVStorage`: cache database and merged iterators against a reference.
5. `PubSub`: subscriptions, slow subscribers, unsubscribing.
6. The kernel's life cycle: boot, shutdown order, panics.
7. Proofs of `BlockCommit`'s `CheckpointLoads` and `PublishedIsDurable`, and of
   `MempoolSigning`'s `SignedSequencesFit`.

## Not modelled

RPC, logging, deploy, command-line and configuration code is I/O around the
parts above. Parsers generated from grammars and protobuf code are not modelled.
Cryptography is abstracted: a signature is the message it covers.
