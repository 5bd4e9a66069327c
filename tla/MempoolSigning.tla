--------------------------- MODULE MempoolSigning ---------------------------
(***************************************************************************)
(* The path of a transaction that the node signs for its clients, and the  *)
(* locks it crosses: the account mutexes of execution/accounts.go and      *)
(* sync/ring_mutex.go, the checker's lock of abci/app.go, and Tendermint's *)
(* mempool lock.  Clients run Transactor.BroadcastTxSync concurrently with *)
(* one another and with Tendermint committing blocks.                      *)
(*                                                                         *)
(* A transaction is the accounts it spends from and the sequence number it *)
(* carries for each.  Blocks hold a prefix of this node's mempool.  A      *)
(* transaction may fail, when delivered or rechecked, for other reasons    *)
(* than its sequence numbers.  The local ABCI client calls back before     *)
(* CheckTxAsync returns, so the timer of CheckTxSyncRaw ends only the wait *)
(* for a transaction the mempool dropped unchecked, which is a refusal.    *)
(***************************************************************************)
EXTENDS Naturals, Sequences, SequencesExt

CONSTANTS Clients,       \* goroutines serving BroadcastTxSync
          Accounts,
          MutexCount,    \* AccountsRingMutexCount
          AddressHash,   \* an account's first eight bytes as a number
          InputLists,    \* the input lists that clients ask for
          Free,          \* the owner of a lock that nobody holds
          Lost,          \* the owner of a mutex whose request returned without unlocking it
          MaxRequests    \* bound on the requests

ASSUME SigningAssumption ==
  /\ MutexCount \in Nat \ {0}
  /\ AddressHash \in [Accounts -> Nat]
  /\ InputLists \subseteq Seq(Accounts) \ {<<>>}
  /\ Free \notin Clients /\ Lost \notin Clients \cup {Free}
  /\ MaxRequests \in Nat

VARIABLES
  pc,            \* where each client is in BroadcastTxSync
  inputs,        \* the inputs of its transaction
  seqs,          \* the sequence numbers it has set so far
  requests,      \* how many requests have been made
  mutexes,       \* the owner of each account mutex
  subscribed,    \* subscriptions each client has open
  mempoolLock,   \* the owner of Tendermint's mempool lock
  checkerLocked, \* the checker's write lock is held
  observing,     \* the goroutine started by Commit waits for the mempool lock
  commitPc,      \* where Tendermint is in committing a block
  block,         \* the block being committed
  mempool,       \* the mempool's transactions in order
  check,         \* the sequence numbers in the checker's cache
  committed,     \* the sequence numbers in the committed state
  disturbed      \* history: clients whose numbers count on a transaction that failed since

client == <<pc, inputs, seqs, requests, mutexes, subscribed>>
node == <<mempoolLock, checkerLocked, observing, commitPc, block, mempool, check, committed>>
vars == <<client, node, disturbed>>

index(a) == AddressHash[a] % MutexCount

Indices == {index(a) : a \in Accounts}

\* The transaction a client has signed.
Tx(c) == [inputs |-> inputs[c], seqs |-> seqs[c]]

\* A transaction passes the sequence check of every input against a state.
Fits(tx, state) ==
  \A i \in DOMAIN tx.inputs : tx.seqs[i] = state[tx.inputs[i]] + 1

\* The state after executing a transaction.
Spent(tx, state) ==
  [a \in Accounts |-> IF a \in ToSet(tx.inputs) THEN state[a] + 1 ELSE state[a]]

\* Executing transactions in order, in a block or in a recheck: those that do
\* not fail, for a sequence number or as one of bad, and the state they leave.
Execute(txs, state, bad) ==
  FoldLeft(LAMBDA r, tx : IF tx \notin bad /\ Fits(tx, r.state)
                          THEN [state |-> Spent(tx, r.state), good |-> Append(r.good, tx)]
                          ELSE r,
           [state |-> state, good |-> <<>>], txs)

\* The clients with a sequence number read, and not yet in the mempool, for an
\* account of a transaction that failed.
Disturbed(failed) ==
  disturbed \cup
    {c \in Clients : /\ pc[c] \in {"lock", "read", "sign", "submit"}
                    /\ \E tx \in failed, i \in DOMAIN seqs[c] : inputs[c][i] \in ToSet(tx.inputs)}

Init ==
  /\ pc = [c \in Clients |-> "idle"]
  /\ inputs = [c \in Clients |-> <<>>]
  /\ seqs = [c \in Clients |-> <<>>]
  /\ requests = 0
  /\ mutexes = [i \in Indices |-> Free]
  /\ subscribed = [c \in Clients |-> 0]
  /\ mempoolLock = Free
  /\ checkerLocked = FALSE
  /\ observing = FALSE
  /\ commitPc = "idle"
  /\ block = <<>>
  /\ mempool = <<>>
  /\ check = [a \in Accounts |-> 0]
  /\ committed = [a \in Accounts |-> 0]
  /\ disturbed = {}
-----------------------------------------------------------------------------
(* A client in BroadcastTxSync *)

\* BroadcastTxSync returns and its envelope is gone.
Return(c) ==
  /\ inputs' = [inputs EXCEPT ![c] = <<>>]
  /\ seqs' = [seqs EXCEPT ![c] = <<>>]
  /\ pc' = [pc EXCEPT ![c] = "idle"]
  /\ disturbed' = disturbed \ {c}

\* The input whose account is being locked and read.
Current(c) == inputs[c][Len(seqs[c]) + 1]

BroadcastTxSync(c, list) ==
  /\ pc[c] = "idle"
  /\ requests < MaxRequests
  /\ pc' = [pc EXCEPT ![c] = "lock"]
  /\ inputs' = [inputs EXCEPT ![c] = list]
  /\ requests' = requests + 1
  /\ UNCHANGED <<seqs, mutexes, subscribed, node, disturbed>>

\* ssa.Lock takes the mutex of the input's account.
LockAccount(c) ==
  /\ pc[c] = "lock"
  /\ mutexes[index(Current(c))] = Free
  /\ mutexes' = [mutexes EXCEPT ![index(Current(c))] = c]
  /\ pc' = [pc EXCEPT ![c] = "read"]
  /\ UNCHANGED <<inputs, seqs, requests, subscribed, node, disturbed>>

\* A request that returns without calling unlock() leaves its mutexes locked.
Leaked(c) == [i \in Indices |-> IF mutexes[i] = c THEN Lost ELSE mutexes[i]]

\* The key service has no key for the input, or fails: ssa.Lock releases the
\* mutex just taken and the request fails.  Those of the inputs before it are
\* not released.
KeyMissing(c) ==
  /\ pc[c] = "read"
  /\ mutexes' = [Leaked(c) EXCEPT ![index(Current(c))] = Free]
  /\ Return(c)
  /\ UNCHANGED <<requests, subscribed, node>>

\* The getter reads the account from the checker, under its read lock, and
\* the input is given the next sequence number.
ReadSequence(c) ==
  /\ pc[c] = "read"
  /\ ~checkerLocked
  /\ seqs' = [seqs EXCEPT ![c] = Append(@, check[Current(c)] + 1)]
  /\ pc' = [pc EXCEPT ![c] = IF Len(seqs'[c]) = Len(inputs[c]) THEN "sign" ELSE "lock"]
  /\ UNCHANGED <<inputs, requests, mutexes, subscribed, node, disturbed>>

\* txEnv.Sign fails: nothing is unlocked.
SignFails(c) ==
  /\ pc[c] = "sign"
  /\ mutexes' = Leaked(c)
  /\ Return(c)
  /\ UNCHANGED <<requests, subscribed, node>>

\* Mutant: only the first input's mutex is released.
UnlockedFirst(c) == [mutexes EXCEPT ![index(inputs[c][1])] = Free]

\* unlock() releases every input's mutex.
Unlocked(c) ==
  [i \in Indices |-> IF \E a \in ToSet(inputs[c]) : index(a) = i THEN Free ELSE mutexes[i]]

\* Subscribe fails: the deferred unlock() releases the mutexes.
SubscribeFails(c) ==
  /\ pc[c] = "sign"
  /\ mutexes' = Unlocked(c)
  /\ Return(c)
  /\ UNCHANGED <<requests, subscribed, node>>

\* Mutants: the subscription is not made; the locks are released once signed.
SubscribeSkipped(c) ==
  /\ pc[c] = "sign"
  /\ pc' = [pc EXCEPT ![c] = "submit"]
  /\ UNCHANGED <<inputs, seqs, requests, mutexes, subscribed, node, disturbed>>

SubscribeUnlocked(c) ==
  /\ pc[c] = "sign"
  /\ pc' = [pc EXCEPT ![c] = "submit"]
  /\ mutexes' = [i \in Indices |-> IF mutexes[i] = c THEN Free ELSE mutexes[i]]
  /\ subscribed' = [subscribed EXCEPT ![c] = @ + 1]
  /\ UNCHANGED <<inputs, seqs, requests, node, disturbed>>

\* The transaction is signed and, before it is pushed, its execution subscribed
\* to.
Subscribe(c) ==
  /\ pc[c] = "sign"
  /\ pc' = [pc EXCEPT ![c] = "submit"]
  /\ subscribed' = [subscribed EXCEPT ![c] = @ + 1]
  /\ UNCHANGED <<inputs, seqs, requests, mutexes, node, disturbed>>

\* Mempool.CheckTx takes the mempool lock.
EnterMempool(c) ==
  /\ pc[c] = "submit"
  /\ mempoolLock = Free
  /\ mempoolLock' = c
  /\ pc' = [pc EXCEPT ![c] = "check"]
  /\ UNCHANGED <<inputs, seqs, requests, mutexes, subscribed,
                 checkerLocked, observing, commitPc, block, mempool, check, committed, disturbed>>

\* App.CheckTx accepts: the checker's cache is updated, the transaction is
\* pushed and the mempool unlocked.
CheckTx(c) ==
  /\ pc[c] = "check"
  /\ Fits(Tx(c), check)
  /\ check' = Spent(Tx(c), check)
  /\ mempool' = Append(mempool, Tx(c))
  /\ mempoolLock' = Free
  /\ pc' = [pc EXCEPT ![c] = "accepted"]
  /\ UNCHANGED <<inputs, seqs, requests, mutexes, subscribed,
                 checkerLocked, observing, commitPc, block, committed, disturbed>>

\* Mempool.CheckTx or App.CheckTx refuses, for a sequence number or for any
\* other reason, or CheckTxSync failed to validate or to encode.
RefuseTx(c) ==
  /\ pc[c] = "check"
  /\ mempoolLock' = Free
  /\ pc' = [pc EXCEPT ![c] = "refused"]
  /\ UNCHANGED <<inputs, seqs, requests, mutexes, subscribed,
                 checkerLocked, observing, commitPc, block, mempool, check, committed, disturbed>>

\* A refused request returns at once and keeps its subscription: UnsubscribeAll
\* is deferred only afterwards.
Unlock(c) ==
  /\ \/ /\ pc[c] = "accepted"
        /\ pc' = [pc EXCEPT ![c] = "wait"]
        /\ UNCHANGED <<inputs, seqs, disturbed>>
     \/ /\ pc[c] = "refused"
        /\ Return(c)
  /\ mutexes' = Unlocked(c)
  /\ UNCHANGED <<requests, subscribed, node>>

\* The select ends: the execution arrives, or the timer or the context is done.
Await(c) ==
  /\ pc[c] = "wait"
  /\ Return(c)
  /\ subscribed' = [subscribed EXCEPT ![c] = @ - 1]
  /\ UNCHANGED <<requests, mutexes, node>>
-----------------------------------------------------------------------------
(* Tendermint's consensus, and the goroutine that Commit starts *)

\* A proposal is reaped from the mempool under its lock, and decided.
Reap ==
  /\ commitPc = "idle"
  /\ mempoolLock = Free
  /\ \E n \in 0..Len(mempool) : block' = SubSeq(mempool, 1, n)
  /\ commitPc' = "deliver"
  /\ UNCHANGED <<client, mempoolLock, checkerLocked, observing, mempool, check, committed, disturbed>>

\* BlockExecutor.Commit takes the mempool lock for the whole commit phase.  It
\* may do so before the goroutine of the commit before, which has waited for it.
LockMempool ==
  /\ commitPc = "deliver"
  /\ mempoolLock = Free
  /\ mempoolLock' = "consensus"
  /\ commitPc' = "commit"
  /\ UNCHANGED <<client, checkerLocked, observing, block, mempool, check, committed, disturbed>>

\* The committer commits what DeliverTx executed, and the checker's cache is reset.
Deliver ==
  \E bad \in SUBSET ToSet(block) :
    LET delivered == Execute(block, committed, bad)
    IN /\ committed' = delivered.state
       /\ check' = delivered.state
       /\ disturbed' = Disturbed(ToSet(block) \ ToSet(delivered.good))

\* Mutants: the checker is unlocked when Commit returns; nobody unlocks it.
CommitUnlocks ==
  /\ commitPc = "commit"
  /\ Deliver
  /\ commitPc' = "update"
  /\ UNCHANGED <<client, mempoolLock, checkerLocked, observing, block, mempool>>

CommitUnobserved ==
  /\ commitPc = "commit"
  /\ checkerLocked' = TRUE
  /\ Deliver
  /\ commitPc' = "update"
  /\ UNCHANGED <<client, mempoolLock, observing, block, mempool>>

\* App.Commit: lock the checker, commit the block and publish its executions,
\* reset the checker's cache; a goroutine is left to unlock the checker.  During
\* the handshake, before any client is served, there is no mempool locker and
\* Commit itself unlocks the checker, which nobody sees.
Commit ==
  /\ commitPc = "commit"
  /\ ~checkerLocked
  /\ checkerLocked' = TRUE
  /\ Deliver
  /\ observing' = TRUE
  /\ commitPc' = "update"
  /\ UNCHANGED <<client, mempoolLock, block, mempool>>

\* Mempool.Update drops the block's transactions and those that now fail in the
\* recheck; the commit phase ends.
UpdateMempool ==
  LET left == SelectSeq(mempool, LAMBDA tx : tx \notin ToSet(block))
  IN /\ commitPc = "update"
     /\ \E bad \in SUBSET ToSet(left) :
          LET rechecked == Execute(left, check, bad)
          IN /\ mempool' = rechecked.good
             /\ check' = rechecked.state
             /\ disturbed' = Disturbed(ToSet(left) \ ToSet(rechecked.good))
     /\ block' = <<>>
     /\ mempoolLock' = Free
     /\ commitPc' = "idle"
     /\ UNCHANGED <<client, checkerLocked, observing, committed>>

\* The goroutine obtains the mempool lock, unlocks the checker and releases it.
UnlockChecker ==
  /\ observing
  /\ mempoolLock = Free
  /\ observing' = FALSE
  /\ checkerLocked' = FALSE
  /\ UNCHANGED <<client, mempoolLock, commitPc, block, mempool, check, committed, disturbed>>
-----------------------------------------------------------------------------
Step(c) ==
  \/ LockAccount(c) \/ ReadSequence(c) \/ Subscribe(c) \/ EnterMempool(c)
  \/ CheckTx(c) \/ RefuseTx(c) \/ Unlock(c) \/ Await(c)

Fail(c) == KeyMissing(c) \/ SignFails(c) \/ SubscribeFails(c)

Consensus == Reap \/ LockMempool \/ Commit \/ UpdateMempool

Next ==
  \/ \E c \in Clients : Step(c) \/ Fail(c) \/ \E list \in InputLists : BroadcastTxSync(c, list)
  \/ Consensus \/ UnlockChecker

\* A goroutine that can run does run, and Go's mutexes do not starve a waiter:
\* a lock that is free again and again is obtained.  Each goroutine has at most
\* one lock to obtain at a time.  Nothing fails of necessity: a request must end
\* even if the key service, signing and subscribing never fail.
Fairness ==
  /\ \A c \in Clients : SF_vars(Step(c))
  /\ SF_vars(Consensus)
  /\ SF_vars(UnlockChecker)

Spec == Init /\ [][Next]_vars /\ Fairness
-----------------------------------------------------------------------------
TypeOK ==
  /\ pc \in [Clients -> {"idle", "lock", "read", "sign", "submit", "check",
                         "accepted", "refused", "wait"}]
  /\ inputs \in [Clients -> InputLists \cup {<<>>}]
  /\ \A c \in Clients : seqs[c] \in Seq(Nat) /\ Len(seqs[c]) <= Len(inputs[c])
  /\ requests \in 0..MaxRequests
  /\ mutexes \in [Indices -> Clients \cup {Free, Lost}]
  /\ subscribed \in [Clients -> Nat]
  /\ mempoolLock \in Clients \cup {Free, "consensus"}
  /\ checkerLocked \in BOOLEAN /\ observing \in BOOLEAN
  /\ commitPc \in {"idle", "deliver", "commit", "update"}
  /\ \A tx \in ToSet(mempool) \cup ToSet(block) : tx.inputs \in InputLists
  /\ check \in [Accounts -> Nat] /\ committed \in [Accounts -> Nat]
  /\ disturbed \subseteq Clients

\* The sequence numbers a client signs are still the next ones when its
\* transaction reaches CheckTx, whatever other clients submit and whatever is
\* committed and rechecked in between, "provided these transactions are
\* successfully committed" (Transactor): unless one for the same account failed
\* in a block or in a recheck after the number was read.
SignedSequencesFit ==
  \A c \in Clients : pc[c] = "check" /\ c \notin disturbed => Fits(Tx(c), check)

\* Whoever can read the checker sees the committed state with every
\* transaction of the mempool applied, and all of them can be: Commit keeps the
\* checker locked from its reset until the recheck has replayed the mempool.
CheckerShowsMempool ==
  ~checkerLocked => Execute(mempool, committed, {}) = [state |-> check, good |-> mempool]

\* A client that waits for an account mutex for ever: in a circle of clients
\* each of which waits for a mutex of the next, itself included, or behind a
\* mutex that nobody will unlock.
Stuck(c) ==
  \E circle \in SUBSET Clients :
    /\ c \in circle
    /\ \A d \in circle : pc[d] = "lock" /\ mutexes[index(Current(d))] \in circle \cup {Lost}

\* A commit that was faster to take the mempool lock than the goroutine that
\* the commit before left to unlock the checker.
Overtaken == observing /\ checkerLocked /\ commitPc = "commit"

\* Every request comes to an end, through commits, rechecks and failures of the
\* key service, unless it is stuck behind an account mutex or a commit was
\* overtaken: nothing else makes it wait for ever for an account, the checker
\* or the mempool.
RequestsEnd ==
  \A c \in Clients : (pc[c] # "idle") ~> (pc[c] = "idle" \/ Stuck(c) \/ Overtaken)

\* Every block decided is committed and the checker unlocked after it, whatever
\* becomes of the requests, unless a commit was overtaken: Commit waits for the
\* checker while it holds the mempool lock, and the goroutine that unlocks the
\* checker waits for the mempool lock.
CommitsEnd ==
  /\ (commitPc = "deliver") ~> (commitPc = "idle" \/ Overtaken)
  /\ checkerLocked ~> (~checkerLocked \/ Overtaken)

\* RingMutex's comment: two addresses with one mutex cost "unnecessary
\* contention".  So no client waits for a mutex that it holds itself.
CollisionIsContention ==
  \A c \in Clients : pc[c] = "lock" => mutexes[index(Current(c))] # c
=============================================================================
