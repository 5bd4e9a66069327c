-------------------------- MODULE ValidatorHandover --------------------------
(***************************************************************************)
(* The validator set between Burrow and Tendermint: governance changes are *)
(* booked in the ring of bcm.Blockchain while a block is delivered,        *)
(* EndBlock hands the head bucket to Tendermint, CommitBlock checkpoints   *)
(* the ring and rotates it, and two blocks later BeginBlock compares the   *)
(* validators Tendermint reports with the ring's PreviousSet.  A restart   *)
(* loads the ring from the checkpoint and Tendermint replays blocks.       *)
(***************************************************************************)
EXTENDS ValidatorRing, Sequences

CONSTANTS Genesis,      \* a function: the initial power of each validator
          Requests,     \* the <<validator, power>> changes a GovTx may ask for
          MaxRequests,  \* bound on the changes in one block
          MaxHeight,    \* bound on the length of the chain
          MaxCrashes    \* bound on the number of crashes

VARIABLES ring,        \* Blockchain.validatorCache
          height,      \* Blockchain.lastBlockHeight
          phase,       \* where the process is within the block
          pending,     \* changes of the block not delivered yet
          outcomes,    \* whether each delivered change of the block was accepted
          checkpoint,  \* disk: height and persisted ring, saved FALSE if none
          store,       \* disk: Tendermint's blocks
          tm,          \* disk: Tendermint's height and its validators by height
          delivered,   \* history: the outcomes of each block when first executed
          crashes

tip == <<ring, height>>
vars == <<tip, phase, pending, outcomes, checkpoint, store, tm, delivered, crashes>>

GenesisSet == ChangePowers(NewTrimSet, DOMAIN Genesis, Genesis)

Init == /\ ring = NewRing(GenesisSet, WindowSize) /\ height = 0
        /\ phase = "handshake" /\ pending = <<>> /\ outcomes = <<>>
        /\ checkpoint = [saved |-> FALSE]
        /\ store = <<>> /\ tm = [height |-> 0, vals |-> <<Genesis, Genesis>>]
        /\ delivered = <<>> /\ crashes = 0
-----------------------------------------------------------------------------
(* Tendermint: vals[h] are the validators that sign height h *)

DecideBlock(block) ==
    /\ phase = "ready" /\ height = Len(store) /\ Len(store) < MaxHeight
    /\ store' = Append(store, block)
    /\ UNCHANGED <<tip, phase, pending, outcomes, checkpoint, tm, delivered, crashes>>

\* The validators in the request for block h: those of the block before the
\* last one Tendermint applied, which in a replay is not the block before h.
LastValidators == tm.vals[tm.height]

\* The sanity check of getBeginBlockValidatorInfo.
PrecommitsFit(h) == Cardinality(DOMAIN tm.vals[h - 1]) = Cardinality(DOMAIN LastValidators)

UpdateAccepted(vals, updates) ==
    \A id \in DOMAIN updates : updates[id] = 0 => id \in DOMAIN vals

UpdateVals(vals, updates) ==
    LET members == (DOMAIN vals \cup DOMAIN updates)
                     \ {id \in DOMAIN updates : updates[id] = 0}
    IN [id \in members |-> IF id \in DOMAIN updates THEN updates[id] ELSE vals[id]]
-----------------------------------------------------------------------------
(* abci.App *)

\* Count and powers of Tendermint's validators against ours.
Matches(vals, ours) == /\ Cardinality(DOMAIN vals) = Cardinality(Members(ours))
                       /\ \A id \in DOMAIN vals : vals[id] = Power(ours, id)

\* The handshake sends InitChain only while the application is at height 0.
InitChain ==
    /\ phase = "handshake"
    /\ phase' = IF height = 0 /\ ~Matches(tm.vals[tm.height + 2], Cum(ring))
                  THEN "mismatch" ELSE "ready"
    /\ UNCHANGED <<tip, pending, outcomes, checkpoint, store, tm, delivered, crashes>>

\* Mutant: the validators of the last block, not those of the one before.
BeginBlockOneBehind ==
    /\ phase = "ready" /\ height < Len(store)
    /\ LET h == height + 1
           agree == /\ PrecommitsFit(h)
                    /\ Matches(LastValidators, PreviousSet(ring, 1))
       IN phase' = IF h > 1 /\ ~agree THEN "mismatch" ELSE "deliver"
    /\ pending' = store[height + 1] /\ outcomes' = <<>>
    /\ UNCHANGED <<tip, checkpoint, store, tm, delivered, crashes>>

BeginBlock ==
    /\ phase = "ready" /\ height < Len(store)
    /\ LET h == height + 1
           agree == /\ PrecommitsFit(h)
                    /\ Matches(LastValidators, PreviousSet(ring, 2))
       IN phase' = IF h > 1 /\ ~agree THEN "mismatch" ELSE "deliver"
    /\ pending' = store[height + 1] /\ outcomes' = <<>>
    /\ UNCHANGED <<tip, checkpoint, store, tm, delivered, crashes>>

\* A GovTx with one validator change; a refused one books its flow too.
DeliverTx ==
    /\ phase = "deliver" /\ pending # <<>>
    /\ LET id == Head(pending)[1]
           power == Head(pending)[2]
           accepted == ValidPower(power) /\ FlowAllowed(ring, id, power)
       IN /\ ring' = IF accepted THEN Altered(ring, id, power)
                     ELSE IF ValidPower(power) THEN Refused(ring, id, power) ELSE ring
          /\ outcomes' = Append(outcomes, accepted)
    /\ pending' = Tail(pending)
    /\ UNCHANGED <<height, phase, checkpoint, store, tm, delivered, crashes>>

\* EndBlock returns the head bucket.  Only ApplyBlock, for a block Tendermint
\* has not applied yet, puts it into the validators of the height after next.
EndBlock ==
    /\ phase = "deliver" /\ pending = <<>>
    /\ IF height < tm.height
         THEN /\ phase' = "commit" /\ UNCHANGED <<tm, delivered>>
         ELSE LET next == tm.vals[tm.height + 2]
                  updates == HeadDelta(ring).powers
              IN IF UpdateAccepted(next, updates)
                   THEN /\ tm' = [tm EXCEPT !.vals = Append(SubSeq(@, 1, tm.height + 2),
                                                            UpdateVals(next, updates))]
                        /\ phase' = "commit"
                        /\ delivered' = IF Len(delivered) > height THEN delivered
                                        ELSE Append(delivered, outcomes)
                   ELSE phase' = "rejected" /\ UNCHANGED <<tm, delivered>>
    /\ UNCHANGED <<tip, pending, outcomes, checkpoint, store, crashes>>

\* CommitBlock: the previous height is saved with the ring as it is now, then
\* the ring rotates.
CommitBlock ==
    /\ phase = "commit"
    /\ checkpoint' = [saved |-> TRUE, height |-> height, ring |-> Persistable(ring)]
    /\ ring' = Rotated(ring) /\ height' = height + 1
    /\ phase' = IF height < tm.height THEN "ready" ELSE "committed"
    /\ UNCHANGED <<pending, outcomes, store, tm, delivered, crashes>>

SaveState ==
    /\ phase = "committed"
    /\ tm' = [tm EXCEPT !.height = @ + 1]
    /\ phase' = "ready"
    /\ UNCHANGED <<tip, pending, outcomes, checkpoint, store, delivered, crashes>>

\* The process dies and is started again: LoadOrNewBlockchain.
Restart ==
    /\ crashes < MaxCrashes /\ crashes' = crashes + 1
    /\ IF checkpoint.saved
         THEN ring' = UnpersistRing(checkpoint.ring) /\ height' = checkpoint.height
         ELSE ring' = NewRing(GenesisSet, WindowSize) /\ height' = 0
    /\ phase' = "handshake" /\ pending' = <<>> /\ outcomes' = <<>>
    /\ UNCHANGED <<checkpoint, store, tm, delivered>>

Blocks == UNION {[1..n -> Requests] : n \in 0..MaxRequests}

Next == \/ \E block \in Blocks : DecideBlock(block)
        \/ InitChain \/ BeginBlock \/ DeliverTx \/ EndBlock \/ CommitBlock \/ SaveState
        \/ Restart

Spec == Init /\ [][Next]_vars
-----------------------------------------------------------------------------
IsVals(vals) == DOMAIN vals \subseteq Validators /\ \A id \in DOMAIN vals : vals[id] \in 1..MaxPower

TypeOK ==
    /\ height \in 0..Len(store) /\ Len(store) <= MaxHeight
    /\ phase \in {"handshake", "ready", "deliver", "commit", "committed", "mismatch", "rejected"}
    /\ ring.head \in 0..(WindowSize - 1) /\ ring.size = WindowSize
    /\ tm.height \in 0..Len(store) /\ Len(tm.vals) \in (tm.height + 2)..(MaxHeight + 2)
    /\ \A h \in 1..Len(tm.vals) : IsVals(tm.vals[h])
    /\ Len(outcomes) <= MaxRequests

\* "Tendermint runs a block behind with the validators passed in here": the
\* comparisons in BeginBlock and InitChain never stop a node that has not been
\* restarted, whatever was changed, repeated or refused in the two blocks
\* between EndBlock and the votes, nor a restarted one whose validators never
\* changed.
ValidatorsAgree ==
    phase = "mismatch" => crashes > 0 /\ \E h \in 1..Len(tm.vals) : tm.vals[h] # Genesis

\* Between blocks the validators Tendermint will use next are exactly Burrow's
\* current set: no update of EndBlock is lost or applied twice.
NextValidatorsAreCurrent ==
    phase = "ready" /\ height = tm.height /\ crashes = 0
        => Matches(tm.vals[tm.height + 2], Cum(ring))

\* "Checkpoint on the _previous_ block. If we die, this is where we will resume"
\* (CommitBlock): a replayed block has the outcomes it had the first time,
\* which Tendermint commits to in the results hash of the next header.
ReplayRepeatsOutcomes == phase = "commit" => outcomes = delivered[height + 1]
=============================================================================
