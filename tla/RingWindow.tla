----------------------------- MODULE RingWindow -----------------------------
(***************************************************************************)
(* One validator ring as the block executor uses it: power changes within  *)
(* a block, then a rotation when the block is committed.  cums remembers   *)
(* the validator set after every rotation, so that the window can be       *)
(* compared with what really happened.                                     *)
(***************************************************************************)
EXTENDS ValidatorRing, Sequences

CONSTANTS Genesis,       \* a function: the initial power of each validator
          Powers,        \* powers that transactions try to set
          MaxRotations   \* bound on the number of blocks

VARIABLES ring,    \* the Ring
          deltas,  \* history: the delta bucket of every rotation so far
          cums     \* history: the powers in force after every rotation

vars == <<ring, deltas, cums>>

GenesisSet == ChangePowers(NewTrimSet, DOMAIN Genesis, Genesis)

Init == /\ ring = NewRing(GenesisSet, WindowSize)
        /\ deltas = <<>>
        /\ cums = <<Cum(ring).powers>>

AlterPower(id, power) ==
    /\ ValidPower(power) /\ FlowAllowed(ring, id, power)
    /\ ring' = Altered(ring, id, power)
    /\ UNCHANGED <<deltas, cums>>

RefusePower(id, power) ==
    /\ ValidPower(power) /\ ~FlowAllowed(ring, id, power)
    /\ ring' = Refused(ring, id, power)
    /\ UNCHANGED <<deltas, cums>>

Rotate ==
    /\ Len(deltas) < MaxRotations
    /\ ring' = Rotated(ring)
    /\ deltas' = Append(deltas, HeadDelta(ring).powers)
    /\ cums' = Append(cums, Cum(ring').powers)

Next == \/ \E id \in Validators, power \in Powers :
             AlterPower(id, power) \/ RefusePower(id, power)
        \/ Rotate

Spec == Init /\ [][Next]_vars
-----------------------------------------------------------------------------
IsSet(s) ==
    /\ Members(s) \subseteq Validators
    /\ \A id \in Members(s) : s.powers[id] \in Int
    /\ s.total \in Int /\ s.trim \in BOOLEAN

TypeOK ==
    /\ ring.size = WindowSize
    /\ ring.head \in 0..(WindowSize - 1)
    /\ ring.populated \in 0..WindowSize
    /\ DOMAIN ring.delta = 0..(WindowSize - 1) /\ DOMAIN ring.cum = 0..(WindowSize - 1)
    /\ \A i \in 0..(WindowSize - 1) : IsSet(ring.delta[i]) /\ IsSet(ring.cum[i])
    /\ IsSet(ring.power) /\ IsSet(ring.flow)

\* ChangePower keeps totalPower beside the powers: through acceptances,
\* refusals that rewrite the flow twice, copies and rotations every total is
\* the sum of the powers it stands for (MaxFlow and the flow test rely on it).
TotalsExact ==
    /\ \A i \in DOMAIN ring.delta : /\ ring.delta[i].total = SumOfPowers(ring.delta[i])
                                    /\ ring.cum[i].total = SumOfPowers(ring.cum[i])
    /\ ring.power.total = SumOfPowers(ring.power)
    /\ ring.flow.total = SumOfPowers(ring.flow)

\* "Important that this is trim set for accurate count" (NewRing): a
\* cumulative set never has an entry without power, so that its Count, which
\* BeginBlock compares with Tendermint's, counts the validators.
CumHasNoZeros ==
    \A i \in DOMAIN ring.cum : \A id \in Members(ring.cum[i]) : ring.cum[i].powers[id] > 0

\* "Totals for each validator across all buckets": Ring.power is the sum of
\* the buckets still in the window, neither counting a bucket twice nor
\* keeping one that rotated out.
InWindow == {i \in 1..Len(deltas) : i > Len(deltas) - (WindowSize - 1)}
PowerIn(powers, id) == IF id \in DOMAIN powers THEN powers[id] ELSE 0

WindowPower ==
    \A id \in Validators :
        Power(ring.power, id) = MapThenSumSet(LAMBDA i : PowerIn(deltas[i], id), InWindow)

\* PreviousSet(delay) is the validator set that was in force delay rotations
\* ago, or the genesis set when there were fewer, for every delay the window
\* can hold.
PreviousSetIsHistory ==
    \A delay \in 0..(WindowSize - 1) :
        LET ago == Len(cums) - delay
        IN PreviousSet(ring, delay).powers = cums[IF ago < 1 THEN 1 ELSE ago]

\* The purpose of MaxFlow: the sum of what the validators gain and lose in one
\* rotation stays below a third of the power before it, however many changes
\* were made, changed again, and refused in that block.
TotalOf(powers) == SumFunction(powers)
FlowBetween(old, new) ==
    MapThenSumSet(LAMBDA id : AbsoluteValue(PowerIn(new, id) - PowerIn(old, id)), Validators)

FlowBelowThird ==
    \A i \in 1..(Len(cums) - 1) :
        LET flow == FlowBetween(cums[i], cums[i + 1])
        IN flow = 0 \/ 3 * flow < TotalOf(cums[i])

\* Ring.Equal after a round trip through the checkpoint: what AlterPower and
\* Rotate can produce survives Uint64 and the loss of the trim flags.
SurvivesPersistence == RingEqual(UnpersistRing(Persistable(ring)), ring)

\* "Reset flow to previous value to undo update above" (AlterPower): a step
\* that neither rotates nor changes the head bucket leaves the flow of every
\* validator as it was.
RefusalLeavesFlow ==
    [][ring'.head = ring.head /\ HeadDelta(ring') = HeadDelta(ring)
         => \A id \in Validators : Power(ring'.flow, id) = Power(ring.flow, id)]_vars
=============================================================================
