--------------------------- MODULE ValidatorRing ---------------------------
(***************************************************************************)
(* acm/validator: the Set of validator powers and the Ring that keeps a    *)
(* sliding window of changes to it, as operators on their values.          *)
(*                                                                         *)
(* A Set is its powers (a function on the validators it has an entry for), *)
(* the total that ChangePower maintains beside them, and the trim flag.  A *)
(* validator's public key and its address are one identity.  Iterating a   *)
(* Set visits each validator once, so folding changes over it is written   *)
(* without the iteration order.  Powers are big.Ints; the Int64 bound of   *)
(* AlterPower is MaxPower.                                                 *)
(***************************************************************************)
EXTENDS Integers, FiniteSetsExt, TLC, Functions

CONSTANTS Validators,  \* the identities that may ever hold power
          WindowSize,  \* buckets in a ring, DefaultValidatorsWindowSize in bcm
          MaxPower     \* the largest power that fits Tendermint's Int64

ASSUME RingAssumption == WindowSize \in Nat \ {0} /\ MaxPower \in Nat

----------------------------------------------------------------------------
(* Set *)

NewSet == [powers |-> <<>>, total |-> 0, trim |-> FALSE]
NewTrimSet == [NewSet EXCEPT !.trim = TRUE]

Members(s) == DOMAIN s.powers
Power(s, id) == IF id \in Members(s) THEN s.powers[id] ELSE 0
SumOfPowers(s) == SumFunction(s.powers)

\* Mutant: the total is increased by the new power, not by the change.
ChangePowerGrossTotal(s, id, power) ==
    [s EXCEPT !.total = @ + power, !.powers = (id :> power) @@ @]

\* Mutant: entries with zero power stay in a trim set.
ChangePowerKeepZero(s, id, power) ==
    [s EXCEPT !.total = @ + power - Power(s, id), !.powers = (id :> power) @@ @]

ChangePower(s, id, power) ==
    [s EXCEPT !.total = @ + power - Power(s, id),
              !.powers = IF s.trim /\ power = 0 THEN Restrict(@, DOMAIN @ \ {id})
                         ELSE (id :> power) @@ @]

\* ChangePower(s, id, change[id]) for every id of ids, one after another: the
\* loop that Alter, Add, Subtract and Copy run over a Set.
ChangePowers(s, ids, change) ==
    FoldSet(LAMBDA id, acc : ChangePower(acc, id, change[id]), s, ids)

Alter(s, other) == ChangePowers(s, Members(other), other.powers)

Add(s, other) ==
    ChangePowers(s, Members(other),
                 [id \in Members(other) |-> Power(s, id) + other.powers[id]])

Subtract(s, other) ==
    ChangePowers(s, Members(other),
                 [id \in Members(other) |-> Power(s, id) - other.powers[id]])

Copy(s) == Alter(NewSet, s)
CopyTrim(s) == [Copy(s) EXCEPT !.trim = TRUE]

\* Set.Equal: as many entries, and the same power for each entry of the first.
SetEqual(s, t) ==
    /\ Cardinality(Members(s)) = Cardinality(Members(t))
    /\ \A id \in Members(s) : Power(t, id) = s.powers[id]

----------------------------------------------------------------------------
(* Ring *)

\* Mutant: one bucket too few is allocated.
NewRingOneShort(initial, size) ==
    [delta |-> [i \in 0..(size - 2) |-> NewSet],
     cum |-> [i \in 0..(size - 2) |-> IF i = 0 THEN Copy(initial) ELSE NewTrimSet],
     power |-> NewSet, flow |-> NewSet, head |-> 0, size |-> size, populated |-> 0]

NewRing(initial, size) ==
    [delta |-> [i \in 0..(size - 1) |-> NewSet],
     cum |-> [i \in 0..(size - 1) |-> IF i = 0 THEN Copy(initial) ELSE NewTrimSet],
     power |-> NewSet, flow |-> NewSet, head |-> 0, size |-> size, populated |-> 0]

index(r, i) == (r.size + r.head + i) % r.size

HeadDelta(r) == r.delta[r.head]
NextDelta(r) == r.delta[index(r, 1)]
Cum(r) == r.cum[r.head]

AbsoluteValue(n) == IF n < 0 THEN -n ELSE n

Flow(r, id, power) == AbsoluteValue(power - Power(Cum(r), id))

\* Mutant: a third of the total may flow.
MaxFlowWholeThird(r) == Cum(r).total \div 3

MaxFlow(r) == Cum(r).total \div 3 - 1

\* The flow bookkeeping of AlterPower before it decides.
WithFlow(r, id, power) == [r EXCEPT !.flow = ChangePower(@, id, Flow(r, id, power))]

FlowAllowed(r, id, power) == WithFlow(r, id, power).flow.total <= MaxFlow(r)

ValidPower(power) == power >= 0 /\ power <= MaxPower

\* AlterPower when it returns no error.
Altered(r, id, power) ==
    [WithFlow(r, id, power) EXCEPT !.delta[r.head] = ChangePower(@, id, power)]

\* AlterPower when the flow is too large: the flow of id is recomputed from the
\* head bucket, in which an id that has not changed in this block counts as 0.
Refused(r, id, power) ==
    [WithFlow(r, id, power) EXCEPT
        !.flow = ChangePower(@, id, Flow(r, id, Power(HeadDelta(r), id)))]

\* Mutant: the bucket that leaves the window is not subtracted.
RotatedKeepTail(r) ==
    LET h == index(r, 1)
    IN [r EXCEPT !.power = Add(@, HeadDelta(r)),
                 !.head = h,
                 !.delta[h] = NewSet,
                 !.cum[h] = Alter(CopyTrim(Cum(r)), HeadDelta(r)),
                 !.flow = NewSet,
                 !.populated = IF @ < r.size THEN @ + 1 ELSE @]

\* Mutant: the head bucket is added to the validator set as if it held changes.
RotatedAddDelta(r) ==
    LET h == index(r, 1)
    IN [r EXCEPT !.power = Add(Subtract(@, NextDelta(r)), HeadDelta(r)),
                 !.head = h,
                 !.delta[h] = NewSet,
                 !.cum[h] = Add(CopyTrim(Cum(r)), HeadDelta(r)),
                 !.flow = NewSet,
                 !.populated = IF @ < r.size THEN @ + 1 ELSE @]

\* Rotate: the tail bucket leaves the window totals, the head bucket enters
\* them, and the next bucket starts from the resulting validator set.
Rotated(r) ==
    LET h == index(r, 1)
    IN [r EXCEPT !.power = Add(Subtract(@, NextDelta(r)), HeadDelta(r)),
                 !.head = h,
                 !.delta[h] = NewSet,
                 !.cum[h] = Alter(CopyTrim(Cum(r)), HeadDelta(r)),
                 !.flow = NewSet,
                 !.populated = IF @ < r.size THEN @ + 1 ELSE @]

\* Mutant: the delay is not limited to the rotations that happened.
PreviousSetUnlimited(r, delay) == r.cum[index(r, -delay)]

PreviousSet(r, delay) ==
    r.cum[index(r, -(IF delay > r.populated THEN r.populated ELSE delay))]

\* Mutant: entries that set a power to zero are not written.
PersistSetDropZero(s) == [id \in {i \in Members(s) : s.powers[i] # 0} |-> s.powers[id]]

\* Validators() then UnpersistSet: powers pass through Uint64, which drops the
\* sign, the total is recomputed, and the trim flag is lost.
PersistSet(s) == [id \in Members(s) |-> AbsoluteValue(s.powers[id])]
UnpersistSet(powers) == ChangePowers(NewSet, DOMAIN powers, powers)

Persistable(r) ==
    [delta |-> [i \in DOMAIN r.delta |-> PersistSet(r.delta[i])],
     cum |-> [i \in DOMAIN r.cum |-> PersistSet(r.cum[i])],
     power |-> PersistSet(r.power), flow |-> PersistSet(r.flow), head |-> r.head]

\* Mutant: the size is the index of the last bucket.
UnpersistRingOneShort(p) ==
    [delta |-> [i \in DOMAIN p.delta |-> UnpersistSet(p.delta[i])],
     cum |-> [i \in DOMAIN p.cum |-> UnpersistSet(p.cum[i])],
     power |-> UnpersistSet(p.power), flow |-> UnpersistSet(p.flow),
     head |-> p.head, size |-> Cardinality(DOMAIN p.delta) - 1, populated |-> 0]

\* UnpersistRing does not restore the number of populated buckets.
UnpersistRing(p) ==
    [delta |-> [i \in DOMAIN p.delta |-> UnpersistSet(p.delta[i])],
     cum |-> [i \in DOMAIN p.cum |-> UnpersistSet(p.cum[i])],
     power |-> UnpersistSet(p.power), flow |-> UnpersistSet(p.flow),
     head |-> p.head, size |-> Cardinality(DOMAIN p.delta), populated |-> 0]

RingEqual(r, q) ==
    /\ r.size = q.size /\ r.head = q.head
    /\ SetEqual(r.flow, q.flow) /\ SetEqual(r.power, q.power)
    /\ \A i \in DOMAIN r.delta : /\ SetEqual(r.delta[i], q.delta[i])
                                 /\ SetEqual(r.cum[i], q.cum[i])
============================================================================
