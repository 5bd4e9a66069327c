-------------------------- MODULE RingWindowProofs --------------------------
(***************************************************************************)
(* The ring keeps the recent validator sets for every window size: proof   *)
(* that PreviousSet answers with history.  What a Set contains is opaque   *)
(* here; the argument is about head, populated and the modular indices.    *)
(***************************************************************************)
EXTENDS RingWindow, TLAPS

RingFields == {"delta", "cum", "power", "flow", "head", "size", "populated"}

\* The bucket d rotations behind the head, without the modulus.
Behind(head, d) == IF d <= head THEN head - d ELSE WindowSize + head - d

Shape ==
    /\ DOMAIN ring = RingFields
    /\ ring.size = WindowSize
    /\ ring.head \in 0..(WindowSize - 1)
    /\ DOMAIN ring.cum = 0..(WindowSize - 1)

\* populated counts the rotations up to the size of the window, and the last
\* WindowSize validator sets are in the buckets behind the head.
History ==
    /\ Len(cums) \in Nat \ {0}
    /\ ring.populated = IF Len(cums) - 1 < WindowSize THEN Len(cums) - 1 ELSE WindowSize
    /\ \A d \in 0..(WindowSize - 1) :
          d < Len(cums) => ring.cum[Behind(ring.head, d)].powers = cums[Len(cums) - d]

Window == (\E S : cums \in Seq(S)) /\ Shape /\ History

\* Reducing a number up to twice the window size modulo the window size: all
\* that Ring.index ever does.
LEMMA Wrap ==
    ASSUME NEW x \in 0..(2 * WindowSize)
    PROVE  x % WindowSize = IF x < WindowSize THEN x
                            ELSE IF x < 2 * WindowSize THEN x - WindowSize ELSE 0
<1>0. WindowSize \in Nat \ {0}  BY RingAssumption DEF RingAssumption
<1>1. CASE x < WindowSize  BY <1>0, <1>1, SMT
<1>2. CASE x >= WindowSize /\ x < 2 * WindowSize
  <2>1. x = 1 * WindowSize + (x - WindowSize) /\ x - WindowSize \in 0..(WindowSize - 1)
    BY <1>0, <1>2
  <2> QED  BY <1>0, <1>2, <2>1, SMT
<1>3. CASE x = 2 * WindowSize
  <2>1. (2 * WindowSize + 0) % WindowSize = 0  BY <1>0, SMT
  <2> QED  BY <1>0, <1>3, <2>1, SMT
<1> QED  BY <1>0, <1>1, <1>2, <1>3

\* Ring.index forwards by one bucket and backwards by d.
LEMMA IndexIs ==
    ASSUME Shape
    PROVE  /\ index(ring, 1) = IF ring.head = WindowSize - 1 THEN 0 ELSE ring.head + 1
           /\ \A d \in 0..(WindowSize - 1) : index(ring, -d) = Behind(ring.head, d)
<1>0. WindowSize \in Nat \ {0}  BY RingAssumption DEF RingAssumption
<1> DEFINE h == ring.head
<1>1. h \in 0..(WindowSize - 1) /\ ring.size = WindowSize  BY DEF Shape
<1>2. ASSUME NEW k \in Int, k \in (-(WindowSize - 1))..1
      PROVE  index(ring, k) = IF h + k < 0 THEN WindowSize + h + k
                              ELSE IF h + k < WindowSize THEN h + k ELSE 0
  <2> HIDE DEF h
  <2> DEFINE x == WindowSize + h + k
  <2>1. index(ring, k) = x % WindowSize  BY <1>1 DEF index, h
  <2>2. x \in 0..(2 * WindowSize)  BY <1>0, <1>1, <1>2
  <2>3. x = WindowSize + h + k  OBVIOUS
  <2> HIDE DEF x
  <2>4. x % WindowSize = IF x < WindowSize THEN x
                         ELSE IF x < 2 * WindowSize THEN x - WindowSize ELSE 0
    BY <2>2, Wrap
  <2> QED  BY <1>0, <1>1, <1>2, <2>1, <2>3, <2>4
<1> HIDE DEF h
<1>3. index(ring, 1) = IF h = WindowSize - 1 THEN 0 ELSE h + 1  BY <1>0, <1>1, <1>2
<1>4. ASSUME NEW d \in 0..(WindowSize - 1)
      PROVE  index(ring, -d) = Behind(h, d)
  <2>1. -d \in Int /\ -d \in (-(WindowSize - 1))..1  BY <1>0
  <2>2. index(ring, -d) = IF h + (-d) < 0 THEN WindowSize + h + (-d)
                          ELSE IF h + (-d) < WindowSize THEN h + (-d) ELSE 0
    BY <1>2, <2>1
  <2> QED  BY <1>0, <1>1, <2>2 DEF Behind
<1> QED  BY <1>3, <1>4 DEF h

LEMMA WindowInit == Init => Window
<1> SUFFICES ASSUME Init PROVE Window  OBVIOUS
<1>0. WindowSize \in Nat \ {0}  BY RingAssumption DEF RingAssumption
<1>1. ring = NewRing(GenesisSet, WindowSize)  BY DEF Init
<1>2. Shape  BY <1>0, <1>1 DEF NewRing, Shape, RingFields
<1>3. ring.head = 0 /\ ring.populated = 0  BY <1>1 DEF NewRing
<1>4. cums = <<ring.cum[0].powers>>  BY <1>3 DEF Init, Cum
<1>5. cums \in Seq({ring.cum[0].powers}) /\ Len(cums) = 1 /\ cums[1] = ring.cum[0].powers
  BY <1>4
<1>6. History  BY <1>0, <1>3, <1>5 DEF History, Behind
<1> QED  BY <1>2, <1>5, <1>6 DEF Window

\* A power change, accepted or refused, moves no bucket.
LEMMA ChangeKeepsWindow ==
    ASSUME Window, NEW id, NEW power, AlterPower(id, power) \/ RefusePower(id, power)
    PROVE  Window'
<1>1. /\ cums' = cums
      /\ DOMAIN ring' = DOMAIN ring
      /\ ring'.size = ring.size /\ ring'.head = ring.head
      /\ ring'.cum = ring.cum /\ ring'.populated = ring.populated
  <2>1. DOMAIN ring = RingFields  BY DEF Window, Shape
  <2>2. CASE AlterPower(id, power)
    BY <2>1, <2>2 DEF AlterPower, Altered, WithFlow, RingFields
  <2>3. CASE RefusePower(id, power)
    BY <2>1, <2>3 DEF RefusePower, Refused, WithFlow, RingFields
  <2> QED  BY <2>2, <2>3
<1> QED  BY <1>1 DEF Window, Shape, History

LEMMA RotateKeepsWindow ==
    ASSUME Window, Rotate
    PROVE  Window'
<1>0. WindowSize \in Nat \ {0}  BY RingAssumption DEF RingAssumption
<1> DEFINE h == index(ring, 1)
           n == Len(cums)
           new == Alter(CopyTrim(Cum(ring)), HeadDelta(ring))
<1>1. Shape /\ History  BY DEF Window
<1>2. h = IF ring.head = WindowSize - 1 THEN 0 ELSE ring.head + 1  BY <1>1, IndexIs
<1>3. h \in 0..(WindowSize - 1)  BY <1>0, <1>1, <1>2 DEF Shape
<1>4. /\ DOMAIN ring' = RingFields
      /\ ring'.size = WindowSize
      /\ ring'.head = h
      /\ ring'.cum = [ring.cum EXCEPT ![h] = new]
      /\ ring'.populated = IF ring.populated < WindowSize THEN ring.populated + 1
                           ELSE ring.populated
  <2> HIDE DEF h, new
  <2> QED  BY <1>1 DEF Rotate, Rotated, Shape, RingFields, h, new
<1>5. Shape'  BY <1>1, <1>3, <1>4 DEF Shape
<1>6. cums' = Append(cums, ring'.cum[h].powers)  BY <1>4 DEF Rotate, Cum
<1> HIDE DEF h, new
<1>7. PICK S : cums \in Seq(S)  BY DEF Window
<1>8. /\ cums' \in Seq(S \cup {ring'.cum[h].powers})
      /\ Len(cums') = n + 1
      /\ cums'[n + 1] = ring'.cum[h].powers
      /\ \A i \in 1..n : cums'[i] = cums[i]
  BY <1>6, <1>7
<1>9. n \in Nat \ {0}  BY <1>1 DEF History
<1>10. ASSUME NEW d \in 0..(WindowSize - 1), d < n + 1
       PROVE  ring'.cum[Behind(h, d)].powers = cums'[n + 1 - d]
  <2>1. CASE d = 0
    <3>1. Behind(h, d) = h  BY <1>3, <2>1 DEF Behind
    <3> QED  BY <1>8, <1>9, <2>1, <3>1
  <2>2. CASE d # 0
    <3>1. d - 1 \in 0..(WindowSize - 1) /\ d - 1 < n  BY <1>0, <1>9, <1>10, <2>2
    <3>2. ring.head \in 0..(WindowSize - 1)  BY <1>1 DEF Shape
    <3>3. Behind(h, d) = Behind(ring.head, d - 1) /\ Behind(h, d) # h
                      /\ Behind(h, d) \in 0..(WindowSize - 1)
      BY <1>0, <1>2, <2>2, <3>1, <3>2 DEF Behind
    <3>4. ring'.cum[Behind(h, d)] = ring.cum[Behind(ring.head, d - 1)]
      BY <1>1, <1>4, <3>3 DEF Shape
    <3>5. ring.cum[Behind(ring.head, d - 1)].powers = cums[n - (d - 1)]
      BY <1>1, <3>1 DEF History, n
    <3>6. n + 1 - d = n - (d - 1) /\ n + 1 - d \in 1..n  BY <1>9, <1>10, <2>2
    <3> QED  BY <1>8, <3>4, <3>5, <3>6
  <2> QED  BY <2>1, <2>2
<1>11. ring'.populated = IF n < WindowSize THEN n ELSE WindowSize
  BY <1>0, <1>1, <1>4, <1>9 DEF History, n
<1>12. History'
  BY <1>0, <1>4, <1>8, <1>9, <1>10, <1>11 DEF History
<1> QED  BY <1>5, <1>8, <1>12 DEF Window

\* The invariant gives the answer of PreviousSet.
LEMMA WindowAnswers == Window => PreviousSetIsHistory
<1> SUFFICES ASSUME Window, NEW delay \in 0..(WindowSize - 1)
             PROVE  PreviousSet(ring, delay).powers
                      = cums[IF Len(cums) - delay < 1 THEN 1 ELSE Len(cums) - delay]
  BY DEF PreviousSetIsHistory
<1>0. WindowSize \in Nat \ {0}  BY RingAssumption DEF RingAssumption
<1> DEFINE n == Len(cums)
           p == ring.populated
           d == IF delay > p THEN p ELSE delay
<1>1. Shape /\ History  BY DEF Window
<1>2. n \in Nat \ {0} /\ p = IF n - 1 < WindowSize THEN n - 1 ELSE WindowSize
  BY <1>1 DEF History
<1>3. d \in 0..(WindowSize - 1) /\ d < n /\ n - d = IF n - delay < 1 THEN 1 ELSE n - delay
  <2> HIDE DEF n, p
  <2>1. CASE n - 1 < WindowSize /\ delay > n - 1  BY <1>0, <1>2, <2>1
  <2>2. CASE n - 1 < WindowSize /\ ~(delay > n - 1)  BY <1>0, <1>2, <2>2
  <2>3. CASE ~(n - 1 < WindowSize)  BY <1>0, <1>2, <2>3
  <2> QED  BY <2>1, <2>2, <2>3
<1>4. PreviousSet(ring, delay) = ring.cum[index(ring, -d)]  BY DEF PreviousSet
<1> HIDE DEF d
<1>5. PreviousSet(ring, delay) = ring.cum[Behind(ring.head, d)]  BY <1>1, <1>3, <1>4, IndexIs
<1> QED  BY <1>1, <1>3, <1>5 DEF History

\* PreviousSet is right for every window size, every genesis set and every
\* sequence of changes, refusals and rotations: the validator set that was in
\* force delay rotations ago, or the first one.
THEOREM PreviousSetCorrect == Spec => []PreviousSetIsHistory
<1>1. Init => Window  BY WindowInit
<1>2. Window /\ [Next]_vars => Window'
  <2> SUFFICES ASSUME Window, [Next]_vars PROVE Window'  OBVIOUS
  <2>1. CASE Rotate  BY <2>1, RotateKeepsWindow
  <2>2. ASSUME NEW id \in Validators, NEW power \in Powers,
               AlterPower(id, power) \/ RefusePower(id, power)
        PROVE  Window'
    BY <2>2, ChangeKeepsWindow
  <2>3. CASE UNCHANGED vars  BY <2>3 DEF vars, Window, Shape, History
  <2> QED  BY <2>1, <2>2, <2>3 DEF Next
<1> QED  BY <1>1, <1>2, WindowAnswers, PTL DEF Spec
=============================================================================
