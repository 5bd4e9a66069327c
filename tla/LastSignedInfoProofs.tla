----------------------- MODULE LastSignedInfoProofs -----------------------
(***************************************************************************)
(* Proofs about LastSignedInfo for every number of heights, rounds,        *)
(* restarts and signatures and every set of blocks and timestamps.         *)
(***************************************************************************)
EXTENDS LastSignedInfo, TLAPS

\* What the guard knows about the key.  Everything signed since the last
\* restart is at or before the remembered height/round/step, and what was
\* signed exactly there is what is remembered.
GuardCoversProduced ==
    \A p \in produced :
        /\ p.run <= run
        /\ p.run = run => \/ Precedes(p.message, lsi)
                          \/ SameHRS(p.message, lsi) /\ lsi.signBytes = p.message

\* A remembered signature covers the remembered sign bytes.
SignatureOverSignBytes == lsi.signature \in {None, lsi.signBytes}

IInv == TypeOK /\ GuardCoversProduced /\ SignatureOverSignBytes
            /\ NoDoubleSignWithinRun /\ AnswersVerify

\* Height/round/step is a strict order: the facts the guard rests on.
LEMMA PrecedesFacts ==
    ASSUME NEW a, NEW b, NEW c,
           a.height \in Int, b.height \in Int, c.height \in Int,
           a.round \in Int, b.round \in Int, c.round \in Int,
           a.step \in Int, b.step \in Int, c.step \in Int
    PROVE  /\ Precedes(a, b) /\ Precedes(b, c) => Precedes(a, c)
           /\ SameHRS(a, b) /\ Precedes(b, c) => Precedes(a, c)
           /\ ~(Precedes(a, b) /\ SameHRS(a, b))
  BY DEF Precedes, SameHRS

LEMMA FreshGuardType ==
    NewLastSignedInfo \in
        [height : 0..MaxHeight, round : 0..MaxRound, step : Steps \cup {stepNone},
         signBytes : Message \cup {None}, signature : Message \cup {None}]
  <1>1. 0 \in 0..MaxHeight /\ 0 \in 0..MaxRound
    BY SignAssumption DEF SignAssumption
  <1> QED
    BY <1>1, Zenon DEF NewLastSignedInfo

LEMMA InitIInv == Init => IInv
  <1> SUFFICES ASSUME Init PROVE IInv
    OBVIOUS
  <1>1. TypeOK
    <2>1. run \in 0..MaxRestarts
      BY SignAssumption DEF SignAssumption, Init
    <2> QED
      BY <2>1, FreshGuardType, Zenon DEF Init, TypeOK
  <1>2. GuardCoversProduced /\ NoDoubleSignWithinRun /\ AnswersVerify
    BY DEF Init, GuardCoversProduced, NoDoubleSignWithinRun, AnswersVerify
  <1>3. SignatureOverSignBytes
    BY DEF Init, SignatureOverSignBytes, NewLastSignedInfo
  <1> QED
    BY <1>1, <1>2, <1>3 DEF IInv

LEMMA SignNewIInv ==
    ASSUME IInv, NEW m \in Message, SignNew(m)
    PROVE  IInv'
  <1>0. PICK sig \in {m, None} :
          /\ saveSigned(m, sig)
          /\ produced' = IF sig = None THEN produced
                         ELSE produced \cup {[run |-> run, message |-> m]}
          /\ answer' = [message |-> m, signature |-> sig]
    BY DEF SignNew
  <1> DEFINE new == [run |-> run, message |-> m]
  <1>1. TypeOK'
    BY <1>0 DEF SignNew, saveSigned, IInv, TypeOK, Message
  <1>2. SignatureOverSignBytes' /\ AnswersVerify'
    BY <1>0 DEF saveSigned, SignatureOverSignBytes, AnswersVerify
  <1>3. SameHRS(m, lsi') /\ lsi'.signBytes = m
    BY <1>0 DEF saveSigned, SameHRS
  <1>4. \A p \in produced : p.run = run => Precedes(p.message, m)
    <2> TAKE p \in produced
    <2> HAVE p.run = run
    <2>1. Precedes(p.message, lsi) \/ SameHRS(p.message, lsi)
      BY DEF IInv, GuardCoversProduced
    <2>2. /\ p.message \in Message
          /\ lsi.height \in Int /\ lsi.round \in Int /\ lsi.step \in Int
      BY DEF IInv, TypeOK, Steps, stepNone, stepPropose, stepPrevote, stepPrecommit
    <2>3. \A x \in Message : x.height \in Int /\ x.round \in Int /\ x.step \in Int
      BY DEF Message, Steps, stepPropose, stepPrevote, stepPrecommit
    <2>4. Precedes(lsi, m)
      BY DEF SignNew
    <2> QED
      BY <2>1, <2>2, <2>3, <2>4, PrecedesFacts
  <1>5. \A p \in produced' : p \in produced \/ p = new
    BY <1>0
  <1>6. run' = run
    BY DEF SignNew
  <1>7. GuardCoversProduced'
    <2>1. ASSUME NEW p \in produced
          PROVE  p.run = run => Precedes(p.message, lsi')
      BY <1>4, <1>0 DEF saveSigned, Precedes
    <2> QED
      BY <1>3, <1>5, <1>6, <2>1, SignAssumption DEF SignAssumption, GuardCoversProduced, IInv, TypeOK
  <1>8. NoDoubleSignWithinRun'
    <2>1. ASSUME NEW p \in produced, p.run = run PROVE ~SameHRS(p.message, m) /\ ~SameHRS(m, p.message)
      <3>1. Precedes(p.message, m)
        BY <1>4, <2>1
      <3>2. p.message \in Message
        BY DEF IInv, TypeOK
      <3> QED
        BY <3>1, <3>2 DEF Precedes, SameHRS, Message, Steps, stepPropose, stepPrevote, stepPrecommit
    <2> QED
      BY <1>5, <2>1 DEF NoDoubleSignWithinRun, IInv
  <1> QED
    BY <1>1, <1>2, <1>7, <1>8 DEF IInv

LEMMA SignAgainIInv ==
    ASSUME IInv, NEW m \in Message, SignAgain(m)
    PROVE  IInv'
  <1>1. lsi.signature = lsi.signBytes /\ lsi.signBytes \in Message
    BY DEF SignAgain, IInv, SignatureOverSignBytes, TypeOK
  <1>2. [m EXCEPT !.timestamp = lsi.signBytes.timestamp] = lsi.signBytes
    BY <1>1 DEF SignAgain, OnlyDifferByTimestamp, Message
  <1>3. answer' = [message |-> lsi.signBytes, signature |-> lsi.signBytes]
    BY <1>1, <1>2 DEF SignAgain
  <1>4. TypeOK' /\ AnswersVerify'
    BY <1>1, <1>3 DEF SignAgain, IInv, TypeOK, AnswersVerify
  <1> QED
    BY <1>4 DEF SignAgain, IInv, GuardCoversProduced, SignatureOverSignBytes,
       NoDoubleSignWithinRun

LEMMA PanicIInv ==
    ASSUME IInv, NEW m \in Message, PanicNilSignature(m)
    PROVE  IInv'
  BY DEF PanicNilSignature, IInv, TypeOK, GuardCoversProduced,
     SignatureOverSignBytes, NoDoubleSignWithinRun, AnswersVerify

LEMMA RestartIInv ==
    ASSUME IInv, Restart
    PROVE  IInv'
  <1>1. TypeOK'
    <2>1. run' \in 0..MaxRestarts
      BY SignAssumption DEF SignAssumption, Restart, IInv, TypeOK
    <2> QED
      BY <2>1, FreshGuardType, Zenon DEF Restart, IInv, TypeOK
  <1>2. GuardCoversProduced'
    BY SignAssumption DEF SignAssumption, Restart, IInv, TypeOK, GuardCoversProduced
  <1>3. SignatureOverSignBytes' /\ NoDoubleSignWithinRun' /\ AnswersVerify'
    BY DEF Restart, NewLastSignedInfo, IInv, SignatureOverSignBytes,
       NoDoubleSignWithinRun, AnswersVerify
  <1> QED
    BY <1>1, <1>2, <1>3 DEF IInv

LEMMA NextIInv == IInv /\ [Next]_vars => IInv'
  <1> SUFFICES ASSUME IInv, [Next]_vars PROVE IInv'
    OBVIOUS
  <1>1. CASE Next
    BY <1>1, SignNewIInv, SignAgainIInv, PanicIInv, RestartIInv DEF Next, SignVote, SignProposal
  <1>2. CASE UNCHANGED vars
    BY <1>2 DEF vars, IInv, TypeOK, GuardCoversProduced, SignatureOverSignBytes,
       NoDoubleSignWithinRun, AnswersVerify
  <1> QED
    BY <1>1, <1>2

LEMMA InvariantIInv == Spec => []IInv
  BY InitIInv, NextIInv, PTL DEF Spec

\* The variables of LastSignedInfo always have their types.
THEOREM TypeCorrect == Spec => []TypeOK
  <1>1. IInv => TypeOK
    BY DEF IInv
  <1> QED
    BY <1>1, InvariantIInv, PTL

\* Between two restarts the key never signs two different messages for one
\* height, round and step, whatever Tendermint asks signVote and signProposal
\* to sign and whenever the signer fails.
THEOREM NoDoubleSign == Spec => []NoDoubleSignWithinRun
  <1>1. IInv => NoDoubleSignWithinRun
    BY DEF IInv
  <1> QED
    BY <1>1, InvariantIInv, PTL

\* A signature handed back by signVote or signProposal, new or remembered,
\* covers the message it is attached to, timestamp included.
THEOREM ReturnedSignaturesVerify == Spec => []AnswersVerify
  <1>1. IInv => AnswersVerify
    BY DEF IInv
  <1> QED
    BY <1>1, InvariantIInv, PTL

\* Between restarts the guard only moves forward in height/round/step.
THEOREM GuardAdvances == Spec => GuardOnlyAdvances
  <1>1. IInv /\ [Next]_vars => [run' = run => Precedes(lsi, lsi') \/ lsi' = lsi]_vars
    <2> SUFFICES ASSUME IInv, Next
                 PROVE  run' = run => Precedes(lsi, lsi') \/ lsi' = lsi
      BY DEF vars
    <2>1. ASSUME NEW m \in Message, SignNew(m) PROVE Precedes(lsi, lsi')
      BY <2>1 DEF SignNew, saveSigned, Precedes
    <2>2. ASSUME NEW m \in Message, SignAgain(m) \/ PanicNilSignature(m) PROVE lsi' = lsi
      BY <2>2 DEF SignAgain, PanicNilSignature
    <2>3. CASE Restart
      BY <2>3 DEF Restart, IInv, TypeOK
    <2> QED
      BY <2>1, <2>2, <2>3 DEF Next, SignVote, SignProposal
  <1> QED
    BY <1>1, InvariantIInv, PTL DEF Spec, GuardOnlyAdvances
===========================================================================
