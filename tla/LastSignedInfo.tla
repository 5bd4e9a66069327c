-------------------------- MODULE LastSignedInfo --------------------------
(***************************************************************************)
(* The double-signing guard of a Burrow validator:                         *)
(* consensus/tendermint/sign_info.go behind the in-memory private          *)
(* validator of priv_validator_memory.go.                                  *)
(*                                                                         *)
(* Tendermint asks for signatures on votes and proposals.  Every request   *)
(* runs under lsi.Lock, so a request is one step.  A message is abstracted *)
(* to its height, round and step, the block it is for, and its timestamp;  *)
(* its sign bytes are that record (the canonical JSON encoding is          *)
(* injective on these fields).  A signature is the sign bytes it covers,   *)
(* or None when the signer behind asTendermintSigner failed and returned   *)
(* nil.  Crashing the node loses the LastSignedInfo (NewPrivValidatorMemory*)
(* always starts from a fresh one).                                        *)
(***************************************************************************)
EXTENDS Integers, FiniteSets

CONSTANTS MaxHeight,    \* bound on the heights Tendermint asks about
          MaxRound,     \* bound on the rounds
          Blocks,       \* what a vote or proposal can be for (nil block included)
          Timestamps,   \* clock readings a message can carry
          MaxRestarts,  \* bound on the restarts of the node
          MaxSignatures,\* bound on the signatures the key makes
          None          \* Go's nil

ASSUME SignAssumption == /\ MaxHeight \in Nat /\ MaxRound \in Nat
                         /\ MaxRestarts \in Nat /\ MaxSignatures \in Nat

VARIABLES lsi,       \* LastSignedInfo: height, round, step, signBytes, signature
          run,       \* how often the process was restarted
          produced,  \* history: every signature made by the key, with its run
          answer,    \* history: the last message handed back without error
          panicked   \* checkHRS hit its panic

vars == <<lsi, run, produced, answer, panicked>>

stepNone == 0
stepPropose == 1
stepPrevote == 2
stepPrecommit == 3

Steps == {stepPropose, stepPrevote, stepPrecommit}

Message == [height : 1..MaxHeight, round : 0..MaxRound, step : Steps,
            block : Blocks, timestamp : Timestamps]

\* Mutant: the step starts at a value no request can follow or equal.
NewLastSignedInfoNoStep ==
    [height |-> 0, round |-> 0, step |-> -1, signBytes |-> None, signature |-> None]

NewLastSignedInfo ==
    [height |-> 0, round |-> 0, step |-> stepNone, signBytes |-> None, signature |-> None]

\* Height/round/step order, the order checkHRS compares in.
Precedes(a, b) ==
    \/ a.height < b.height
    \/ a.height = b.height /\ a.round < b.round
    \/ a.height = b.height /\ a.round = b.round /\ a.step < b.step

SameHRS(a, b) == a.height = b.height /\ a.round = b.round /\ a.step = b.step

OnlyDifferByTimestamp(last, m) == [last EXCEPT !.timestamp = m.timestamp] = m

Init == /\ lsi = NewLastSignedInfo
        /\ run = 0
        /\ produced = {}
        /\ answer = None
        /\ panicked = FALSE
---------------------------------------------------------------------------
\* Mutant: the round is not remembered.
saveSignedForgetRound(m, sig) ==
    lsi' = [height |-> m.height, round |-> 0, step |-> m.step,
            signBytes |-> m, signature |-> sig]

saveSigned(m, sig) ==
    lsi' = [height |-> m.height, round |-> m.round, step |-> m.step,
            signBytes |-> m, signature |-> sig]

\* Mutant: checkHRS is not consulted.
SignNewUnchecked(m) ==
    /\ ~panicked
    /\ Cardinality(produced) < MaxSignatures
    /\ saveSigned(m, m)
    /\ produced' = produced \cup {[run |-> run, message |-> m]}
    /\ answer' = [message |-> m, signature |-> m]
    /\ UNCHANGED <<run, panicked>>

\* A message past the last signed height/round/step is signed and remembered.
\* A failing signer yields the nil signature, which is saved and returned
\* without an error all the same.
SignNew(m) ==
    /\ ~panicked
    /\ Cardinality(produced) < MaxSignatures
    /\ Precedes(lsi, m)
    /\ \E sig \in {m, None} :
         /\ saveSigned(m, sig)
         /\ produced' = IF sig = None THEN produced
                        ELSE produced \cup {[run |-> run, message |-> m]}
         /\ answer' = [message |-> m, signature |-> sig]
    /\ UNCHANGED <<run, panicked>>

\* Mutant: the old signature is handed out without restoring its timestamp.
SignAgainKeepTimestamp(m) ==
    /\ ~panicked
    /\ SameHRS(lsi, m)
    /\ lsi.signature # None
    /\ OnlyDifferByTimestamp(lsi.signBytes, m)
    /\ answer' = [message |-> m, signature |-> lsi.signature]
    /\ UNCHANGED <<lsi, run, produced, panicked>>

\* The same height/round/step again: the saved signature is handed out, with
\* the saved timestamp, if the message agrees up to the timestamp.
SignAgain(m) ==
    /\ ~panicked
    /\ SameHRS(lsi, m)
    /\ lsi.signature # None
    /\ OnlyDifferByTimestamp(lsi.signBytes, m)
    /\ answer' = [message |-> [m EXCEPT !.timestamp = lsi.signBytes.timestamp],
                  signature |-> lsi.signature]
    /\ UNCHANGED <<lsi, run, produced, panicked>>

\* The panic in checkHRS: sign bytes are saved but the signature is nil.
PanicNilSignature(m) ==
    /\ ~panicked
    /\ SameHRS(lsi, m)
    /\ lsi.signature = None
    /\ panicked' = TRUE
    /\ UNCHANGED <<lsi, run, produced, answer>>

SignVote(m) ==
    /\ m.step \in {stepPrevote, stepPrecommit}
    /\ SignNew(m) \/ SignAgain(m) \/ PanicNilSignature(m)

SignProposal(m) ==
    /\ m.step = stepPropose
    /\ SignNew(m) \/ SignAgain(m) \/ PanicNilSignature(m)

\* The process dies and is started again: the guard is not persisted.
Restart ==
    /\ run < MaxRestarts
    /\ run' = run + 1
    /\ lsi' = NewLastSignedInfo
    /\ panicked' = FALSE
    /\ UNCHANGED <<produced, answer>>

Next == \/ \E m \in Message : SignVote(m) \/ SignProposal(m)
        \/ Restart

Spec == Init /\ [][Next]_vars
---------------------------------------------------------------------------
TypeOK ==
    /\ lsi \in [height : 0..MaxHeight, round : 0..MaxRound, step : Steps \cup {stepNone},
                signBytes : Message \cup {None}, signature : Message \cup {None}]
    /\ run \in 0..MaxRestarts
    /\ produced \subseteq [run : 0..MaxRestarts, message : Message]
    /\ answer \in [message : Message, signature : Message \cup {None}] \cup {None}
    /\ panicked \in BOOLEAN

\* LastSignedInfo "help[s] prevent double signing": between two restarts the
\* key never signs two different messages for one height, round and step.
NoDoubleSignWithinRun ==
    \A p, q \in produced :
        p.run = q.run /\ SameHRS(p.message, q.message) => p.message = q.message

\* The re-signing branch of signVote/signProposal: whatever is handed back to
\* Tendermint with a signature carries a signature over exactly its own sign
\* bytes, although the signature may be an old one and the timestamp replaced.
AnswersVerify ==
    answer # None /\ answer.signature # None => answer.signature = answer.message

\* checkHRS refuses every regression: within one run of the process the
\* guard only moves forward in height/round/step, and what it remembers at
\* one height/round/step is never exchanged.
GuardOnlyAdvances ==
    [][run' = run => Precedes(lsi, lsi') \/ lsi' = lsi]_vars

\* saveSigned is commented "Persist height/round/step and signature": with a
\* persisted guard the key would not sign twice for one height/round/step in
\* the whole life of the validator, restarts included.
NoDoubleSignAcrossRestarts ==
    \A p, q \in produced :
        SameHRS(p.message, q.message) => p.message = q.message
===========================================================================
