----------------------------- MODULE BlockStore -----------------------------
(***************************************************************************)
(* What a write cache over the account state promises to the code that     *)
(* executes transactions: it behaves as the state itself, on which changes *)
(* take effect at once and are kept or dropped as a whole.  An account     *)
(* that is removed cannot be written again before the changes are kept,    *)
(* and the changes to its storage are dropped with it; the storage it had  *)
(* before is left as it was.  Changes to the storage of an account that    *)
(* does not exist cannot be kept.                                          *)
(***************************************************************************)
CONSTANTS Addresses, Keys, Accounts, Words, Nil

VARIABLES committed,   \* the state below the cache
          current,     \* the state as seen through it
          removed,     \* accounts removed since the changes were last kept
          orphans,     \* accounts that do not exist, whose storage was set since then
          reply        \* what the last call returned

Store == [account : [Addresses -> Accounts \cup {Nil}],
          storage : [Addresses -> [Keys -> Words]]]

Init ==
  /\ committed \in Store
  /\ current = committed
  /\ removed = {}
  /\ orphans = {}
  /\ reply = "ok"

GetAccount(a) ==
  /\ reply' = current.account[a]
  /\ UNCHANGED <<committed, current, removed, orphans>>

GetStorage(a, k) ==
  /\ reply' = current.storage[a][k]
  /\ UNCHANGED <<committed, current, removed, orphans>>

UpdateAccount(a, v) ==
  /\ a \notin removed
  /\ current' = [current EXCEPT !.account[a] = v]
  /\ orphans' = orphans \ {a}
  /\ reply' = "ok"
  /\ UNCHANGED <<committed, removed>>

SetStorage(a, k, w) ==
  /\ a \notin removed
  /\ current' = [current EXCEPT !.storage[a][k] = w]
  /\ orphans' = IF current.account[a] = Nil THEN orphans \cup {a} ELSE orphans
  /\ reply' = "ok"
  /\ UNCHANGED <<committed, removed>>

RemoveAccount(a) ==
  /\ a \notin removed
  /\ current' = [current EXCEPT !.account[a] = Nil]
  /\ removed' = removed \cup {a}
  /\ orphans' = orphans \ {a}
  /\ reply' = "ok"
  /\ UNCHANGED committed

Refuse(a) ==
  /\ a \in removed
  /\ reply' = "error"
  /\ UNCHANGED <<committed, current, removed, orphans>>

\* The committed state with the changes to some accounts kept, and those to
\* the storage of some more.
Kept(accounts, stored) ==
  [account |-> [a \in Addresses |-> IF a \in accounts THEN current.account[a]
                                   ELSE committed.account[a]],
   storage |-> [a \in Addresses |-> IF a \in stored \ removed THEN current.storage[a]
                                   ELSE committed.storage[a]]]

\* The changes are kept.
Keep ==
  /\ orphans = {}
  /\ committed' = Kept(Addresses, Addresses)
  /\ current' = committed'
  /\ removed' = {}
  /\ orphans' = {}
  /\ reply' = "ok"

\* They cannot be: those to some accounts are kept, and the storage of the
\* account that does not exist.
KeepFails ==
  /\ \E f \in orphans, accounts \in SUBSET (Addresses \ orphans) :
       committed' = Kept(accounts, accounts \cup {f})
  /\ reply' = "failed"
  /\ UNCHANGED <<current, removed, orphans>>

\* The changes are dropped.
Drop ==
  /\ current' = committed
  /\ removed' = {}
  /\ orphans' = {}
  /\ reply' = "ok"
  /\ UNCHANGED committed

Next ==
  \/ \E a \in Addresses :
       \/ GetAccount(a) \/ RemoveAccount(a) \/ Refuse(a)
       \/ \E v \in Accounts : UpdateAccount(a, v)
       \/ \E k \in Keys : GetStorage(a, k) \/ \E w \in Words : SetStorage(a, k, w)
  \/ Keep \/ KeepFails \/ Drop

Spec == Init /\ [][Next]_<<committed, current, removed, orphans, reply>>
=============================================================================
