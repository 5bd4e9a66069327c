----------------------------- MODULE StateCache -----------------------------
(***************************************************************************)
(* The write cache of acm/state/state_cache.go over the state of           *)
(* execution/state.go.  The executor runs a block's transactions against   *)
(* one and flushes it at Commit; CallTx and every EVM call frame stack one *)
(* on the one below and sync it when the call succeeds.  Accounts and      *)
(* words are opaque values.  An account's entry holds the account as read  *)
(* or written, the storage words read or written (Unread for the others),  *)
(* and the two flags.  Addresses are numbers, in the order Sync visits     *)
(* them.                                                                   *)
(***************************************************************************)
EXTENDS Naturals

CONSTANTS Addresses, Keys, Accounts, Words,
          Nil,      \* the account of an address that has none
          Unread    \* a storage word the entry does not hold

ASSUME CacheAssumption ==
  /\ Addresses \subseteq Nat
  /\ Nil \notin Accounts
  /\ Unread \notin Words

VARIABLES backend,   \* the state below: accounts and storage
          cache,     \* the entry of each address
          reply      \* what the last call returned

vars == <<backend, cache, reply>>

Store == [account : [Addresses -> Accounts \cup {Nil}],
          storage : [Addresses -> [Keys -> Words]]]

accountInfo == [cached : BOOLEAN, account : Accounts \cup {Nil},
                storage : [Keys -> Words \cup {Unread}],
                removed : BOOLEAN, updated : BOOLEAN]

\* The entry of an address that is not in the map.
Absent == [cached |-> FALSE, account |-> Nil, storage |-> [k \in Keys |-> Unread],
           removed |-> FALSE, updated |-> FALSE]

Empty == [a \in Addresses |-> Absent]

\* The address's entry, created from the backend if necessary.
get(a) ==
  IF cache[a].cached THEN cache[a]
  ELSE [Absent EXCEPT !.cached = TRUE, !.account = backend.account[a]]

\* What an entry says of its account, and of a storage word.
AccountOf(info) == IF info.removed THEN Nil ELSE info.account

\* (mutant: a word that was not read is not looked up below)
WordOfHeld(info, a, k) == info.storage[k]

WordOf(info, a, k) ==
  IF info.storage[k] = Unread THEN backend.storage[a][k] ELSE info.storage[k]

Init ==
  /\ backend \in Store
  /\ cache = Empty
  /\ reply = "ok"
-----------------------------------------------------------------------------
GetAccount(a) ==
  /\ cache' = [cache EXCEPT ![a] = get(a)]
  /\ reply' = AccountOf(get(a))
  /\ UNCHANGED backend

GetStorage(a, k) ==
  /\ cache' = [cache EXCEPT ![a] = [get(a) EXCEPT !.storage[k] = WordOf(get(a), a, k)]]
  /\ reply' = WordOf(get(a), a, k)
  /\ UNCHANGED backend

\* A write to an account whose entry is removed is an error.
Removed(a) ==
  /\ get(a).removed
  /\ cache' = [cache EXCEPT ![a] = get(a)]
  /\ reply' = "error"
  /\ UNCHANGED backend

\* Mutant: the entry is not marked as updated.
UpdateAccountUnmarked(a, v) ==
  /\ ~get(a).removed
  /\ cache' = [cache EXCEPT ![a] = [get(a) EXCEPT !.account = v]]
  /\ reply' = "ok"
  /\ UNCHANGED backend

UpdateAccount(a, v) ==
  /\ ~get(a).removed
  /\ cache' = [cache EXCEPT ![a] = [get(a) EXCEPT !.account = v, !.updated = TRUE]]
  /\ reply' = "ok"
  /\ UNCHANGED backend

RemoveAccount(a) ==
  /\ ~get(a).removed
  /\ cache' = [cache EXCEPT ![a] = [get(a) EXCEPT !.removed = TRUE]]
  /\ reply' = "ok"
  /\ UNCHANGED backend

\* The account need not exist: it may be written afterwards.
SetStorage(a, k, w) ==
  /\ ~get(a).removed
  /\ cache' = [cache EXCEPT ![a] = [get(a) EXCEPT !.storage[k] = w, !.updated = TRUE]]
  /\ reply' = "ok"
  /\ UNCHANGED backend

\* Mutant: the removal of an account is not passed on.
SyncedSkipping(a) ==
  [account |-> IF cache[a].updated THEN cache[a].account ELSE backend.account[a],
   storage |-> [k \in Keys |-> IF cache[a].updated THEN WordOf(cache[a], a, k)
                               ELSE backend.storage[a][k]]]

\* What Sync leaves in the state for an address: a removed account is deleted
\* and its storage left alone; an updated one is written with every storage
\* word its entry holds, others are not touched.
Synced(a) ==
  [account |-> IF cache[a].removed THEN Nil
               ELSE IF cache[a].updated THEN cache[a].account
               ELSE backend.account[a],
   storage |-> [k \in Keys |-> IF ~cache[a].removed /\ cache[a].updated
                               THEN WordOf(cache[a], a, k)
                               ELSE backend.storage[a][k]]]

\* The entries whose storage was written and whose account does not exist: the
\* state refuses their UpdateAccount.
Orphans == {a \in Addresses : cache[a].updated /\ ~cache[a].removed /\ cache[a].account = Nil}

\* Flush: Sync to the state and Reset onto it.
Flush ==
  /\ Orphans = {}
  /\ backend' = [account |-> [a \in Addresses |-> Synced(a).account],
                 storage |-> [a \in Addresses |-> Synced(a).storage]]
  /\ cache' = Empty
  /\ reply' = "ok"

\* Sync fails at the first entry that the state refuses, after its storage was
\* written, and the cache is not reset.
FlushFails ==
  /\ \E f \in Orphans :
       /\ \A a \in Orphans : f <= a
       /\ backend' = [account |-> [a \in Addresses |-> IF a < f THEN Synced(a).account
                                                      ELSE backend.account[a]],
                      storage |-> [a \in Addresses |-> IF a <= f THEN Synced(a).storage
                                                      ELSE backend.storage[a]]]
  /\ reply' = "failed"
  /\ UNCHANGED cache

\* The changes of a failed call, and the checker's at every commit, are lost.
Reset ==
  /\ cache' = Empty
  /\ reply' = "ok"
  /\ UNCHANGED backend

\* The calls that name an address.
Call(a) ==
  \/ GetAccount(a) \/ RemoveAccount(a) \/ Removed(a)
  \/ \E v \in Accounts : UpdateAccount(a, v)
  \/ \E k \in Keys : GetStorage(a, k) \/ \E w \in Words : SetStorage(a, k, w)

\* A cache whose Sync failed is used no more: Commit panics, or the transaction
\* ends, and the next cache is a new one.
Next ==
  \/ reply # "failed" /\ ((\E a \in Addresses : Call(a)) \/ Flush \/ FlushFails)
  \/ Reset

Spec == Init /\ [][Next]_vars
-----------------------------------------------------------------------------
TypeOK ==
  /\ backend \in Store
  /\ cache \in [Addresses -> accountInfo]
  /\ reply \in Accounts \cup Words \cup {Nil, "ok", "error", "failed"}

\* An entry that Sync will skip says of its account and of every word it holds
\* what the state below says: nothing written is ever left unmarked, and
\* nothing read goes stale.
CleanEntriesMirrorBackend ==
  \A a \in Addresses :
    /\ ~cache[a].cached => cache[a] = Absent
    /\ cache[a].cached /\ ~cache[a].updated /\ ~cache[a].removed =>
         /\ cache[a].account = backend.account[a]
         /\ \A k \in Keys : WordOf(cache[a], a, k) = backend.storage[a][k]

\* The state as seen through the cache.
View ==
  [account |-> [a \in Addresses |-> AccountOf(get(a))],
   storage |-> [a \in Addresses |-> [k \in Keys |-> WordOf(get(a), a, k)]]]

Abstract == INSTANCE BlockStore WITH
  committed <- backend, current <- View,
  removed <- {a \in Addresses : cache[a].removed}, orphans <- Orphans

\* The cache behaves as the state itself: every read returns what was last
\* written, a flush keeps everything written and a reset nothing.  A flush that
\* fails keeps the whole of what was written to some accounts and of the one
\* that has none only the storage.
ImplementsBlockStore == Abstract!Spec
=============================================================================
