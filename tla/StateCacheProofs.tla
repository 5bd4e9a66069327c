-------------------------- MODULE StateCacheProofs --------------------------
(***************************************************************************)
(* The cache implements BlockStore for every set of addresses, keys,       *)
(* accounts and words.  The invariant is the types together with           *)
(* CleanEntriesMirrorBackend: without it Sync, which skips entries that    *)
(* are not marked, could lose what a reader has seen.                      *)
(***************************************************************************)
EXTENDS StateCache, TLAPS

Inv == TypeOK /\ CleanEntriesMirrorBackend

\* An entry obtained by get is of its type, is present, and mirrors the backend
\* unless it is marked.
LEMMA Got ==
  ASSUME Inv, NEW a \in Addresses
  PROVE  /\ get(a) \in accountInfo
         /\ get(a).cached
         /\ cache[a].removed = get(a).removed
         /\ cache[a].updated = get(a).updated
         /\ ~get(a).updated /\ ~get(a).removed =>
              /\ get(a).account = backend.account[a]
              /\ \A k \in Keys : WordOf(get(a), a, k) = backend.storage[a][k]
         /\ \A k \in Keys : WordOf(get(a), a, k) \in Words
<1> backend \in Store /\ cache[a] \in accountInfo
  BY DEF Inv, TypeOK
<1>1. CASE cache[a].cached
  <2>1. get(a) = cache[a]
    BY <1>1 DEF get
  <2>2. QED
    BY <1>1, <2>1 DEF Inv, CleanEntriesMirrorBackend, accountInfo, Store, WordOf
<1>2. CASE ~cache[a].cached
  <2>1. get(a) = [cached |-> TRUE, account |-> backend.account[a],
                  storage |-> [k \in Keys |-> Unread], removed |-> FALSE, updated |-> FALSE]
    BY <1>2 DEF get, Absent
  <2>2. ~cache[a].removed /\ ~cache[a].updated
    BY <1>2 DEF Inv, CleanEntriesMirrorBackend, Absent
  <2>3. get(a) \in accountInfo
    BY <2>1 DEF accountInfo, Store
  <2>4. \A k \in Keys : WordOf(get(a), a, k) = backend.storage[a][k]
    BY <2>1 DEF WordOf
  <2>5. \A k \in Keys : backend.storage[a][k] \in Words
    BY DEF Store
  <2>6. get(a).cached /\ ~get(a).removed /\ ~get(a).updated /\ get(a).account = backend.account[a]
    BY <2>1
  <2>7. cache[a].removed = get(a).removed /\ cache[a].updated = get(a).updated
    BY <2>2, <2>6, <2>3 DEF accountInfo
  <2>8. QED
    BY <2>3, <2>4, <2>5, <2>6, <2>7
<1>3. QED
  BY <1>1, <1>2

\* Replacing one entry by a sound one preserves the invariant.
LEMMA PutKeepsInv ==
  ASSUME Inv, NEW a \in Addresses, NEW e \in accountInfo,
         e.cached,
         ~e.updated /\ ~e.removed =>
           /\ e.account = backend.account[a]
           /\ \A k \in Keys : WordOf(e, a, k) = backend.storage[a][k],
         cache' = [cache EXCEPT ![a] = e],
         backend' = backend,
         reply' \in Accounts \cup Words \cup {Nil, "ok", "error"}
  PROVE  Inv'
<1>1. TypeOK'
  BY DEF Inv, TypeOK
<1>2. CleanEntriesMirrorBackend'
  <2> SUFFICES ASSUME NEW b \in Addresses
               PROVE  /\ ~cache'[b].cached => cache'[b] = Absent
                      /\ cache'[b].cached /\ ~cache'[b].updated /\ ~cache'[b].removed =>
                           /\ cache'[b].account = backend'.account[b]
                           /\ \A k \in Keys : WordOf(cache[b], b, k)' = backend'.storage[b][k]
    BY DEF CleanEntriesMirrorBackend
  <2>1. CASE b = a
    BY <2>1 DEF Inv, TypeOK, WordOf
  <2>2. CASE b # a
    BY <2>2 DEF Inv, TypeOK, CleanEntriesMirrorBackend, WordOf
  <2>3. QED
    BY <2>1, <2>2
<1>3. QED
  BY <1>1, <1>2 DEF Inv

\* An empty cache over a well-typed state.
Fresh == backend \in Store /\ cache = Empty /\ reply = "ok"

\* It satisfies the invariant.
LEMMA EmptyKeepsInv == Fresh => Inv
<1> SUFFICES ASSUME Fresh
             PROVE  Inv
  OBVIOUS
<1> USE DEF Fresh
<1>1. Absent \in accountInfo
  BY DEF Absent, accountInfo
<1>2. TypeOK
  BY <1>1 DEF TypeOK, Empty
<1>3. CleanEntriesMirrorBackend
  BY DEF CleanEntriesMirrorBackend, Empty, Absent
<1>4. QED
  BY <1>2, <1>3 DEF Inv

\* Sync leaves a well-typed state: what it writes for an address is an account,
\* or none, and words.
LEMMA SyncedType ==
  ASSUME Inv, NEW a \in Addresses
  PROVE  /\ Synced(a).account \in Accounts \cup {Nil}
         /\ Synced(a).storage \in [Keys -> Words]
<1> cache[a] \in accountInfo /\ backend \in Store
  BY DEF Inv, TypeOK
<1>1. Synced(a).account \in Accounts \cup {Nil}
  BY DEF Synced, accountInfo, Store
<1>2. \A k \in Keys : backend.storage[a][k] \in Words /\ WordOf(cache[a], a, k) \in Words
  BY DEF accountInfo, Store, WordOf
<1>3. Synced(a).storage \in [Keys -> Words]
  BY <1>2 DEF Synced
<1>4. QED
  BY <1>1, <1>3

\* The entry that each operation on one address leaves in the cache: it is
\* sound, the other entries and the state below are unchanged.
LEMMA EntryStep ==
  ASSUME Inv, NEW a \in Addresses, Call(a)
  PROVE  Inv'
<1> USE Got
<1> get(a) \in accountInfo
  OBVIOUS
<1>1. CASE GetAccount(a)
  <2>1. AccountOf(get(a)) \in Accounts \cup {Nil}
    BY DEF AccountOf, accountInfo
  <2>2. QED
    BY <1>1, <2>1, PutKeepsInv DEF GetAccount
<1>2. CASE RemoveAccount(a)
  <2> DEFINE e == [get(a) EXCEPT !.removed = TRUE]
  <2>1. e \in accountInfo /\ e.cached /\ e.removed
    BY DEF accountInfo
  <2>2. cache' = [cache EXCEPT ![a] = e] /\ backend' = backend /\ reply' = "ok"
    BY <1>2 DEF RemoveAccount
  <2> HIDE DEF e
  <2>3. QED
    BY <2>1, <2>2, PutKeepsInv
<1>3. CASE Removed(a)
  BY <1>3, PutKeepsInv DEF Removed
<1>4. ASSUME NEW v \in Accounts, UpdateAccount(a, v)
      PROVE  Inv'
  <2> DEFINE e == [get(a) EXCEPT !.account = v, !.updated = TRUE]
  <2>1. e \in accountInfo /\ e.cached /\ e.updated
    BY DEF accountInfo
  <2>2. cache' = [cache EXCEPT ![a] = e] /\ backend' = backend /\ reply' = "ok"
    BY <1>4 DEF UpdateAccount
  <2> HIDE DEF e
  <2>3. QED
    BY <2>1, <2>2, PutKeepsInv
<1>5. ASSUME NEW k \in Keys, GetStorage(a, k)
      PROVE  Inv'
  <2> DEFINE w == WordOf(get(a), a, k)
  <2> DEFINE e == [get(a) EXCEPT !.storage[k] = w]
  <2>1. w \in Words /\ w # Unread
    BY CacheAssumption DEF CacheAssumption
  <2>2. e \in accountInfo /\ e.cached /\ e.updated = get(a).updated
        /\ e.removed = get(a).removed /\ e.account = get(a).account
    BY <2>1 DEF accountInfo
  <2>3. \A j \in Keys : e.storage[j] = IF j = k THEN w ELSE get(a).storage[j]
    BY DEF accountInfo
  <2>4. \A j \in Keys : WordOf(e, a, j) = WordOf(get(a), a, j)
    BY <2>1, <2>3 DEF WordOf
  <2>5. cache' = [cache EXCEPT ![a] = e] /\ backend' = backend /\ reply' = w
    BY <1>5 DEF GetStorage
  <2> HIDE DEF e, w
  <2>6. ~e.updated /\ ~e.removed =>
          /\ e.account = backend.account[a]
          /\ \A j \in Keys : WordOf(e, a, j) = backend.storage[a][j]
    BY <2>2, <2>4
  <2>7. QED
    BY <2>1, <2>2, <2>5, <2>6, PutKeepsInv
<1>6. ASSUME NEW k \in Keys, NEW w \in Words, SetStorage(a, k, w)
      PROVE  Inv'
  <2> DEFINE e == [get(a) EXCEPT !.storage[k] = w, !.updated = TRUE]
  <2>1. e \in accountInfo /\ e.cached /\ e.updated
    BY DEF accountInfo
  <2>2. cache' = [cache EXCEPT ![a] = e] /\ backend' = backend /\ reply' = "ok"
    BY <1>6 DEF SetStorage
  <2> HIDE DEF e
  <2>3. QED
    BY <2>1, <2>2, PutKeepsInv
<1>7. QED
  BY <1>1, <1>2, <1>3, <1>4, <1>5, <1>6 DEF Call

\* A Sync that fails changes nothing of what an unmarked entry says.
LEMMA FailKeepsInv ==
  ASSUME Inv, FlushFails
  PROVE  Inv'
<1> backend \in Store /\ cache \in [Addresses -> accountInfo] /\ cache' = cache /\ reply' = "failed"
  BY DEF Inv, TypeOK, FlushFails
<1>1. PICK f \in Orphans :
        backend' = [account |-> [a \in Addresses |-> IF a < f THEN Synced(a).account
                                                     ELSE backend.account[a]],
                    storage |-> [a \in Addresses |-> IF a <= f THEN Synced(a).storage
                                                     ELSE backend.storage[a]]]
  BY DEF FlushFails
<1>2. \A a \in Addresses : /\ backend'.account[a] \in {Synced(a).account, backend.account[a]}
                           /\ backend'.storage[a] \in {Synced(a).storage, backend.storage[a]}
  BY <1>1
<1>3. backend' \in Store
  <2>1. \A a \in Addresses : /\ backend'.account[a] \in Accounts \cup {Nil}
                             /\ backend'.storage[a] \in [Keys -> Words]
    BY <1>2, SyncedType DEF Store
  <2>2. /\ backend' = [account |-> backend'.account, storage |-> backend'.storage]
        /\ backend'.account = [a \in Addresses |-> backend'.account[a]]
        /\ backend'.storage = [a \in Addresses |-> backend'.storage[a]]
    BY <1>1
  <2>3. /\ backend'.account \in [Addresses -> Accounts \cup {Nil}]
        /\ backend'.storage \in [Addresses -> [Keys -> Words]]
    BY <2>1, <2>2, Zenon
  <2>4. QED
    BY <2>2, <2>3 DEF Store
<1>4. TypeOK'
  BY <1>3 DEF TypeOK
<1>5. ASSUME NEW a \in Addresses, ~cache[a].updated, ~cache[a].removed
      PROVE  backend'.account[a] = backend.account[a] /\ backend'.storage[a] = backend.storage[a]
  <2>1. Synced(a) = [account |-> backend.account[a], storage |-> [k \in Keys |-> backend.storage[a][k]]]
    BY <1>5 DEF Synced
  <2>2. [k \in Keys |-> backend.storage[a][k]] = backend.storage[a]
    BY DEF Store
  <2>3. QED
    BY <1>2, <2>1, <2>2
<1>6. CleanEntriesMirrorBackend'
  <2> SUFFICES ASSUME NEW b \in Addresses
               PROVE  /\ ~cache[b].cached => cache[b] = Absent
                      /\ cache[b].cached /\ ~cache[b].updated /\ ~cache[b].removed =>
                           /\ cache[b].account = backend'.account[b]
                           /\ \A k \in Keys : WordOf(cache[b], b, k)' = backend'.storage[b][k]
    BY DEF CleanEntriesMirrorBackend
  <2>1. QED
    BY <1>5 DEF Inv, CleanEntriesMirrorBackend, WordOf
<1>7. QED
  BY <1>4, <1>6 DEF Inv

\* The types and the soundness of unmarked entries hold throughout.
THEOREM EntriesSound == Spec => [](TypeOK /\ CleanEntriesMirrorBackend)
<1>1. Init => Inv
  BY EmptyKeepsInv DEF Init, Fresh
<1>2. Inv /\ [Next]_vars => Inv'
  <2> SUFFICES ASSUME Inv, [Next]_vars
               PROVE  Inv'
    OBVIOUS
  <2>1. ASSUME NEW a \in Addresses, Call(a)
        PROVE  Inv'
    BY <2>1, EntryStep
  <2>2. CASE Flush
    <3>1. backend' \in Store
      BY <2>2, SyncedType DEF Flush, Store
    <3>2. cache' = Empty' /\ reply' = "ok"
      BY <2>2 DEF Flush, Empty, Absent
    <3>3. Fresh'
      BY <3>1, <3>2 DEF Fresh
    <3>4. QED
      BY <3>3, EmptyKeepsInv, PTL
  <2>3. CASE Reset
    <3>1. backend' \in Store
      BY <2>3 DEF Reset, Inv, TypeOK
    <3>2. cache' = Empty' /\ reply' = "ok"
      BY <2>3 DEF Reset, Empty, Absent
    <3>3. Fresh'
      BY <3>1, <3>2 DEF Fresh
    <3>4. QED
      BY <3>3, EmptyKeepsInv, PTL
  <2>4. CASE FlushFails
    BY <2>4, FailKeepsInv
  <2>5. CASE UNCHANGED vars
    BY <2>5 DEF vars, Inv, TypeOK, CleanEntriesMirrorBackend, WordOf
  <2>6. QED
    BY <2>1, <2>2, <2>3, <2>4, <2>5 DEF Next
<1>3. QED
  BY <1>1, <1>2, PTL DEF Spec, Inv
-----------------------------------------------------------------------------
RemovedSet == {a \in Addresses : cache[a].removed}

\* The words an entry shows, and the view with the account and the words of
\* one address replaced.
WordsOf(e, a) == [k \in Keys |-> WordOf(e, a, k)]

ViewWith(a, v, words) ==
  [account |-> [b \in Addresses |-> IF b = a THEN v ELSE View.account[b]],
   storage |-> [b \in Addresses |-> IF b = a THEN words ELSE View.storage[b]]]

\* Replacing one entry changes the view of that address only, to what the new
\* entry says.
LEMMA ViewPut ==
  ASSUME Inv, NEW a \in Addresses, NEW e \in accountInfo, e.cached,
         cache' = [cache EXCEPT ![a] = e], backend' = backend
  PROVE  View' = ViewWith(a, AccountOf(e), WordsOf(e, a))
<1>1. \A b \in Addresses : cache'[b] = IF b = a THEN e ELSE cache[b]
  BY DEF Inv, TypeOK
<1>2. \A b \in Addresses : get(b)' = IF b = a THEN e ELSE get(b)
  BY <1>1 DEF get
<1>3. \A b \in Addresses : AccountOf(get(b))' = IF b = a THEN AccountOf(e) ELSE View.account[b]
  BY <1>2 DEF AccountOf, View
<1>4. \A b \in Addresses : [k \in Keys |-> WordOf(get(b), b, k)'] =
        IF b = a THEN WordsOf(e, a) ELSE View.storage[b]
  BY <1>2 DEF WordOf, WordsOf, View
<1>5. View' = [account |-> [b \in Addresses |-> AccountOf(get(b))'],
               storage |-> [b \in Addresses |-> [k \in Keys |-> WordOf(get(b), b, k)']]]
  BY DEF View
<1>6. QED
  BY <1>3, <1>4, <1>5 DEF ViewWith

\* It adds the address to the removed accounts and to the orphans, or takes it
\* from them, by what the new entry says.
LEMMA SetsPut ==
  ASSUME Inv, NEW a \in Addresses, NEW e \in accountInfo,
         cache' = [cache EXCEPT ![a] = e]
  PROVE  /\ RemovedSet' = IF e.removed THEN RemovedSet \cup {a} ELSE RemovedSet \ {a}
         /\ Orphans' = IF e.updated /\ ~e.removed /\ e.account = Nil THEN Orphans \cup {a}
                       ELSE Orphans \ {a}
         /\ (e.removed <=> a \in RemovedSet) => RemovedSet' = RemovedSet
         /\ (e.updated /\ ~e.removed /\ e.account = Nil <=> a \in Orphans) => Orphans' = Orphans
<1>1. \A b \in Addresses : cache'[b] = IF b = a THEN e ELSE cache[b]
  BY DEF Inv, TypeOK
<1>2. RemovedSet' = IF e.removed THEN RemovedSet \cup {a} ELSE RemovedSet \ {a}
  BY <1>1 DEF RemovedSet
<1>3. Orphans' = IF e.updated /\ ~e.removed /\ e.account = Nil THEN Orphans \cup {a}
                 ELSE Orphans \ {a}
  BY <1>1 DEF Orphans
<1>4. ASSUME e.removed <=> a \in RemovedSet
      PROVE  RemovedSet' = RemovedSet
  BY <1>1, <1>4 DEF RemovedSet
<1>5. ASSUME e.updated /\ ~e.removed /\ e.account = Nil <=> a \in Orphans
      PROVE  Orphans' = Orphans
  BY <1>1, <1>5 DEF Orphans
<1>6. QED
  BY <1>2, <1>3, <1>4, <1>5

\* The initial states, and an empty cache, show the state below.
LEMMA ViewEmpty == Fresh => View = backend /\ RemovedSet = {} /\ Orphans = {}
<1> SUFFICES ASSUME Fresh
             PROVE  View = backend /\ RemovedSet = {} /\ Orphans = {}
  OBVIOUS
<1> backend \in Store /\ cache = Empty
  BY DEF Fresh
<1>1. \A a \in Addresses : get(a) = [cached |-> TRUE, account |-> backend.account[a],
        storage |-> [k \in Keys |-> Unread], removed |-> FALSE, updated |-> FALSE]
  BY DEF get, Empty, Absent
<1>2. \A a \in Addresses : AccountOf(get(a)) = backend.account[a]
  <2> TAKE a \in Addresses
  <2>1. ~get(a).removed /\ get(a).account = backend.account[a]
    BY <1>1
  <2>2. QED
    BY <2>1 DEF AccountOf
<1>3. \A a \in Addresses : \A k \in Keys : WordOf(get(a), a, k) = backend.storage[a][k]
  BY <1>1 DEF WordOf
<1>4. [a \in Addresses |-> AccountOf(get(a))] = backend.account
  BY <1>2 DEF Store
<1>5. [a \in Addresses |-> [k \in Keys |-> WordOf(get(a), a, k)]] = backend.storage
  <2>1. \A a \in Addresses : [k \in Keys |-> WordOf(get(a), a, k)] = backend.storage[a]
    BY <1>3 DEF Store
  <2>2. QED
    BY <2>1 DEF Store
<1>6. View = backend
  <2>1. backend = [account |-> backend.account, storage |-> backend.storage]
    BY DEF Store
  <2>2. View = [account |-> backend.account, storage |-> backend.storage]
    BY <1>4, <1>5 DEF View
  <2>3. QED
    BY <2>1, <2>2
<1>7. RemovedSet = {} /\ Orphans = {}
  BY DEF RemovedSet, Orphans, Empty, Absent
<1>8. QED
  BY <1>6, <1>7

\* The view is a well-typed state.
LEMMA ViewType ==
  ASSUME Inv
  PROVE  /\ View.account = [b \in Addresses |-> View.account[b]]
         /\ View.storage = [b \in Addresses |-> View.storage[b]]
         /\ View = [account |-> View.account, storage |-> View.storage]
         /\ \A b \in Addresses : View.storage[b] = [k \in Keys |-> WordOf(get(b), b, k)]
         /\ \A b \in Addresses : View.account[b] = AccountOf(get(b))
BY DEF View

\* Whether an address is an orphan, by the entry that get returns.
LEMMA OrphanEntry ==
  ASSUME Inv, NEW a \in Addresses
  PROVE  a \in Orphans <=> get(a).updated /\ ~get(a).removed /\ get(a).account = Nil
<1>1. CASE cache[a].cached
  BY <1>1 DEF Orphans, get
<1>2. CASE ~cache[a].cached
  <2>1. ~cache[a].updated /\ ~get(a).updated
    BY <1>2 DEF Inv, CleanEntriesMirrorBackend, Absent, get
  <2>2. QED
    BY <2>1 DEF Orphans
<1>3. QED
  BY <1>1, <1>2

\* A call that leaves the account, the words and the marks of its entry as get
\* returned them leaves the view, the removed accounts and the orphans unchanged.
LEMMA ReadKeepsView ==
  ASSUME Inv, NEW a \in Addresses, NEW e \in accountInfo, e.cached,
         e.removed = get(a).removed, e.updated = get(a).updated, e.account = get(a).account,
         \A k \in Keys : WordOf(e, a, k) = WordOf(get(a), a, k),
         cache' = [cache EXCEPT ![a] = e], backend' = backend
  PROVE  View' = View /\ RemovedSet' = RemovedSet /\ Orphans' = Orphans
<1>1. AccountOf(e) = View.account[a]
  BY ViewType DEF AccountOf
<1>2. WordsOf(e, a) = View.storage[a]
  BY ViewType DEF WordsOf
<1>3. ViewWith(a, View.account[a], View.storage[a]) =
        [account |-> [b \in Addresses |-> View.account[b]],
         storage |-> [b \in Addresses |-> View.storage[b]]]
  BY DEF ViewWith
<1>4. View' = View
  <2>1. View' = ViewWith(a, View.account[a], View.storage[a])
    BY <1>1, <1>2, ViewPut
  <2>2. QED
    BY <1>3, <2>1, ViewType
<1>5. e.removed <=> a \in RemovedSet
  BY Got DEF RemovedSet
<1>6. RemovedSet' = RemovedSet
  BY <1>5, SetsPut
<1>7. e.updated /\ ~e.removed /\ e.account = Nil <=> a \in Orphans
  BY OrphanEntry
<1>8. Orphans' = Orphans
  BY <1>7, SetsPut
<1>9. QED
  BY <1>4, <1>6, <1>8

\* The view after a write, as BlockStore writes it.
WithAccount(a, v) == [View EXCEPT !.account[a] = v]

WithWord(a, k, w) == [View EXCEPT !.storage[a][k] = w]

\* An entry that differs from the one before in its account only, or in one
\* word only, changes the view as BlockStore writes it.
LEMMA AccountChangesView ==
  ASSUME Inv, NEW a \in Addresses, NEW e \in accountInfo, e.cached,
         cache' = [cache EXCEPT ![a] = e], backend' = backend,
         NEW v, v = AccountOf(e), e.storage = get(a).storage
  PROVE  View' = WithAccount(a, v)
<1> DEFINE A == View.account
           S == View.storage
           A2 == [b \in Addresses |-> IF b = a THEN v ELSE A[b]]
<1>1. S[a] = WordsOf(e, a)
  BY ViewType DEF WordOf, WordsOf
<1>2. View' = ViewWith(a, v, S[a])
  BY <1>1, ViewPut
<1>3. ViewWith(a, v, S[a]) = [account |-> A2, storage |-> S]
  <2>1. [b \in Addresses |-> IF b = a THEN S[a] ELSE S[b]] = S
    BY ViewType
  <2>2. QED
    BY <2>1 DEF ViewWith
<1>4. [A EXCEPT ![a] = v] = A2
  BY ViewType
<1>5. View = [account |-> A, storage |-> S]
  BY ViewType
<1> HIDE DEF A, S
<1>6. WithAccount(a, v) = [account |-> [A EXCEPT ![a] = v], storage |-> S]
  BY <1>5 DEF WithAccount
<1> HIDE DEF A2
<1>7. QED
  BY <1>2, <1>3, <1>4, <1>6

LEMMA WordChangesView ==
  ASSUME Inv, NEW a \in Addresses, NEW e \in accountInfo, e.cached,
         cache' = [cache EXCEPT ![a] = e], backend' = backend,
         e.removed = get(a).removed, e.account = get(a).account,
         NEW k \in Keys, NEW w \in Words,
         \A j \in Keys : e.storage[j] = IF j = k THEN w ELSE get(a).storage[j]
  PROVE  View' = WithWord(a, k, w)
<1> DEFINE A == View.account
           S == View.storage
           W == [j \in Keys |-> IF j = k THEN w ELSE S[a][j]]
           S2 == [b \in Addresses |-> IF b = a THEN W ELSE S[b]]
<1>1. A[a] = AccountOf(e)
  BY ViewType DEF AccountOf
<1>2. W = WordsOf(e, a)
  <2>1. S[a] = [j \in Keys |-> WordOf(get(a), a, j)]
    BY ViewType
  <2>2. \A j \in Keys : S[a][j] = WordOf(get(a), a, j)
    BY <2>1
  <2>3. \A j \in Keys : WordOf(e, a, j) = IF j = k THEN w ELSE S[a][j]
    BY <2>2, CacheAssumption DEF WordOf, CacheAssumption
  <2>4. QED
    BY <2>3 DEF WordsOf
<1>3. View' = ViewWith(a, A[a], W)
  BY <1>1, <1>2, ViewPut
<1>4. ViewWith(a, A[a], W) = [account |-> A, storage |-> S2]
  <2>1. [b \in Addresses |-> IF b = a THEN A[a] ELSE A[b]] = A
    BY ViewType
  <2>2. QED
    BY <2>1 DEF ViewWith
<1>5. [S[a] EXCEPT ![k] = w] = W
  <2>1. S[a] = [j \in Keys |-> S[a][j]]
    BY ViewType
  <2>2. QED
    BY <2>1
<1>6. [S EXCEPT ![a] = W] = S2
  BY ViewType
<1>7. View = [account |-> A, storage |-> S]
  BY ViewType
<1> HIDE DEF A, S
<1>8. WithWord(a, k, w) =
        [account |-> A, storage |-> [S EXCEPT ![a] = [S[a] EXCEPT ![k] = w]]]
  BY <1>7 DEF WithWord
<1> HIDE DEF W, S2
<1>9. QED
  BY <1>3, <1>4, <1>5, <1>6, <1>8

\* Sync writes what the view shows, except the storage of removed accounts.
LEMMA SyncedIsView ==
  ASSUME Inv, NEW a \in Addresses
  PROVE  /\ Synced(a).account = View.account[a]
         /\ Synced(a).storage = IF a \in RemovedSet THEN backend.storage[a] ELSE View.storage[a]
<1> cache[a] \in accountInfo /\ backend \in Store
  BY DEF Inv, TypeOK
<1>1. backend.storage[a] = [k \in Keys |-> backend.storage[a][k]]
  BY DEF Store
<1>2. View.account[a] = AccountOf(get(a)) /\ View.storage[a] = [k \in Keys |-> WordOf(get(a), a, k)]
  BY ViewType
<1>3. (a \in RemovedSet <=> cache[a].removed) /\ (cache[a].removed <=> get(a).removed)
  BY Got DEF RemovedSet
<1>4. CASE cache[a].removed
  <2>1. Synced(a) = [account |-> Nil, storage |-> [k \in Keys |-> backend.storage[a][k]]]
    BY <1>4 DEF Synced
  <2>2. AccountOf(get(a)) = Nil
    BY <1>3, <1>4 DEF AccountOf
  <2>3. QED
    BY <1>1, <1>2, <1>3, <1>4, <2>1, <2>2
<1>5. CASE ~cache[a].removed /\ cache[a].updated
  <2>1. Synced(a) = [account |-> cache[a].account, storage |-> [k \in Keys |-> WordOf(cache[a], a, k)]]
    BY <1>5 DEF Synced
  <2>2. cache[a].cached
    BY <1>5 DEF Inv, CleanEntriesMirrorBackend, Absent
  <2>3. get(a) = cache[a]
    BY <2>2 DEF get
  <2>4. AccountOf(get(a)) = cache[a].account
    BY <1>5, <2>3 DEF AccountOf
  <2>5. QED
    BY <1>2, <1>3, <1>5, <2>1, <2>3, <2>4
<1>6. CASE ~cache[a].removed /\ ~cache[a].updated
  <2>1. Synced(a) = [account |-> backend.account[a], storage |-> [k \in Keys |-> backend.storage[a][k]]]
    BY <1>6 DEF Synced
  <2>2. ~get(a).updated /\ ~get(a).removed
    BY <1>6 DEF get, Absent
  <2>3. get(a).account = backend.account[a] /\ \A k \in Keys : WordOf(get(a), a, k) = backend.storage[a][k]
    BY <2>2, Got
  <2>4. AccountOf(get(a)) = backend.account[a]
    BY <1>3, <1>6, <2>3 DEF AccountOf
  <2>5. [k \in Keys |-> WordOf(get(a), a, k)] = [k \in Keys |-> backend.storage[a][k]]
    BY <2>3
  <2>6. QED
    BY <1>2, <1>3, <1>6, <2>1, <2>4, <2>5
<1>7. QED
  BY <1>4, <1>5, <1>6

\* Every operation on one address is that operation of BlockStore.
LEMMA EntryStepRefines ==
  ASSUME Inv, NEW a \in Addresses
  PROVE  /\ GetAccount(a) => Abstract!GetAccount(a)
         /\ \A k \in Keys : GetStorage(a, k) => Abstract!GetStorage(a, k)
         /\ Removed(a) => Abstract!Refuse(a)
         /\ RemoveAccount(a) => Abstract!RemoveAccount(a)
         /\ \A v \in Accounts : UpdateAccount(a, v) => Abstract!UpdateAccount(a, v)
         /\ \A k \in Keys, w \in Words : SetStorage(a, k, w) => Abstract!SetStorage(a, k, w)
<1> get(a) \in accountInfo /\ get(a).cached
  BY Got
<1>0. a \in RemovedSet <=> get(a).removed
  BY Got DEF RemovedSet
<1>9. a \in Orphans <=> get(a).updated /\ ~get(a).removed /\ get(a).account = Nil
  BY OrphanEntry
<1>1. ASSUME GetAccount(a)
      PROVE  Abstract!GetAccount(a)
  <2>1. cache' = [cache EXCEPT ![a] = get(a)] /\ backend' = backend /\ reply' = View.account[a]
    BY <1>1, ViewType DEF GetAccount
  <2>2. View' = View /\ RemovedSet' = RemovedSet /\ Orphans' = Orphans
    BY <2>1, ReadKeepsView
  <2>3. QED
    BY <2>1, <2>2 DEF Abstract!GetAccount, RemovedSet
<1>2. ASSUME NEW k \in Keys, GetStorage(a, k)
      PROVE  Abstract!GetStorage(a, k)
  <2> DEFINE w == WordOf(get(a), a, k)
  <2> DEFINE e == [get(a) EXCEPT !.storage[k] = w]
  <2>1. w \in Words /\ w # Unread
    BY Got, CacheAssumption DEF CacheAssumption
  <2>2. e \in accountInfo /\ e.cached /\ e.removed = get(a).removed
        /\ e.updated = get(a).updated /\ e.account = get(a).account
    BY <2>1 DEF accountInfo
  <2>3. \A j \in Keys : e.storage[j] = IF j = k THEN w ELSE get(a).storage[j]
    BY DEF accountInfo
  <2>4. \A j \in Keys : WordOf(e, a, j) = WordOf(get(a), a, j)
    BY <2>1, <2>3 DEF WordOf
  <2>5. cache' = [cache EXCEPT ![a] = e] /\ backend' = backend /\ reply' = w
    BY <1>2 DEF GetStorage
  <2>6. w = View.storage[a][k]
    <3>1. View.storage[a] = [j \in Keys |-> WordOf(get(a), a, j)]
      BY ViewType
    <3>2. QED
      BY <3>1
  <2> HIDE DEF e, w
  <2>7. View' = View /\ RemovedSet' = RemovedSet /\ Orphans' = Orphans
    BY <2>2, <2>4, <2>5, ReadKeepsView
  <2>8. QED
    BY <2>5, <2>6, <2>7 DEF Abstract!GetStorage, RemovedSet
<1>3. ASSUME Removed(a)
      PROVE  Abstract!Refuse(a)
  <2>1. cache' = [cache EXCEPT ![a] = get(a)] /\ backend' = backend /\ reply' = "error" /\ get(a).removed
    BY <1>3 DEF Removed
  <2>2. View' = View /\ RemovedSet' = RemovedSet /\ Orphans' = Orphans
    BY <2>1, ReadKeepsView
  <2>3. QED
    BY <1>0, <2>1, <2>2 DEF Abstract!Refuse, RemovedSet
<1>4. ASSUME RemoveAccount(a)
      PROVE  Abstract!RemoveAccount(a)
  <2> DEFINE e == [get(a) EXCEPT !.removed = TRUE]
  <2>1. e \in accountInfo /\ e.cached /\ e.removed /\ e.storage = get(a).storage
    BY DEF accountInfo
  <2>2. cache' = [cache EXCEPT ![a] = e] /\ backend' = backend /\ reply' = "ok" /\ ~get(a).removed
    BY <1>4 DEF RemoveAccount
  <2>3. AccountOf(e) = Nil
    BY <2>1 DEF AccountOf
  <2> HIDE DEF e
  <2>5. View' = WithAccount(a, Nil)
    BY <2>1, <2>2, <2>3, AccountChangesView
  <2>6. RemovedSet' = RemovedSet \cup {a} /\ Orphans' = Orphans \ {a}
    BY <2>1, <2>2, SetsPut
  <2>7. QED
    BY <1>0, <2>2, <2>5, <2>6 DEF Abstract!RemoveAccount, RemovedSet, WithAccount
<1>5. ASSUME NEW v \in Accounts, UpdateAccount(a, v)
      PROVE  Abstract!UpdateAccount(a, v)
  <2> DEFINE e == [get(a) EXCEPT !.account = v, !.updated = TRUE]
  <2>1. e \in accountInfo /\ e.cached /\ e.removed = get(a).removed /\ e.account = v
        /\ e.storage = get(a).storage
    BY DEF accountInfo
  <2>2. cache' = [cache EXCEPT ![a] = e] /\ backend' = backend /\ reply' = "ok" /\ ~get(a).removed
    BY <1>5 DEF UpdateAccount
  <2>3. AccountOf(e) = v /\ ~e.removed
    BY <2>1, <2>2 DEF AccountOf
  <2> HIDE DEF e
  <2>4. View' = WithAccount(a, v)
    BY <2>1, <2>2, <2>3, AccountChangesView
  <2>5. RemovedSet' = RemovedSet /\ Orphans' = Orphans \ {a}
    <3>1. v # Nil
      BY CacheAssumption DEF CacheAssumption
    <3>2. RemovedSet' = RemovedSet
      BY <1>0, <2>1, <2>2, <2>3, SetsPut
    <3>3. Orphans' = Orphans \ {a}
      BY <2>1, <2>2, <3>1, SetsPut
    <3>4. QED
      BY <3>2, <3>3
  <2>6. QED
    BY <1>0, <2>2, <2>4, <2>5 DEF Abstract!UpdateAccount, RemovedSet, WithAccount
<1>6. ASSUME NEW k \in Keys, NEW w \in Words, SetStorage(a, k, w)
      PROVE  Abstract!SetStorage(a, k, w)
  <2> DEFINE e == [get(a) EXCEPT !.storage[k] = w, !.updated = TRUE]
  <2>1. e \in accountInfo /\ e.cached /\ e.removed = get(a).removed /\ e.updated
        /\ e.account = get(a).account
    BY DEF accountInfo
  <2>2. \A j \in Keys : e.storage[j] = IF j = k THEN w ELSE get(a).storage[j]
    BY DEF accountInfo
  <2>3. cache' = [cache EXCEPT ![a] = e] /\ backend' = backend /\ reply' = "ok" /\ ~get(a).removed
    BY <1>6 DEF SetStorage
  <2> HIDE DEF e
  <2>4. View' = WithWord(a, k, w)
    BY <2>1, <2>2, <2>3, WordChangesView
  <2>5. RemovedSet' = RemovedSet
    BY <1>0, <2>1, <2>3, SetsPut
  <2>6. View.account[a] = get(a).account
    BY <2>3, ViewType DEF AccountOf
  <2>7. Orphans' = IF View.account[a] = Nil THEN Orphans \cup {a} ELSE Orphans
    BY <1>9, <2>1, <2>3, <2>6, SetsPut
  <2>8. QED
    BY <1>0, <2>3, <2>4, <2>5, <2>7 DEF Abstract!SetStorage, RemovedSet, WithWord
<1>7. QED
  BY <1>1, <1>2, <1>3, <1>4, <1>5, <1>6

\* The state after some accounts, and the storage of some more, are synced is
\* the one BlockStore has after keeping their changes.
LEMMA SyncedIsKept ==
  ASSUME Inv, NEW accounts, NEW stored
  PROVE  Abstract!Kept(accounts, stored) =
           [account |-> [a \in Addresses |-> IF a \in accounts THEN Synced(a).account
                                            ELSE backend.account[a]],
            storage |-> [a \in Addresses |-> IF a \in stored THEN Synced(a).storage
                                            ELSE backend.storage[a]]]
<1>1. \A a \in Addresses : Synced(a).account = View.account[a]
  BY SyncedIsView
<1>2. \A a \in Addresses : (IF a \in stored THEN Synced(a).storage ELSE backend.storage[a]) =
        IF a \in stored \ RemovedSet THEN View.storage[a] ELSE backend.storage[a]
  BY SyncedIsView
<1>3. [a \in Addresses |-> IF a \in accounts THEN Synced(a).account ELSE backend.account[a]] =
        [a \in Addresses |-> IF a \in accounts THEN View.account[a] ELSE backend.account[a]]
  BY <1>1
<1>4. [a \in Addresses |-> IF a \in stored THEN Synced(a).storage ELSE backend.storage[a]] =
        [a \in Addresses |-> IF a \in stored \ RemovedSet THEN View.storage[a]
                            ELSE backend.storage[a]]
  BY <1>2
<1>5. QED
  BY <1>3, <1>4, Zenon DEF Abstract!Kept, RemovedSet

\* Flush keeps the changes and Reset drops them.
LEMMA EndRefines ==
  ASSUME Inv, Flush \/ Reset, View' = backend', RemovedSet' = {}, Orphans' = {}
  PROVE  Abstract!Keep \/ Abstract!Drop
<1>1. CASE Flush
  <2>1. [a \in Addresses |-> Synced(a).account] =
          [a \in Addresses |-> IF a \in Addresses THEN Synced(a).account ELSE backend.account[a]]
    OBVIOUS
  <2>2. [a \in Addresses |-> Synced(a).storage] =
          [a \in Addresses |-> IF a \in Addresses THEN Synced(a).storage ELSE backend.storage[a]]
    OBVIOUS
  <2>3. backend' = Abstract!Kept(Addresses, Addresses)
    <3>1. Abstract!Kept(Addresses, Addresses) =
            [account |-> [a \in Addresses |-> IF a \in Addresses THEN Synced(a).account
                                             ELSE backend.account[a]],
             storage |-> [a \in Addresses |-> IF a \in Addresses THEN Synced(a).storage
                                             ELSE backend.storage[a]]]
      BY SyncedIsKept
    <3>2. QED
      BY <1>1, <2>1, <2>2, <3>1, Zenon DEF Flush
  <2>4. reply' = "ok" /\ Orphans = {}
    BY <1>1 DEF Flush
  <2>5. Abstract!Keep
    BY <2>3, <2>4, Zenon DEF Abstract!Keep, RemovedSet
  <2>6. QED
    BY <2>5
<1>2. CASE Reset
  BY <1>2 DEF Reset, Abstract!Drop, RemovedSet
<1>3. QED
  BY <1>1, <1>2

\* A Sync that fails is not seen through the cache: what it wrote is what the
\* entries of the cache say.
LEMMA FailKeepsView ==
  ASSUME Inv, FlushFails
  PROVE  View' = View /\ RemovedSet' = RemovedSet /\ Orphans' = Orphans
<1> backend \in Store /\ cache \in [Addresses -> accountInfo] /\ cache' = cache
  BY DEF Inv, TypeOK, FlushFails
<1>1. \A a \in Addresses : /\ backend'.account[a] \in {Synced(a).account, backend.account[a]}
                           /\ backend'.storage[a] \in {Synced(a).storage, backend.storage[a]}
  BY DEF FlushFails
<1>2. ASSUME NEW a \in Addresses
      PROVE  /\ AccountOf(get(a))' = AccountOf(get(a))
             /\ \A k \in Keys : WordOf(get(a), a, k)' = WordOf(get(a), a, k)
  <2>1. CASE cache[a].cached
    <3>1. get(a) = cache[a] /\ get(a)' = cache[a]
      BY <2>1 DEF get
    <3>2. \A k \in Keys : cache[a].storage[k] = Unread => backend'.storage[a][k] = backend.storage[a][k]
      <4>1. \A k \in Keys : cache[a].storage[k] = Unread => Synced(a).storage[k] = backend.storage[a][k]
        BY DEF Synced, WordOf
      <4>2. QED
        BY <1>1, <4>1
    <3>3. QED
      BY <3>1, <3>2 DEF AccountOf, WordOf
  <2>2. CASE ~cache[a].cached
    <3>1. cache[a] = Absent
      BY <2>2 DEF Inv, CleanEntriesMirrorBackend
    <3>2. Synced(a) = [account |-> backend.account[a], storage |-> [k \in Keys |-> backend.storage[a][k]]]
      BY <3>1 DEF Synced, Absent
    <3>3. [k \in Keys |-> backend.storage[a][k]] = backend.storage[a]
      BY DEF Store
    <3>4. backend'.account[a] = backend.account[a] /\ backend'.storage[a] = backend.storage[a]
      BY <1>1, <3>2, <3>3
    <3>5. get(a)' = get(a)
      BY <3>4 DEF get, Absent
    <3>6. QED
      BY <3>4, <3>5 DEF AccountOf, WordOf
  <2>3. QED
    BY <2>1, <2>2
<1>3. [a \in Addresses |-> AccountOf(get(a))'] = [a \in Addresses |-> AccountOf(get(a))]
  BY <1>2
<1>4. [a \in Addresses |-> [k \in Keys |-> WordOf(get(a), a, k)']] =
        [a \in Addresses |-> [k \in Keys |-> WordOf(get(a), a, k)]]
  BY <1>2
<1>5. View' = [account |-> [a \in Addresses |-> AccountOf(get(a))'],
               storage |-> [a \in Addresses |-> [k \in Keys |-> WordOf(get(a), a, k)']]]
  BY DEF View
<1>6. View' = View
  BY <1>3, <1>4, <1>5, Zenon DEF View
<1>7. QED
  BY <1>6 DEF RemovedSet, Orphans

\* It keeps the changes of the addresses before the first orphan, and that
\* one's storage.
LEMMA FailRefines ==
  ASSUME Inv, FlushFails
  PROVE  Abstract!KeepFails
<1>1. PICK f \in Orphans :
        /\ \A a \in Orphans : f <= a
        /\ backend' = [account |-> [a \in Addresses |-> IF a < f THEN Synced(a).account
                                                       ELSE backend.account[a]],
                       storage |-> [a \in Addresses |-> IF a <= f THEN Synced(a).storage
                                                       ELSE backend.storage[a]]]
  BY DEF FlushFails
<1> DEFINE whole == {a \in Addresses : a < f}
<1>2. f \in Nat /\ Addresses \subseteq Nat
  BY CacheAssumption DEF CacheAssumption, Orphans
<1>3. whole \in SUBSET (Addresses \ Orphans)
  <2>1. \A a \in Orphans : f <= a
    BY <1>1
  <2>2. ASSUME NEW a \in Addresses, a < f
        PROVE  a \notin Orphans
    BY <1>2, <2>1, <2>2
  <2>3. QED
    BY <2>2
<1>4. \A a \in Addresses : (a < f <=> a \in whole) /\ (a <= f <=> a \in whole \cup {f})
  BY <1>2
<1> HIDE DEF whole
<1>5. [a \in Addresses |-> IF a < f THEN Synced(a).account ELSE backend.account[a]] =
        [a \in Addresses |-> IF a \in whole THEN Synced(a).account ELSE backend.account[a]]
  BY <1>4
<1>6. [a \in Addresses |-> IF a <= f THEN Synced(a).storage ELSE backend.storage[a]] =
        [a \in Addresses |-> IF a \in whole \cup {f} THEN Synced(a).storage ELSE backend.storage[a]]
  BY <1>4
<1>7. backend' = Abstract!Kept(whole, whole \cup {f})
  <2>1. Abstract!Kept(whole, whole \cup {f}) =
          [account |-> [a \in Addresses |-> IF a \in whole THEN Synced(a).account
                                           ELSE backend.account[a]],
           storage |-> [a \in Addresses |-> IF a \in whole \cup {f} THEN Synced(a).storage
                                           ELSE backend.storage[a]]]
    BY SyncedIsKept
  <2>2. QED
    BY <1>1, <1>5, <1>6, <2>1, Zenon
<1>8. View' = View /\ RemovedSet' = RemovedSet /\ Orphans' = Orphans /\ reply' = "failed"
  BY FailKeepsView DEF FlushFails
<1>9. QED
  BY <1>3, <1>7, <1>8, Zenon DEF Abstract!KeepFails, RemovedSet

\* Every step of the cache is a step of BlockStore or changes nothing in it.
LEMMA NextRefines ==
  ASSUME Inv, [Next]_vars,
         (Flush \/ Reset) => View' = backend' /\ RemovedSet' = {} /\ Orphans' = {}
  PROVE  Abstract!Next \/ UNCHANGED <<backend, View, RemovedSet, Orphans, reply>>
<1>1. ASSUME NEW a \in Addresses, Call(a)
      PROVE  Abstract!Next
  BY <1>1, EntryStepRefines DEF Call, Abstract!Next
<1>2. CASE Flush \/ Reset
  BY <1>2, EndRefines DEF Abstract!Next
<1>3. CASE FlushFails
  BY <1>3, FailRefines DEF Abstract!Next
<1>4. CASE UNCHANGED vars
  BY <1>4 DEF vars, View, RemovedSet, Orphans, AccountOf, WordOf, get
<1>5. QED
  BY <1>1, <1>2, <1>3, <1>4 DEF Next

\* The cache implements BlockStore: whatever the sequence of reads, writes,
\* removals, flushes, failed flushes and resets, each call answers as the state
\* itself would.
THEOREM CacheImplementsBlockStore == Spec => ImplementsBlockStore
<1>1. Init => Abstract!Init
  <2> SUFFICES ASSUME Init
               PROVE  Abstract!Init
    OBVIOUS
  <2>1. View = backend /\ RemovedSet = {} /\ Orphans = {}
    BY ViewEmpty DEF Init, Fresh
  <2>2. QED
    BY <2>1 DEF Init, Abstract!Init, Abstract!Store, Store, RemovedSet
<1>2. Inv /\ Inv' /\ [Next]_vars => [Abstract!Next]_<<backend, View, RemovedSet, Orphans, reply>>
  <2> SUFFICES ASSUME Inv, Inv', [Next]_vars
               PROVE  [Abstract!Next]_<<backend, View, RemovedSet, Orphans, reply>>
    OBVIOUS
  <2>1. Flush \/ Reset => Fresh'
    BY DEF Flush, Reset, Fresh, Inv, TypeOK, Empty, Absent
  <2>2. Fresh' => (View = backend /\ RemovedSet = {} /\ Orphans = {})'
    BY ViewEmpty, PTL
  <2>3. QED
    BY <2>1, <2>2, NextRefines
<1>3. Spec => []Inv
  BY EntriesSound DEF Inv
<1>4. QED
  BY <1>1, <1>2, <1>3, PTL DEF Spec, ImplementsBlockStore, Abstract!Spec, RemovedSet
=============================================================================
