-------------------------- MODULE MCMempoolSigning --------------------------
(* Two clients, three accounts and two mutexes, so that accounts 1 and 3    *)
(* share one.                                                               *)
EXTENDS MempoolSigning

\* Accounts are numbered, the number being the address's leading bytes.
HashIdentity == [a \in Accounts |-> a]

\* Opposite orders of two mutexes, directly and through a shared one, and two
\* inputs with one mutex.
Lists == {<<1>>, <<1, 2>>, <<2, 1>>, <<1, 3>>, <<2, 3>>}

PairList == {<<1, 3>>, <<1>>}
=============================================================================
