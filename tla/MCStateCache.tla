---------------------------- MODULE MCStateCache ----------------------------
(* Two addresses, one storage key (keys do not interact), two accounts and  *)
(* two words.                                                               *)
EXTENDS StateCache
=============================================================================
