--------------------------- MODULE MCBlockCommit ---------------------------
(* Two accounts, so that consecutive blocks may touch the same one or not. *)
EXTENDS BlockCommit
CONSTANTS a1, a2
MCAccounts == {a1, a2}
============================================================================
