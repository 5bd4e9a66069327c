------------------------- MODULE MCLastSignedInfo -------------------------
(* Two blocks and two timestamps: enough for a conflicting message and for  *)
(* one that differs by its timestamp only.                                  *)
EXTENDS LastSignedInfo

CONSTANTS b1, b2

MCBlocks == {b1, b2}
MCTimestamps == {1, 2}
===========================================================================
