---------------------------- MODULE MCRingWindow ----------------------------
(* Three validators, one of them without power at genesis; a total of 12    *)
(* allows a flow of 3 per block.                                            *)
EXTENDS RingWindow

CONSTANTS v1, v2, v3

MCGenesis == (v1 :> 7) @@ (v2 :> 5)
=============================================================================
