------------------------ MODULE MCValidatorHandover ------------------------
(* Total power 12, so that three units may flow in a block: changes that    *)
(* add, remove, repeat, revert, or are refused.                             *)
EXTENDS ValidatorHandover
CONSTANTS v1, v2, v3
MCValidators == {v1, v2, v3}
MCGenesis == v1 :> 7 @@ v2 :> 5
MCRequests == {<<v1, 10>>, <<v1, 7>>, <<v2, 6>>, <<v3, 2>>, <<v3, 0>>}
============================================================================
