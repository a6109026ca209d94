---------------------------- MODULE MCMscWrite ----------------------------
(* An image of five sectors in two fragments on a card of seven; chunks of   *)
(* two sectors, so a chunk can straddle the fragments.                  *)
EXTENDS MscWrite, TLC
CONSTANTS b1, b2, b3, x, y
MCBuf      == {b1, b2, b3}
MCValue    == {x, y, Blank}
MCChunkLen == 2
MCPattern  == [1..MCChunkLen -> MCValue]
MCFSec     == 0..4
MCPlace    == 0 :> 1 @@ 1 :> 2 @@ 2 :> 3 @@ 3 :> 5 @@ 4 :> 6
MCCmdLens  == {2, 5}
MCHostData == {[f \in MCFSec |-> IF f % 2 = 0 THEN x ELSE y], [f \in MCFSec |-> IF f % 2 = 0 THEN y ELSE x]}
Symmetry   == Permutations(MCBuf) \cup Permutations({x, y})
MCInit     == WInit /\ mem = [b \in MCBuf |-> [i \in 1..MCChunkLen |-> Blank]]
MCSpec     == MCInit /\ [][WNext]_allVars
=============================================================================
