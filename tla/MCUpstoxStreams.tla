--------------------------- MODULE MCUpstoxStreams ---------------------------
(* A consumer on the loop that may come back in another mode, and one in a    *)
(* thread that wants the same instrument in a mode for which there is no room.*)
EXTENDS UpstoxStreams, TLC

CONSTANTS c1, c2, k1, ltpc, full, d30

MCCalls == {[consumer |-> c1, key |-> k1, mode |-> ltpc],
            [consumer |-> c1, key |-> k1, mode |-> full],
            [consumer |-> c2, key |-> k1, mode |-> d30]}

MCOneCall == {[consumer |-> c1, key |-> k1, mode |-> ltpc]}

MCCap == (ltpc :> 1) @@ (full :> 1) @@ (d30 :> 0)
==============================================================================
