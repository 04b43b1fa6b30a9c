--------------------------- MODULE MCChainManager ---------------------------
(* Small instances of ChainManager. *)
EXTENDS ChainManager, TLC

CONSTANTS a1, a2, b1, b2, c1, d1

(* Two chains of two blocks on the genesis block; b1 is heavier than a1, the
   second blocks are so heavy that either chain can overtake the other.  c1 and
   d1 are two blocks that are never stored.                                *)
MCParent == [b \in Blocks |-> CASE b = a2 -> a1 [] b = b2 -> b1 [] OTHER -> Genesis]
MCNumber == [b \in AllBlocks |-> CASE b = Genesis -> 0 [] b \in {a1, b1, c1, d1} -> 1 [] OTHER -> 2]
MCDifficulty == [b \in AllBlocks |-> CASE b \in {a2, b1} -> 2 [] b = b2 -> 3 [] OTHER -> 1]

(* Single blocks, or also either chain as a whole. *)
Singles  == {<<b>> : b \in Blocks}
MCChains == Singles \cup {<<a1, a2>>, <<b1, b2>>}

(* Nothing is early, or the first block of one chain is, and a little the
   second of the other.                                                    *)
NoDelay == [b \in Blocks |-> 0]
MCDelay == [b \in Blocks |-> IF b = a1 THEN 2 ELSE IF b = b2 THEN 1 ELSE 0]
=============================================================================
