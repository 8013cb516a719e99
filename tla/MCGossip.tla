------------------------------ MODULE MCGossip ------------------------------
(* Three nodes: the miner m, and followers f and r; f dials both, r dials *)
(* m, so every follower has two ways to learn of a block.                 *)
EXTENDS Gossip

CONSTANTS m, f, r

MCNodes == {m, f, r}
MCLinks == {<<f, m>>, <<r, m>>, <<f, r>>}

\* The miner and one follower that dials it.
MCPairNodes == {m, f}
MCPairLinks == {<<f, m>>}

\* The miner, a follower f, and r on another chain, which dials f.
MCForeignNodes == {m, f, r}
MCForeignLinks == {<<f, m>>, <<r, f>>}

\* Blocks of one size unit each.
MCUnitBlocks == [h \in 1..MaxHeight |-> 1]

\* The follower f rejects block 1 (say, its clock is behind the miner's).
MCFollowerRejectsFirst == {<<f, 1>>}

====
