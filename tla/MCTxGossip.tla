----------------------------- MODULE MCTxGossip -----------------------------
(* The miner m and a follower f that dials it.                           *)
EXTENDS TxGossip

CONSTANTS m, f

MCNodes == {m, f}
MCLinks == {<<f, m>>}

\* Blocks of one size unit each.
MCUnitBlocks == [h \in 1..MaxHeight |-> 1]

\* The last block is twice the size of the others.
MCLastBlockLarge == [h \in 1..MaxHeight |-> IF h = MaxHeight THEN 2 ELSE 1]

====
