------------------------------ MODULE MCLedger ------------------------------
(* Model-checking instance of Ledger: two keys that both mine, one post    *)
(* body, tips and transfers of 1, fee 1, nonces 0..1, a reward of 2 that   *)
(* halves every 2 blocks, and blocks of up to two signed transactions so   *)
(* that intra-block dependencies (a post and its endorsement, a transfer  *)
(* and a spend of it) occur.                                               *)
EXTENDS Ledger

CONSTANTS a1, a2, b1

MCAccounts == {a1, a2}
MCBodies == {b1}
\* Sizes never bind here: block size is the subject of MCNode.
MCSerializedSize(tx) == 1
MCSymmetry == Permutations(MCAccounts)
=============================================================================
