------------------------------- MODULE Merkle -------------------------------
(***************************************************************************)
(* The transaction Merkle tree of src/jiji/core/merkle.py: merkle_root,    *)
(* merkle_proof and verify_merkle_proof, as recursive operators over the  *)
(* levels of the tree.                                                     *)
(*                                                                         *)
(* SHA-256 of the concatenation of two 32-byte hashes is an ideal hash:   *)
(* HashPair(x, y) is the pair itself, so two digests are equal exactly    *)
(* when their preimages are.  Leaf hashes are model values, distinct from *)
(* every pair.                                                             *)
(*                                                                         *)
(* The state is a block's list of transaction hashes, built one hash at   *)
(* a time, so that the invariants range over every list up to the bound;  *)
(* a second block's list ranges over every list up to MaxOther.           *)
(***************************************************************************)
EXTENDS Integers, Sequences, SequencesExt

CONSTANTS
    Hashes,       \* transaction hashes (tx.tx_hash())
    EMPTY_HASH,   \* sha256(b"")
    MaxLeaves,    \* bound on the length of txs
    MaxOther      \* bound on the length of a second block's list

ASSUME EMPTY_HASH \notin Hashes

VARIABLE txs      \* the tx hashes of a block, in order

vars == <<txs>>

-----------------------------------------------------------------------------
(* merkle.py                                                               *)

\* sha256(left + right)
HashPair(x, y) == <<x, y>>

\* Fault variant of Pad: level[0] for level[-1].
PadFirst(level) ==
    IF Len(level) % 2 = 1 THEN Append(level, level[1]) ELSE level

\* An odd level duplicates its last hash.
Pad(level) ==
    IF Len(level) % 2 = 1 THEN Append(level, level[Len(level)]) ELSE level

\* The next level: the hash of each pair of the padded level.
NextLevel(level) ==
    LET p == Pad(level)
    IN  [i \in 1..(Len(p) \div 2) |-> HashPair(p[2 * i - 1], p[2 * i])]

\* The while loop of merkle_root, from a nonempty level.
RECURSIVE RootOfLevel(_)
RootOfLevel(level) ==
    IF Len(level) > 1 THEN RootOfLevel(NextLevel(level)) ELSE level[1]

\* merkle_root
MerkleRoot(hashes) ==
    IF hashes = <<>> THEN EMPTY_HASH ELSE RootOfLevel(hashes)

\* Fault variant of ProofStep: the side of the sibling recorded the wrong
\* way round.
ProofStepFlipped(level, idx) ==
    LET p == Pad(level)
    IN  IF idx % 2 = 0 THEN [sibling |-> p[idx + 2], is_left |-> TRUE]
                       ELSE [sibling |-> p[idx],     is_left |-> FALSE]

\* One step of merkle_proof at 0-based position idx of a level: the sibling
\* and whether it is on the left.
ProofStep(level, idx) ==
    LET p == Pad(level)
    IN  IF idx % 2 = 0 THEN [sibling |-> p[idx + 2], is_left |-> FALSE]
                       ELSE [sibling |-> p[idx],     is_left |-> TRUE]

\* The while loop of merkle_proof, from the level holding position idx.
RECURSIVE ProofOfLevel(_, _)
ProofOfLevel(level, idx) ==
    IF Len(level) > 1
    THEN <<ProofStep(level, idx)>> \o ProofOfLevel(NextLevel(level), idx \div 2)
    ELSE <<>>

\* merkle_proof for a 0-based index; the ValueError of an index outside the
\* list is a precondition here.
MerkleProof(hashes, index) == ProofOfLevel(hashes, index)

\* verify_merkle_proof
VerifyMerkleProof(leaf, proof, root) ==
    FoldLeft(LAMBDA cur, s : IF s.is_left THEN HashPair(s.sibling, cur)
                                          ELSE HashPair(cur, s.sibling),
             leaf, proof) = root

\* Fault variant of NoDuplicateTxs: only chain.tx_index is consulted, not
\* the hashes seen earlier in the block.
NoDuplicateTxsChainOnly(hs) == TRUE

\* The duplicate-transaction check of validate_block: no tx hash twice.
NoDuplicateTxs(hs) == IsInjective(hs)

-----------------------------------------------------------------------------
(* Enumerating tx lists.                                                   *)

Init == txs = <<>>

\* A transaction is added to the block's list.
AddTx(h) ==
    /\ Len(txs) < MaxLeaves
    /\ txs' = Append(txs, h)

Next == \E h \in Hashes : AddTx(h)

Spec == Init /\ [][Next]_vars

-----------------------------------------------------------------------------
(* Properties.                                                             *)

\* The reference tree, top down: a tree of depth d over s holds its first
\* 2^(d-1) hashes on the left; a right half with no hashes is a copy of the
\* left (spec 4.2: an odd level duplicates its last element).
RECURSIVE TreeRoot(_, _)
TreeRoot(s, d) ==
    IF d = 0 THEN s[1]
    ELSE LET half == 2^(d - 1)
             l    == TreeRoot(SubSeq(s, 1, IF Len(s) < half THEN Len(s) ELSE half), d - 1)
         IN  HashPair(l, IF Len(s) > half THEN TreeRoot(SubSeq(s, half + 1, Len(s)), d - 1)
                                          ELSE l)

\* The depth of the tree over n > 0 leaves: the least d with 2^d >= n.
Depth(n) == CHOOSE d \in 0..n : 2^d >= n /\ (d = 0 \/ 2^(d - 1) < n)

RefRoot(s) == IF s = <<>> THEN EMPTY_HASH ELSE TreeRoot(s, Depth(Len(s)))

\* merkle_root's bottom-up loop, with its duplication of the last hash of
\* each odd level, computes the reference tree's root for every list.
RootMatchesReference == MerkleRoot(txs) = RefRoot(txs)

\* For every position of a nonempty list, the proof merkle_proof builds is
\* accepted by verify_merkle_proof for the leaf at that position and for
\* no other hash (spec: the Merkle round trip, and tampering with the leaf
\* invalidates the proof).
ProofSound ==
    \A i \in 0..(Len(txs) - 1), x \in Hashes :
        VerifyMerkleProof(x, MerkleProof(txs, i), MerkleRoot(txs)) <=> x = txs[i + 1]

\* The tx_merkle_root commits to the transactions: two lists that pass the
\* duplicate-transaction check have the same root only if they are the
\* same list.  Duplicating the last hash of an odd level makes [a,b,c] and
\* [a,b,c,c] share a root, so the check is what this rests on.
RootCommits ==
    \A other \in BoundedSeq(Hashes, MaxOther) :
        NoDuplicateTxs(txs) /\ NoDuplicateTxs(other) /\ MerkleRoot(txs) = MerkleRoot(other)
            => txs = other

====
