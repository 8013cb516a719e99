------------------------------ MODULE MCMerkle ------------------------------
(* Model values for the transaction hashes of Merkle.                     *)
EXTENDS Merkle

CONSTANTS a, b, c, d, E

\* Four hashes: duplicate-free lists of every length up to four meet
\* [a,b,c] and [a,b,c,c].
MCHashes4 == {a, b, c, d}
====
