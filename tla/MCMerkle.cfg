\* Lists of up to seven leaves over four hashes: every proof and root of
\* lists of 1..7 leaves, with odd levels at depths one and two, each
\* duplicate-free one compared with every list of up to four leaves.
CONSTANTS
    a = a
    b = b
    c = c
    d = d
    E = E
    Hashes <- MCHashes4
    EMPTY_HASH = E
    MaxLeaves = 7
    MaxOther = 4
\* Once the list is at its bound nothing is enabled.
CHECK_DEADLOCK FALSE
SPECIFICATION Spec
INVARIANTS RootMatchesReference ProofSound RootCommits
