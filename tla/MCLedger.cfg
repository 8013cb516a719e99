CONSTANTS
    a1 = a1
    a2 = a2
    b1 = b1
    Accounts <- MCAccounts
    Miners <- MCAccounts
    Bodies <- MCBodies
    Amounts = {0, 1}
    Fees = {1}
    MaxNonce = 1
    MaxHeight = 3
    MaxBlockTxs = 2
    INITIAL_BLOCK_REWARD = 2
    HALVING_INTERVAL = 2
    MINIMUM_GAS_FEE = 1
    MAX_BLOCK_SIZE = 100
    HEADER_SIZE = 1
    SerializedSize <- MCSerializedSize
    NoPost = NoPost
    NoAccount = NoAccount
SYMMETRY MCSymmetry
\* A chain nobody appends to may stay at any height: no deadlock check.
CHECK_DEADLOCK FALSE
INIT Init
NEXT Next
INVARIANTS
    TypeOK
    SupplyConservation
    TipStateRootMatches
    NonceCountsConfirmed
    ReferencesPrecede
    BalancesNonNegative
PROPERTY ImplementsAbstractChain
