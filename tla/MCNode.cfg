\* One node (a1) with a mempool of two, fees 1 and 2 so that eviction
\* happens, a peer miner (a2), one block after genesis: the mempool rules
\* and the templates the miner builds.
CONSTANTS
    a1 = a1
    a2 = a2
    b1 = b1
    b2 = b2
    Accounts <- MCAccounts
    Miners <- MCAccounts
    Bodies <- MCBodies
    Self = a1
    Amounts = {1}
    Fees = {1, 2}
    MaxNonce = 1
    MaxHeight = 1
    MaxBlockTxs = 1
    INITIAL_BLOCK_REWARD = 4
    HALVING_INTERVAL = 2
    MINIMUM_GAS_FEE = 1
    MAX_BLOCK_SIZE = 10
    HEADER_SIZE = 2
    ESTIMATE_HEADER = 2
    SerializedSize <- MCSerializedSize
    EstimatedSize <- MCEstimatedSize
    MAX_MEMPOOL_SIZE = 2
    NoPost = NoPost
    NoAccount = NoAccount
    NoBlock = NoBlock
\* The height bound stops both miners; the real loop runs forever.
CHECK_DEADLOCK FALSE
SPECIFICATION Spec
INVARIANTS PoolValid PoolBounded TemplateValid
