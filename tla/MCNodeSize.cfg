\* The node of MCNode.cfg, with a post body b2 of non-ASCII text.
CONSTANTS
    a1 = a1
    a2 = a2
    b1 = b1
    b2 = b2
    Accounts <- MCAccounts
    Miners <- MCAccounts
    Bodies <- MCWideBodies
    Self = a1
    Amounts = {1}
    Fees = {1}
    MaxNonce = 1
    MaxHeight = 1
    MaxBlockTxs = 1
    INITIAL_BLOCK_REWARD = 4
    HALVING_INTERVAL = 2
    MINIMUM_GAS_FEE = 1
    MAX_BLOCK_SIZE = 10
    HEADER_SIZE = 2
    ESTIMATE_HEADER = 2
    SerializedSize <- MCWideSerializedSize
    EstimatedSize <- MCEstimatedSize
    MAX_MEMPOOL_SIZE = 2
    NoPost = NoPost
    NoAccount = NoAccount
    NoBlock = NoBlock
\* The height bound stops both miners; the real loop runs forever.
CHECK_DEADLOCK FALSE
SPECIFICATION Spec
INVARIANT TemplateWithinSizeLimit
