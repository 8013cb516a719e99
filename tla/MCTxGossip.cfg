\* The miner m and a follower f, blocks up to height 4 in batches of 2, so
\* that a sync takes two windows, and the last block too large to share a
\* SYNC_RESPONSE; two transactions of one sender (nonces 0 and 1), and one
\* connection loss.
CONSTANTS
    m = m
    f = f
    Nodes <- MCNodes
    Links <- MCLinks
    Miner = m
    MaxHeight = 4
    SYNC_BATCH_SIZE = 2
    MaxDrops = 1
    NONE = NONE
    Foreign = {}
    ForeignHeight = 0
    Rejects = {}
    MAX_MESSAGE_SIZE = 2
    BlockSize <- MCLastBlockLarge
    MaxTx = 2
\* The miner stops at MaxHeight; once every stream is drained nothing moves.
CHECK_DEADLOCK FALSE
SPECIFICATION Spec
PROPERTY TxReachesMiner
