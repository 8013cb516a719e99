\* The miner m and a follower f, blocks up to height 3 in batches of 2, so
\* that a follower joining late syncs in two windows, two transactions of
\* one sender, no connection lost.
CONSTANTS
    m = m
    f = f
    Nodes <- MCNodes
    Links <- MCLinks
    Miner = m
    MaxHeight = 3
    SYNC_BATCH_SIZE = 2
    MaxDrops = 0
    NONE = NONE
    Foreign = {}
    ForeignHeight = 0
    Rejects = {}
    MAX_MESSAGE_SIZE = 2
    BlockSize <- MCUnitBlocks
    MaxTx = 2
\* The miner stops at MaxHeight; once every stream is drained nothing moves.
CHECK_DEADLOCK FALSE
SPECIFICATION Spec
PROPERTY PoolsConverge
