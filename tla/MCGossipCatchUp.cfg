\* Three nodes, blocks up to height 2, batches of 1 so that a sync takes
\* more than one window; no connection is lost.
CONSTANTS
    m = m
    f = f
    r = r
    Nodes <- MCNodes
    Links <- MCLinks
    Miner = m
    MaxHeight = 2
    SYNC_BATCH_SIZE = 1
    MaxDrops = 0
    NONE = NONE
    Foreign = {}
    ForeignHeight = 0
    Rejects = {}
    MAX_MESSAGE_SIZE = 1
    BlockSize <- MCUnitBlocks
\* The miner stops at MaxHeight; once every stream is drained nothing moves.
CHECK_DEADLOCK FALSE
SPECIFICATION Spec

PROPERTY CatchUp
