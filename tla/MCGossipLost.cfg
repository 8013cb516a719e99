\* The miner m, a follower f, and r, a node on another chain at height 2
\* that dials f.  Blocks up to height 3 in batches of 2, each block one
\* unit against a message limit of one unit: a window of two blocks cannot
\* be sent; f rejects block 1.  No connection is lost by the network.
CONSTANTS
    m = m
    f = f
    r = r
    Nodes <- MCForeignNodes
    Links <- MCForeignLinks
    Miner = m
    MaxHeight = 3
    SYNC_BATCH_SIZE = 2
    MaxDrops = 0
    NONE = NONE
    MAX_MESSAGE_SIZE = 1
    BlockSize <- MCUnitBlocks
    Foreign = {r}
    ForeignHeight = 2
    Rejects <- MCFollowerRejectsFirst
\* The miner stops at MaxHeight; once every stream is drained nothing moves.
CHECK_DEADLOCK FALSE
SPECIFICATION Spec

PROPERTY SyncEventuallyDone
