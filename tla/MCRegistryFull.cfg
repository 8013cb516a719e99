\* One free slot: b1 and b2 learnt by peer exchange, and a remote end
\* connecting at the same time.
CONSTANTS
    b1 = b1
    b2 = b2
    r1 = r1
    NONE = NONE
    Addrs <- MCAddrs
    Remotes <- MCRemotes
    Bootstrap <- MCBootstrap
    MAX_PEERS = 1
    MaxConns = 3
CHECK_DEADLOCK FALSE
SPECIFICATION Spec
INVARIANT PeersBounded
