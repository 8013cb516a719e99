\* The same address given twice in --peers: two connect_to_peer tasks for
\* b1 run concurrently.
CONSTANTS
    b1 = b1
    b2 = b2
    r1 = r1
    NONE = NONE
    Addrs <- MCAddrs
    Remotes <- MCRemotes
    Bootstrap <- MCBootstrapTwice
    MAX_PEERS = 3
    MaxConns = 4
CHECK_DEADLOCK FALSE
SPECIFICATION Spec
INVARIANT OpenAreRegistered
