\* Bootstrap b1 and b2, one inbound remote, b1 and b2 learnt by peer
\* exchange, room for all three, up to five connections so that a key is
\* dialed, lost and dialed again.
CONSTANTS
    b1 = b1
    b2 = b2
    r1 = r1
    NONE = NONE
    Addrs <- MCAddrs
    Remotes <- MCRemotes
    Bootstrap <- MCBootstrap
    MAX_PEERS = 3
    MaxConns = 5
\* Once MaxConns connections are closed nothing is enabled.
CHECK_DEADLOCK FALSE
SPECIFICATION Spec
INVARIANTS RegisteredAreOpen OpenAreRegistered
