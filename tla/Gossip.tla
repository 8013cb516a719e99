------------------------------- MODULE Gossip -------------------------------
(***************************************************************************)
(* Block gossip and batched chain synchronisation between jiji nodes      *)
(* (src/jiji/net/server.py, net/peer.py, and the gossip side of           *)
(* node.handle_new_block and the mining loop).                            *)
(*                                                                         *)
(* One node mines; the others only follow.  Without a second miner there  *)
(* are no forks, so a block is identified by its height and a node's      *)
(* chain by its height; validity of blocks is the subject of Ledger.      *)
(*                                                                         *)
(* Each connection is a pair of TCP streams: chan[a][b] is the FIFO of    *)
(* messages a has written for b.  A handler runs from one message to the  *)
(* next without yielding: peer.send only writes into the transport buffer *)
(* (StreamWriter.drain returns at once unless the buffer is full), so one *)
(* message is handled in one step.  A connection may be lost, with the    *)
(* data in flight; both ends then close and leave the registry.          *)
(***************************************************************************)
EXTENDS Integers, Sequences, FiniteSets, SequencesExt

CONSTANTS
    Nodes,            \* the nodes
    Miner,            \* the one node whose _mining_loop runs
    Links,            \* <<dialer, listener>>: the bootstrap peers dialed
    MaxHeight,        \* the miner stops at this height
    SYNC_BATCH_SIZE,  \* config.SYNC_BATCH_SIZE
    MaxDrops,         \* connection losses in one behaviour
    NONE,             \* make_block_response(None)
    BlockSize,        \* BlockSize[h]: bytes of block h in a SYNC_RESPONSE
    MAX_MESSAGE_SIZE, \* config.MAX_MESSAGE_SIZE, in the same unit
    Foreign,          \* nodes whose chain has another genesis block
    ForeignHeight,    \* the height of their chain; they do not mine
    Rejects           \* <<n, h>>: add_block at n raises on block h

ASSUME /\ Miner \in Nodes
       /\ Links \subseteq Nodes \X Nodes
       /\ \A l \in Links : l[1] # l[2] /\ <<l[2], l[1]>> \notin Links
       /\ Miner \notin Foreign
       /\ Rejects \subseteq (Nodes \ {Miner}) \X (1..MaxHeight)

\* The genesis hash node n sends in its handshake: its chain's, "ours" for
\* the nodes that follow the miner.
GenesisOf(n) == IF n \in Foreign THEN "foreign" ELSE "ours"

\* The nodes on the miner's chain.
Network == Nodes \ Foreign

VARIABLES
    height,        \* height[n]: Blockchain.height of node n
    syncing,       \* syncing[n]: P2PServer._syncing
    seen,          \* seen[n]: _seen_block_hashes (blocks are their heights)
    ep,            \* ep[a][b]: a's connection to b, see below
    peer_height,   \* peer_height[a][b]: PeerConnection.peer_height
    chan,          \* chan[a][b]: messages written by a, not yet read by b
    drops          \* connection losses so far

vars == <<height, syncing, seen, ep, peer_height, chan, drops>>

\* The states of ep[a][b]: "none": never connected; "dialing": handshake
\* sent, awaiting the reply (connect_to_peer); "start": registered, _peer_loop not yet running;
\* "open": in _peer_loop; "closed": PeerConnection._closed.

Handshake(n)     == [type |-> "HANDSHAKE", height |-> height[n], genesis |-> GenesisOf(n)]
Announce(h)      == [type |-> "BLOCK_ANNOUNCE", height |-> h]
Request(h)       == [type |-> "BLOCK_REQUEST", height |-> h]
Response(b)      == [type |-> "BLOCK_RESPONSE", block |-> b]
SyncRequest(s, e) == [type |-> "SYNC_REQUEST", start |-> s, end |-> e]
SyncResponse(bs) == [type |-> "SYNC_RESPONSE", blocks |-> bs]

\* P2PServer.peers: the connections registered and not yet popped
Registered(a) == {b \in Nodes : ep[a][b] \in {"start", "open"}}

-----------------------------------------------------------------------------
(* Sending.  A send on a closed connection is dropped (PeerConnection.    *)
(* send returns when _closed), and so is one to a peer that has closed its *)
(* end, which never reads again.  Out(c, a, b, ms) is the channel function *)
(* c with ms written by a to b.                                           *)

Out(c, a, b, ms) ==
    IF "closed" \in {ep[a][b], ep[b][a]} THEN c ELSE [c EXCEPT ![a][b] = @ \o ms]

\* broadcast_block: an announcement of each of hs to every registered peer
\* except the source.
Broadcast(c, a, hs, src) ==
    LET targets == Registered(a) \ {src}
    IN  [x \in Nodes |-> [y \in Nodes |->
            IF x = a /\ y \in targets THEN c[x][y] \o [i \in DOMAIN hs |-> Announce(hs[i])]
            ELSE c[x][y]]]

\* _start_sync: the chain window after the tip, unless a sync is running.
\* Returns the new syncing flag of a and the channels.
StartSync(c, a, b) ==
    IF syncing[a] THEN [sy |-> TRUE, c |-> c]
    ELSE [sy |-> TRUE,
          c  |-> Out(c, a, b, <<SyncRequest(height[a] + 1, height[a] + SYNC_BATCH_SIZE)>>)]

\* handle_new_block at node n accepts block x when it is exactly tip+1 and
\* add_block does not raise ValidationError (a block the miner accepted may
\* be rejected at n, e.g. for a timestamp ahead of n's clock).
Extends(n, h, x) == x = h + 1 /\ <<n, x>> \notin Rejects

\* The blocks of a sync batch that handle_new_block accepts, in order, at
\* node n: each is handled whatever happened to the ones before it.
Accepted(n, bs) ==
    FoldLeft(LAMBDA acc, x : IF Extends(n, height[n] + Len(acc), x) THEN Append(acc, x) ELSE acc,
             <<>>, bs)

-----------------------------------------------------------------------------
(* Connection set-up.                                                     *)

\* connect_to_peer: not registered, open the stream and send our handshake.
Dial(a, b) ==
    /\ <<a, b>> \in Links
    /\ ep[a][b] = "none"
    /\ ep' = [ep EXCEPT ![a][b] = "dialing"]
    /\ chan' = [chan EXCEPT ![a][b] = <<Handshake(a)>>]
    /\ UNCHANGED <<height, syncing, seen, peer_height, drops>>

\* _handle_inbound: the first message is the dialer's handshake; record its
\* height, reply with ours, register the peer and create its _peer_loop.
\* The genesis hash is recorded but never compared.
Inbound(b, a) ==
    /\ ep[b][a] = "none"
    /\ chan[a][b] # <<>>
    /\ Head(chan[a][b]).type = "HANDSHAKE"
    /\ peer_height' = [peer_height EXCEPT ![b][a] = Head(chan[a][b]).height]
    /\ ep' = [ep EXCEPT ![b][a] = "start"]
    /\ chan' = [chan EXCEPT ![a][b] = Tail(@), ![b][a] = @ \o <<Handshake(b)>>]
    /\ UNCHANGED <<height, syncing, seen, drops>>

\* _perform_handshake completes with the same genesis: record the height,
\* handshake_done, then connect_to_peer registers the peer and creates its
\* _peer_loop.
HandshakeDone(a, b) ==
    /\ ep[a][b] = "dialing"
    /\ chan[b][a] # <<>>
    /\ Head(chan[b][a]).type = "HANDSHAKE"
    /\ Head(chan[b][a]).genesis = GenesisOf(a)
    /\ peer_height' = [peer_height EXCEPT ![a][b] = Head(chan[b][a]).height]
    /\ ep' = [ep EXCEPT ![a][b] = "start"]
    /\ chan' = [chan EXCEPT ![b][a] = Tail(@)]
    /\ UNCHANGED <<height, syncing, seen, drops>>

\* _perform_handshake reads a reply with another genesis hash and returns
\* without handshake_done; connect_to_peer closes the peer.  What b has
\* written after its reply is never read.
GenesisMismatch(a, b) ==
    /\ ep[a][b] = "dialing"
    /\ chan[b][a] # <<>>
    /\ Head(chan[b][a]).type = "HANDSHAKE"
    /\ Head(chan[b][a]).genesis # GenesisOf(a)
    /\ ep' = [ep EXCEPT ![a][b] = "closed"]
    /\ chan' = [chan EXCEPT ![b][a] = <<>>]
    /\ UNCHANGED <<height, syncing, seen, peer_height, drops>>

\* _peer_loop begins: if the peer claimed a greater height, _start_sync.
PeerLoopStart(a, b) ==
    /\ ep[a][b] = "start"
    /\ ep' = [ep EXCEPT ![a][b] = "open"]
    /\ IF peer_height[a][b] > height[a]
       THEN LET r == StartSync(chan, a, b)
            IN  /\ syncing' = [syncing EXCEPT ![a] = r.sy]
                /\ chan' = r.c
       ELSE UNCHANGED <<syncing, chan>>
    /\ UNCHANGED <<height, seen, peer_height, drops>>

-----------------------------------------------------------------------------
(* Message handlers of _handle_message, for node a reading from peer b.   *)

\* mark_sync_done, called by handle_new_block for every block it accepts:
\* the _syncing flag after the accepted blocks hs.
SyncDone(sy, hs) == IF hs = <<>> THEN sy ELSE FALSE

\* handle_new_block for the blocks hs (in order), all of them accepted:
\* the tip advances, mark_sync_done clears _syncing, and broadcast_block
\* marks each seen and announces it to every peer but the source.
ApplyBlocks(a, hs, src, c) ==
    /\ height' = [height EXCEPT ![a] = @ + Len(hs)]
    /\ syncing' = [syncing EXCEPT ![a] = SyncDone(@, hs)]
    /\ seen' = [seen EXCEPT ![a] = @ \cup ToSet(hs)]
    /\ chan' = Broadcast(c, a, hs, src)

\* _on_block_announce: mark the hash seen first; if the block is unknown,
\* request it when it is the next one, or sync when it is further ahead.
OnBlockAnnounce(a, b, m, c) ==
    IF m.height \in seen[a] \/ m.height <= height[a]
    THEN /\ seen' = [seen EXCEPT ![a] = @ \cup {m.height}]
         /\ chan' = c
         /\ UNCHANGED <<height, syncing>>
    ELSE /\ seen' = [seen EXCEPT ![a] = @ \cup {m.height}]
         /\ height' = height
         /\ IF m.height = height[a] + 1
            THEN /\ chan' = Out(c, a, b, <<Request(m.height)>>)
                 /\ syncing' = syncing
            ELSE LET r == StartSync(c, a, b)
                 IN  /\ syncing' = [syncing EXCEPT ![a] = r.sy]
                     /\ chan' = r.c

\* _on_block_request: the block if this node has it, else None.
OnBlockRequest(a, b, m, c) ==
    /\ chan' = Out(c, a, b, <<Response(IF m.height <= height[a] THEN m.height ELSE NONE)>>)
    /\ UNCHANGED <<height, syncing, seen>>

\* _on_block_response: handle_new_block, which ignores a known block or one
\* that is not at tip+1.
OnBlockResponse(a, b, m, c) ==
    IF m.block # NONE /\ Extends(a, height[a], m.block)
    THEN ApplyBlocks(a, <<m.block>>, b, c)
    ELSE /\ chan' = c
         /\ UNCHANGED <<height, syncing, seen>>

\* The blocks _on_sync_request collects at node a for request m: up to
\* SYNC_BATCH_SIZE consecutive heights from start, stopping at the first
\* height a does not have.
SyncBatch(a, m) ==
    LET last == Min({m.end, m.start + SYNC_BATCH_SIZE - 1, height[a]})
    IN  IF last < m.start THEN <<>>
        ELSE [i \in 1..(last - m.start + 1) |-> m.start + i - 1]

\* encode_message refuses a message over MAX_MESSAGE_SIZE; the JSON of a
\* SYNC_RESPONSE is that of its blocks (the envelope is left out).
Encodable(bs) ==
    FoldLeft(LAMBDA acc, h : acc + BlockSize[h], 0, bs) <= MAX_MESSAGE_SIZE

\* _on_sync_request: the batch, when it can be encoded.
OnSyncRequest(a, b, m, c) ==
    /\ Encodable(SyncBatch(a, m))
    /\ chan' = Out(c, a, b, <<SyncResponse(SyncBatch(a, m))>>)
    /\ UNCHANGED <<height, syncing, seen>>

\* _on_sync_response: handle_new_block for each block; then, on a full
\* batch, ask for the next window while the handshake height of the peer
\* is above the last block, and on a short batch clear _syncing.
OnSyncResponse(a, b, m, c) ==
    LET bs   == m.blocks
        acc  == Accepted(a, bs)
        full == Len(bs) = SYNC_BATCH_SIZE
        last == bs[Len(bs)]
        c2   == IF full /\ last < peer_height[a][b]
                THEN Out(c, a, b, <<SyncRequest(last + 1, last + SYNC_BATCH_SIZE)>>)
                ELSE c
    IN  /\ height' = [height EXCEPT ![a] = @ + Len(acc)]
        /\ syncing' = [syncing EXCEPT ![a] = IF full THEN SyncDone(@, acc) ELSE FALSE]
        /\ seen' = [seen EXCEPT ![a] = @ \cup ToSet(acc)]
        /\ chan' = Broadcast(c2, a, acc, b)

\* _peer_loop: read the next message from b and dispatch it.
Receive(a, b) ==
    /\ ep[a][b] = "open"
    /\ chan[b][a] # <<>>
    /\ LET m == Head(chan[b][a])
           c == [chan EXCEPT ![b][a] = Tail(@)]
       IN  CASE m.type = "BLOCK_ANNOUNCE" -> OnBlockAnnounce(a, b, m, c)
             [] m.type = "BLOCK_REQUEST"  -> OnBlockRequest(a, b, m, c)
             [] m.type = "BLOCK_RESPONSE" -> OnBlockResponse(a, b, m, c)
             [] m.type = "SYNC_REQUEST"   -> OnSyncRequest(a, b, m, c)
             [] m.type = "SYNC_RESPONSE"  -> OnSyncResponse(a, b, m, c)
    /\ UNCHANGED <<ep, peer_height, drops>>

\* _peer_loop of a reads a SYNC_REQUEST whose batch is too large:
\* encode_message raises ValueError, which PeerConnection.send does not
\* catch, and it ends _peer_loop, whose finally pops b and closes the
\* connection.  What a has written is still delivered; what b writes is
\* never read.
SyncRequestTooLarge(a, b) ==
    /\ ep[a][b] = "open"
    /\ chan[b][a] # <<>>
    /\ Head(chan[b][a]).type = "SYNC_REQUEST"
    /\ ~Encodable(SyncBatch(a, Head(chan[b][a])))
    /\ ep' = [ep EXCEPT ![a][b] = "closed"]
    /\ chan' = [chan EXCEPT ![b][a] = <<>>]
    /\ UNCHANGED <<height, syncing, seen, peer_height, drops>>

\* _peer_loop of b reads EOF after the last message a wrote before closing
\* its end: receive returns None, and the finally pops a and closes.
PeerEof(b, a) ==
    /\ ep[b][a] = "open"
    /\ ep[a][b] = "closed"
    /\ chan[a][b] = <<>>
    /\ ep' = [ep EXCEPT ![b][a] = "closed"]
    /\ UNCHANGED <<height, syncing, seen, peer_height, chan, drops>>

-----------------------------------------------------------------------------
(* The mining loop and the network.                                       *)

\* _mining_loop: add_block of a solved block, then broadcast_block.
Mine ==
    /\ height[Miner] < MaxHeight
    /\ ApplyBlocks(Miner, <<height[Miner] + 1>>, Miner, chan)
    /\ UNCHANGED <<ep, peer_height, drops>>

\* The connection between a and b is lost with whatever is in flight: each
\* side's receive fails, PeerConnection.close runs, and the finally of
\* _peer_loop pops it from the registry.  Nothing dials it again: the
\* bootstrap dial is made once, and known_addresses holds only addresses
\* learnt from PEERS_RESPONSE.
Disconnect(a, b) ==
    /\ <<a, b>> \in Links
    /\ drops < MaxDrops
    /\ ep[a][b] # "none"
    /\ ep[a][b] # "closed"
    /\ ep' = [ep EXCEPT ![a][b] = "closed", ![b][a] = "closed"]
    /\ chan' = [chan EXCEPT ![a][b] = <<>>, ![b][a] = <<>>]
    /\ drops' = drops + 1
    /\ UNCHANGED <<height, syncing, seen, peer_height>>

Init ==
    /\ height = [n \in Nodes |-> IF n \in Foreign THEN ForeignHeight ELSE 0]
    /\ syncing = [n \in Nodes |-> FALSE]
    /\ seen = [n \in Nodes |-> {}]
    /\ ep = [a \in Nodes |-> [b \in Nodes |-> "none"]]
    /\ peer_height = [a \in Nodes |-> [b \in Nodes |-> -1]]
    /\ chan = [a \in Nodes |-> [b \in Nodes |-> <<>>]]
    /\ drops = 0

Next ==
    \/ Mine
    \/ \E a, b \in Nodes :
          \/ Dial(a, b)
          \/ Inbound(a, b)
          \/ HandshakeDone(a, b)
          \/ GenesisMismatch(a, b)
          \/ PeerLoopStart(a, b)
          \/ Receive(a, b)
          \/ SyncRequestTooLarge(a, b)
          \/ PeerEof(a, b)
          \/ Disconnect(a, b)

\* Every task created is scheduled: the bootstrap dial, the inbound
\* handler and each _peer_loop, which reads whenever data is buffered.
\* The miner and the network are under no obligation.
Fairness ==
    \A a, b \in Nodes :
        /\ WF_vars(Dial(a, b))
        /\ WF_vars(Inbound(a, b))
        /\ WF_vars(HandshakeDone(a, b))
        /\ WF_vars(GenesisMismatch(a, b))
        /\ WF_vars(PeerLoopStart(a, b))
        /\ WF_vars(Receive(a, b))
        /\ WF_vars(SyncRequestTooLarge(a, b))
        /\ WF_vars(PeerEof(a, b))

Spec == Init /\ [][Next]_vars /\ Fairness

-----------------------------------------------------------------------------
(* Properties.                                                            *)

\* While its connections stay up, a node that sets _syncing eventually
\* clears it: the response to its SYNC_REQUEST arrives, and either is short or
\* brings a block that handle_new_block accepts (mark_sync_done), or the
\* next window is asked for.
SyncEventuallyDone == \A n \in Nodes : syncing[n] ~> ~syncing[n]

\* Once the miner stops, every node reaches the miner's height: blocks
\* announced while a node was behind are fetched by request or sync
\* (spec: two-node sync; a node dialing a peer that is ahead catches up).
CatchUp == <>[](\A n \in Network : height[n] = height[Miner])

====
