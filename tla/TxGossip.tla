------------------------------ MODULE TxGossip ------------------------------
(***************************************************************************)
(* Transaction gossip between jiji nodes (the TX_ANNOUNCE, TX_REQUEST and *)
(* TX_RESPONSE handlers and broadcast_tx of src/jiji/net/server.py),       *)
(* over the block gossip of Gossip, with the mempool of each node         *)
(* (Mempool.add, remove_confirmed, revalidate) and the                    *)
(* handle_new_transaction of node.py.                                      *)
(*                                                                         *)
(* The transactions are those of one funded sender: transaction i is the  *)
(* one with nonce i, and it passes validate_transaction_state at a node   *)
(* exactly when i is the sender's nonce in that node's chain, the number  *)
(* of its transactions the node's blocks hold (the sender's balance is    *)
(* taken to cover every fee; balances are the subject of Ledger).  A     *)
(* transaction is added to the pool only while it is valid, so a pool     *)
(* holds at most one; MAX_MEMPOOL_SIZE is never reached.                  *)
(*                                                                         *)
(* The miner's block holds what its pool holds (create_block_template     *)
(* takes every pending transaction valid on the chain), and blocks are    *)
(* shared by every node: blocks[h] is the set of transactions of the     *)
(* block at height h.                                                      *)
(***************************************************************************)
EXTENDS Integers, Sequences, FiniteSets

CONSTANTS Nodes, Miner, Links, MaxHeight, SYNC_BATCH_SIZE, MaxDrops, NONE,
          BlockSize, MAX_MESSAGE_SIZE, Foreign, ForeignHeight, Rejects

CONSTANT MaxTx     \* the sender's transactions have nonces 0..MaxTx-1

\* Every node shares the miner's genesis block, so Gossip's
\* GenesisMismatch is never enabled here, and accepts every block the
\* miner mined (blocks[h] is every node's block h).
ASSUME Foreign = {} /\ Rejects = {}

VARIABLES height, syncing, seen, ep, peer_height, chan, drops

VARIABLES
    blocks,    \* blocks[h]: the transactions of the block at height h
    pool,      \* pool[n]: the transactions in Mempool._txs of node n
    txseen     \* txseen[n]: P2PServer._seen_tx_hashes of node n

gossip_vars == <<height, syncing, seen, ep, peer_height, chan, drops>>
tx_vars == <<blocks, pool, txseen>>
vars == <<gossip_vars, tx_vars>>

G == INSTANCE Gossip

Txs == 0..(MaxTx - 1)

TxAnnounce(t)  == [type |-> "TX_ANNOUNCE", tx |-> t]
TxRequest(t)   == [type |-> "TX_REQUEST", tx |-> t]
TxResponse(t)  == [type |-> "TX_RESPONSE", tx |-> t]

BlockTypes == {"BLOCK_ANNOUNCE", "BLOCK_REQUEST", "BLOCK_RESPONSE",
               "SYNC_REQUEST", "SYNC_RESPONSE"}

\* chain.tx_index of a node at height h: the transactions of its blocks.
Confirmed(h) == UNION {blocks[i] : i \in 1..h}

\* validate_transaction_state at height h: the sender's nonce there.
ValidAt(t, h) == t = Cardinality(Confirmed(h))

\* Mempool.add at node n: not pooled, not confirmed, valid on the chain.
\* (Duplicates and confirmed transactions fail the nonce check too.)
CanAdd(n, t) ==
    /\ t \notin pool[n]
    /\ t \notin Confirmed(height[n])
    /\ ValidAt(t, height[n])

\* remove_confirmed and revalidate after a block is applied at node n, now
\* at height h: what is confirmed or no longer valid leaves the pool.
CleanPool(n, h) == {t \in pool[n] : ValidAt(t, h)}

\* broadcast_tx: mark seen, announce to every registered peer but the source.
BroadcastTx(c, a, t, src) ==
    LET targets == G!Registered(a) \ {src}
    IN  [x \in Nodes |-> [y \in Nodes |->
            IF x = a /\ y \in targets THEN Append(c[x][y], TxAnnounce(t))
            ELSE c[x][y]]]

-----------------------------------------------------------------------------
(* handle_new_transaction and its callers                                  *)

\* handle_new_transaction at node a, from peer src (a itself for a client):
\* Mempool.add, then broadcast_tx to every peer but src.  A rejection by
\* Mempool.add raises before the broadcast, and is a step of its caller.
HandleNewTransaction(a, t, src, c) ==
    /\ CanAdd(a, t)
    /\ pool' = [pool EXCEPT ![a] = @ \cup {t}]
    /\ txseen' = [txseen EXCEPT ![a] = @ \cup {t}]
    /\ chan' = BroadcastTx(c, a, t, src)

\* RPC submit_transaction at node n (rpc/server.py): handle_new_transaction;
\* a rejected submission is an error reply to the client and changes
\* nothing.
SubmitTx(n, t) ==
    /\ HandleNewTransaction(n, t, n, chan)
    /\ UNCHANGED <<height, syncing, seen, ep, peer_height, drops, blocks>>

-----------------------------------------------------------------------------
(* Transaction messages of _handle_message, node a reading from peer b,  *)
(* with the message m already taken off the stream (channels c).        *)

\* _on_tx_announce: ignore a seen hash; else mark it seen, and request the
\* transaction unless it is pooled or confirmed.
OnTxAnnounce(a, b, m, c) ==
    IF m.tx \in txseen[a]
    THEN /\ chan' = c
         /\ UNCHANGED <<pool, txseen>>
    ELSE /\ txseen' = [txseen EXCEPT ![a] = @ \cup {m.tx}]
         /\ pool' = pool
         /\ IF m.tx \in pool[a] \/ m.tx \in Confirmed(height[a])
            THEN chan' = c
            ELSE chan' = G!Out(c, a, b, <<TxRequest(m.tx)>>)

\* Fault variant of OnTxRequest: only the chain is consulted.
OnTxRequestChainOnly(a, b, m, c) ==
    /\ chan' = G!Out(c, a, b,
                     <<TxResponse(IF m.tx \in Confirmed(height[a]) THEN m.tx ELSE NONE)>>)
    /\ UNCHANGED <<pool, txseen>>

\* _on_tx_request: the transaction from the mempool or the chain, else None.
OnTxRequest(a, b, m, c) ==
    /\ chan' = G!Out(c, a, b,
                     <<TxResponse(IF m.tx \in pool[a] \cup Confirmed(height[a])
                                  THEN m.tx ELSE NONE)>>)
    /\ UNCHANGED <<pool, txseen>>

\* _on_tx_response: handle_new_transaction from peer b; a rejection by
\* Mempool.add is caught and logged.
OnTxResponse(a, b, m, c) ==
    IF m.tx # NONE /\ CanAdd(a, m.tx)
    THEN HandleNewTransaction(a, m.tx, b, c)
    ELSE /\ chan' = c
         /\ UNCHANGED <<pool, txseen>>

\* _peer_loop reads a transaction message from b.
ReceiveTx(a, b) ==
    /\ ep[a][b] = "open"
    /\ chan[b][a] # <<>>
    /\ Head(chan[b][a]).type \notin BlockTypes
    /\ LET m == Head(chan[b][a])
           c == [chan EXCEPT ![b][a] = Tail(@)]
       IN  CASE m.type = "TX_ANNOUNCE" -> OnTxAnnounce(a, b, m, c)
             [] m.type = "TX_REQUEST"  -> OnTxRequest(a, b, m, c)
             [] m.type = "TX_RESPONSE" -> OnTxResponse(a, b, m, c)
    /\ UNCHANGED <<height, syncing, seen, ep, peer_height, drops, blocks>>

-----------------------------------------------------------------------------
(* Block steps, with the mempool cleanup of handle_new_block and of the  *)
(* mining loop.                                                            *)

\* _peer_loop reads a block message from b: Gossip's handler, then, for
\* every block handle_new_block accepts, remove_confirmed and revalidate;
\* or a SYNC_REQUEST it cannot answer ends the loop.
ReceiveBlock(a, b) ==
    /\ chan[b][a] # <<>>
    /\ Head(chan[b][a]).type \in BlockTypes
    /\ G!Receive(a, b) \/ G!SyncRequestTooLarge(a, b)
    /\ pool' = [pool EXCEPT ![a] = CleanPool(a, height'[a])]
    /\ UNCHANGED <<blocks, txseen>>

\* _mining_loop: the template takes the pool's transactions; the solved
\* block is applied and announced, and remove_confirmed empties the pool.
Mine ==
    /\ G!Mine
    /\ blocks' = Append(blocks, pool[Miner])
    /\ pool' = [pool EXCEPT ![Miner] = {}]
    /\ UNCHANGED txseen

\* Connection set-up, EOF and loss, as in Gossip.
Connect(a, b) ==
    /\ \/ G!Dial(a, b) \/ G!Inbound(a, b) \/ G!HandshakeDone(a, b)
       \/ G!PeerLoopStart(a, b) \/ G!PeerEof(a, b) \/ G!Disconnect(a, b)
    /\ UNCHANGED tx_vars

Init ==
    /\ G!Init
    /\ blocks = <<>>
    /\ pool = [n \in Nodes |-> {}]
    /\ txseen = [n \in Nodes |-> {}]

Next ==
    \/ Mine
    \/ \E n \in Nodes, t \in Txs : SubmitTx(n, t)
    \/ \E a, b \in Nodes : Connect(a, b) \/ ReceiveBlock(a, b) \/ ReceiveTx(a, b)

\* Gossip's fairness: every task created is scheduled, and a _peer_loop
\* reads whenever data is buffered, whatever the message.  Clients and the
\* miner are under no obligation.
Fairness ==
    \A a, b \in Nodes :
        /\ WF_vars(G!Dial(a, b) /\ UNCHANGED tx_vars)
        /\ WF_vars(G!Inbound(a, b) /\ UNCHANGED tx_vars)
        /\ WF_vars(G!HandshakeDone(a, b) /\ UNCHANGED tx_vars)
        /\ WF_vars(G!PeerLoopStart(a, b) /\ UNCHANGED tx_vars)
        /\ WF_vars(G!PeerEof(a, b) /\ UNCHANGED tx_vars)
        /\ WF_vars(ReceiveBlock(a, b) \/ ReceiveTx(a, b))

Spec == Init /\ [][Next]_vars /\ Fairness

-----------------------------------------------------------------------------
(* Properties.                                                            *)

\* Some connection has been closed, by a loss or by the end of a
\* _peer_loop.
Lost == \E a, b \in Nodes : ep[a][b] = "closed"

\* A transaction the miner has heard of, and that is pending at some node,
\* reaches the miner's pool or chain: _on_tx_announce marks it seen and
\* requests it, and the holder answers from its mempool or its chain.  A
\* node's chain is never ahead of the miner's, so the transaction is valid
\* at the miner or already confirmed there.  This holds while connections
\* last: a TX_REQUEST or TX_RESPONSE lost with its connection leaves the
\* hash seen at the miner and never fetched.
TxReachesMiner ==
    \A n \in Nodes, t \in Txs :
        t \in pool[n] /\ t \in txseen[Miner]
            ~> (t \in pool[Miner] \/ t \in Confirmed(height[Miner]) \/ Lost)

\* Spec scenario 6 (tx gossip): a transaction submitted to a node appears
\* in the mempool of its connected peers.  Eventually, every transaction
\* pending at some node is pending at every node that has been told of it
\* and whose chain it is valid on.
PoolsConverge ==
    <>[](\A n, p \in Nodes, t \in Txs :
            t \in pool[n] /\ t \in txseen[p] /\ ValidAt(t, height[p]) => t \in pool[p])

====
