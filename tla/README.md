# TLA+ models of jiji

jiji (`src/jiji`) is a proof-of-work blockchain node whose transactions are
social posts, endorsements with tips, and token transfers. This directory holds
TLA+ models of its consensus engine, transaction pool, miner and gossip layer,
the TLC configurations that check them, and `PROJECT.json`, which lists every
component, run, mutant, hazard and the source lines each definition translates.

## 1. Inventory

### Components and their state

| Component | Source | State | Operations that change state |
|---|---|---|---|
| Crypto | `core/crypto.py` | none | sign, verify (pure) |
| Canonical codec | `core/serialization.py` | none | canonicalize, sha256 (pure) |
| Merkle tree | `core/merkle.py` | `Merkle` | merkle_root, merkle_proof, verify_merkle_proof (pure) |
| Transactions | `core/transaction.py` | the fields of each variant | sign_tx |
| Config | `core/config.py` | constants | block_reward (pure) |
| World state | `core/state.py` | `accounts: pubkey -> (balance, nonce)` | get_or_create, apply_transaction, copy |
| Block | `core/block.py` | header fields, transaction list | nonce increments while mining (`Header`) |
| Validation | `core/validation.py` | none (reads chain) | validate_block builds and discards a working copy |
| Blockchain | `core/chain.py` | `blocks`, `main_chain`, `state`, `tx_index`, `known_posts`, `post_authors` | initialize_genesis, add_block, _apply_block |
| Mempool | `mining/mempool.py` | `_txs: hash -> tx`, `_max_size` | add (with eviction), remove, remove_confirmed, revalidate |
| Miner | `mining/miner.py` | none (reads chain and mempool) | create_block_template, mine_block, mine_next |
| Node | `node.py` | `_running`, `_mining_task` | start, stop, handle_new_transaction, handle_new_block, _mining_loop, _async_mine |
| Peer connection | `net/peer.py` | `handshake_done`, `peer_height`, `genesis_hash`, `_closed` | send, receive, close |
| P2P server | `net/server.py` | `peers`, `known_addresses`, `_syncing`, `_seen_tx_hashes`, `_seen_block_hashes` | connect_to_peer, _handle_inbound, the eleven message handlers, _start_sync, broadcast_*, peer_exchange_loop |
| Wire protocol | `net/protocol.py` | none | encode/decode framing (pure) |
| RPC server | `rpc/server.py` | none | `submit_transaction` calls Node.handle_new_transaction; the rest are reads |

### How the components interact

Everything runs on one asyncio event loop. Chain, mempool and the peer
registries are shared by all tasks, and no locks are needed because the code
between two `await`s runs without interruption. The tasks are:

- one task per peer connection running `_peer_loop`, which dispatches messages
  in arrival order;
- the accept loop, one task per inbound handshake, and one per outbound dial
  (bootstrap peers and the peer-exchange loop);
- the mining loop, which grinds 1000 nonces and then yields with
  `asyncio.sleep(0)`;
- the peer-exchange loop, which wakes every 60 s;
- one task per RPC connection.

A transaction enters through RPC `submit_transaction` or a `TX_RESPONSE`, then
goes through `Mempool.add` and is announced to peers. A block enters through the
mining loop, a `BLOCK_RESPONSE` or a `SYNC_RESPONSE`. It goes through
`Blockchain.add_block`, which validates on a working copy and then applies.
After that come `Mempool.remove_confirmed`, `Mempool.revalidate` and the
clearing of `_syncing`, and the block is announced to every peer except its
source.

### What is hard

- **Intra-block dependencies.** Validation threads a working state, a
  working post set and a working author map through the transactions of a
  block. `_apply_block` then repeats that work on the real chain in a second
  loop. The two loops must agree.
- **Interleavings at `await`s.** The mining loop's template goes stale while
  it yields. Peer handlers interleave at every `send`. Connection setup checks
  the registry and bound before awaiting and updates them after.
- **Unreliable peers.** Connections close at any time, and `send` on a closed
  connection is silently dropped. Hashes are marked seen before their content
  arrives. One `_syncing` flag serialises catch-up and is cleared only by
  certain responses.
- **Numeric edges.** Reward halving, the fee-eviction comparison at capacity,
  the float difficulty ratio, and a block-size estimate that differs from the
  size validation measures.

### The properties that make each component correct

- **World state, validation and chain.** Supply equals the sum of coinbase
  rewards. No balance is negative. A nonce equals the number of confirmed
  transactions its account signed, so nothing replays. A reply or endorsement
  refers to an earlier post. The committed state is the one the header's
  state root commits to.
- **Mempool.** Between handlers every pooled transaction is valid against the
  chain. The pool never exceeds its bound.
- **Miner and node.** A solved template is always a valid next block, or it is
  discarded because the chain moved. It fits in `MAX_BLOCK_SIZE`, or the
  mining loop rebuilds the same rejected block forever.
- **Gossip.** Chains never diverge without a fork. Every node eventually
  reaches the height of the node that mines, and every submitted transaction
  eventually reaches every mempool. The registry holds exactly the open,
  handshaken connections, and never more than `MAX_PEERS`.

The hazards these properties are aimed at are listed, each at its source
line, under `"hazards"` in `PROJECT.json`.

## 2. Plan

Modules in build order, most important behaviour first:

1. **`Ledger`** (done): Blockchain, WorldState and validation. It is the
   consensus core that every other module calls.
2. **`Node`** (done): one node's mempool, miner and mining loop, composed with
   `Ledger` through `INSTANCE`. It models `Mempool.add` with eviction,
   `handle_new_transaction`, the mining loop split at its `await`s (template,
   grind chunk, commit), and blocks arriving from peers through
   `handle_new_block`. Its properties are that the pool stays valid and
   bounded, and that a template is a valid block while the chain has not
   moved. It also checks the block-size estimate against the
   real size, which is expected to fail: a violation run.
3. **`Gossip`** (done): nodes with a block-height abstraction of the chain,
   a FIFO stream per direction of each connection, which may be lost, the
   handshake, the seen set, announce/request/response and batched sync. Its
   properties are two liveness properties that fail: a stuck `_syncing` flag
   and catch-up after the miner stops.
   **`TxGossip`** (done) composes `Gossip` with transaction gossip and each
   node's mempool, and checks that an announced transaction reaches the
   miner and, as a violation run, that pools converge.
4. **`AbstractChain`** and the refinement (done): an abstract ledger whose
   only step appends a batch that is valid against a replay of the log
   before it. `Ledger` is shown to implement it with `INSTANCE AbstractChain
   WITH` a mapping from the main chain to the batch log.
5. **`Header`** (done): the timestamp, difficulty and proof-of-work checks
   of `validate_block`, with `compute_expected_difficulty` on integers and
   the clamp at 1/4 and 4, and the header of the miner's own template, against
   a clock, with windows scaled down.
6. **`Merkle`** (done): `merkle_root`, `merkle_proof` and
   `verify_merkle_proof` as RECURSIVE operators. They are checked against a
   top-down reference over all leaf lists up to length 7, and for
   commitment against all lists up to length 4.

## 3. Modules

### `Ledger` (chain.py, state.py, validation.py, config.block_reward)

| TLA+ | Code |
|---|---|
| `main_chain` | `Blockchain.main_chain` together with `blocks` (no forks, so a block is found by its height) |
| `state` | `WorldState.accounts`: a function whose domain is the accounts that exist |
| `tx_index`, `known_posts`, `post_authors` | the fields of the same names |
| `ApplyTransaction`, `Credit`, `Charge`, `GetOrCreate` | `WorldState.apply_transaction` and `_apply_*` |
| `FormatValid`, `StateValid`, `FundsValid` | `validate_transaction_format` and `validate_transaction_state` |
| `ValidateStep`, `WorkingResult`, `ValidBlock` | the loop over transactions and the checks of `validate_block` |
| `ApplyStep`, `ApplyBlock` | `Blockchain._apply_block` |
| `InitializeGenesis`, `AddBlock` | `Blockchain.initialize_genesis`, `Blockchain.add_block` |

**Abstractions.**

- A transaction is a record of the fields its content address hashes, so the
  record stands for its hash. Two posts with equal fields are the same
  transaction, exactly as in the code.
- Signatures, key lengths and text lengths are assumed well formed.
- A state root is the account map itself, an injective stand-in for the
  Merkle root over sorted accounts.
- The header checks that do not involve transactions (version, prev_hash,
  timestamps, difficulty, PoW, Merkle root) are left to `Header` and
  `Merkle`. Version and prev_hash hold by construction of a chain of
  records.

**The environment.** `CandidateBlocks` is every block a builder could hand to
`add_block`: a correct coinbase for one of `Miners`, then up to `MaxBlockTxs`
signed transactions. A block that fails `validate_block` raises and changes
nothing. So the builder enumerates, with `ValidSuffixes`, only sequences whose
transactions pass the validation loop one by one. The action still checks
`ValidBlock`.

**Properties.**

- `SupplyConservation`: the balances sum to the coinbase rewards on the chain.
- `TipStateRootMatches`: the state committed by `_apply_block` equals the state
  root that `validate_block` accepted.
- `NonceCountsConfirmed`: each nonce equals the number of confirmed
  transactions its account signed.
- `ReferencesPrecede`: every reply or endorsement follows the post it refers
  to.
- `BalancesNonNegative`: no balance is ever negative.

### `AbstractChain` and the refinement

`AbstractChain` states what a Blockchain promises, without the caches that
`Blockchain` and `validate_block` keep. Its one variable, `log`, is the
sequence of batches `[miner, txs]`. Its one step, `AppendBatch`, requires
that:

- the first transaction, and only that one, is the coinbase paying the
  reward for the height to the batch's miner;
- every other transaction is new, well formed, and carries its signer's
  next nonce;
- the signer can pay it;
- any post it refers to is confirmed.

Each of these is judged against the entries of the log and of the batch
before it. Balances, nonces and confirmed transactions are computed by
replaying those entries from scratch (spec 4.4), so there is no world state
to trust. `Next` is stated on the last batch of `log'`, so TLC does not
enumerate batches.

`Ledger` maps `main_chain` to that log (`ChainLog`: each block's miner and
transactions). `ImplementsAbstractChain` is `AbstractChain!Spec` under this
mapping. It fails if `_apply_block` leaves any cache (the `WorldState`,
`tx_index`, `known_posts` or `post_authors`) different from what the chain
says, in a way that `add_block` then acts on. Only that direction is
checked: that `Ledger` accepts no block the replay rejects. Header rules and
the size limit only make `Ledger` stricter.

### `Registry` (net/server.py connection management, node.py start)

One node's `P2PServer.peers` is modelled with every task that writes it:

- the `connect_to_peer` tasks that `Node.start` creates, one per bootstrap
  entry;
- those that each `peer_exchange_loop` round creates;
- `_handle_inbound`;
- the `finally` of `_peer_loop`.

A connection is an id with its registry key, which is the dialed
(host, port) or the inbound remote's (host, ephemeral port).

- `peers[k]` is the connection registered under `k`.
- `conn[i].phase` is one of `"dialing"`, `"inbound"`, `"open"` (in
  `_peer_loop`) and `"closed"`.
- `tasks` is the bag of addresses whose `connect_to_peer` has not run yet.
- `known` is `known_addresses`.

Each action runs a handler from one `await` to the next:

| Action | Code |
|---|---|
| `ConnectToPeer` | `connect_to_peer` up to `open_connection`: the `in self.peers` and `MAX_PEERS` checks |
| `HandshakeDone` / `DialFailed` | the rest of `connect_to_peer` |
| `Accept` / `InboundDone` / `InboundFailed` | `_handle_inbound` before and after its handshake |
| `PeerLoopEnd` | the `finally` of `_peer_loop`: `peers.pop(address)` |
| `OnPeersResponse` | `_on_peers_response` |
| `ExchangeRound` | one round of `peer_exchange_loop` |

**Timing.** Each await of a dial is bounded by `HANDSHAKE_TIMEOUT`, so a
dial ends within 20 s, and rounds are 60 s apart. `ExchangeRound` is
therefore enabled only when no dial is pending or running. A remote end has
one live TCP connection at a time, which is a guard of `Accept`.

### `Node` (mining/mempool.py, mining/miner.py, node.py)

`Node` composes `Ledger` through `L == INSTANCE Ledger`, sharing the chain
variables, and adds the mempool and the mining loop of one node (`Self`).

| TLA+ | Code |
|---|---|
| `pool` | `Mempool._txs`, a sequence because the dict keeps insertion order, which `_find_lowest_fee` and the stable sort of `get_pending` depend on |
| `mining`, `template` | where `_mining_loop` is: about to call `create_block_template` (`"build"`), or grinding `template` in `_async_mine` (`"grind"`) |
| `Add`, `Admissible`, `LowestFeeIndex` | `Mempool.add` and `_find_lowest_fee` |
| `CleanUp` | `remove_confirmed` followed by `revalidate`, against the chain after the block |
| `GetPending`, `SelectStep`, `EstimateBlockSize`, `CreateBlockTemplate` | `get_pending`, the selection loop, `_estimate_block_size` and `create_block_template` |
| `HandleNewTransaction` | `Node.handle_new_transaction` (the broadcast is left to `Gossip`) |
| `HandleNewBlock` | `Node.handle_new_block` for a block a peer miner (`Miners \ {Self}`) built on the same chain |
| `BuildTemplate`, `Solve` | `_mining_loop` split at its `await`: the template is built, then a chunk of `_async_mine` finds the nonce and, without another `await`, the stale check, `add_block` (whose `ValidationError` is caught) and the cleanup run |
| `Init`, `GenesisBlock` | `Node.start` with `initialize_genesis(self.public_key)` |

Grinding chunks that find nothing change no variable, so they are
stuttering steps; every handler is atomic because it runs between two
`await`s of the single event loop. Transaction and block sizes are constant
operators (`SerializedSize`, `EstimatedSize`) in abstract units, because
their only role is the comparison with `MAX_BLOCK_SIZE`.

**Properties.**

- `PoolValid`: no duplicate and no confirmed transaction in the pool, and
  every pooled transaction passes `validate_transaction_state` against the
  chain.
- `PoolBounded`: the pool never exceeds `MAX_MEMPOOL_SIZE`.
- `TemplateValid`: while the chain has not moved, the template being ground
  is a block `validate_block` accepts.
- `TemplateWithinSizeLimit`: the template never exceeds the size
  `validate_block` measures. It is expected to fail (see Findings).

**Fairness.** None: only safety is checked of `Node`. A liveness property
that the miner keeps extending the chain would hold in `MCNode.cfg` only
because that configuration takes the size estimate to be exact, and
`node_block_size` shows the loop rebuilding a rejected template forever
when it is not. Under the height bound, a peer's block would also
discharge it.

### `Gossip` (net/server.py, net/peer.py, the gossip side of node.py)

**Abstraction.** One node (`Miner`) runs `_mining_loop` and the others
follow. With one miner there are no forks, so a block is its height and a
chain is its height; which blocks are valid is `Ledger`'s subject. The
transport is abstracted as follows:

- `chan[a][b]` is the stream of messages `a` has written for `b`, in order.
- `ep[a][b]` is `a`'s `PeerConnection` to `b`. It is `"none"`, then
  `"dialing"` (outbound only), then `"start"` (registered in `peers`, its
  `_peer_loop` task created), then `"open"`, and finally `"closed"`.
- `Registered(a)` is `P2PServer.peers`.
- The nodes in `Foreign` hold a chain with another genesis block, of height
  `ForeignHeight`. They do not mine, and they send `"foreign"` as the
  genesis hash in their handshake (`GenesisOf`). `Network` is the other
  nodes, those on the miner's chain.
- `Rejects` is the pairs `<<n, h>>` such that `add_block` at `n` raises
  `ValidationError` on the miner's block `h`, for example when its
  timestamp is ahead of `n`'s clock. `Extends` is `handle_new_block`'s
  test: the height must be exactly tip+1, and the block must not be
  rejected. `Accepted` folds that test over a sync batch, handling every
  block, as `_on_sync_response` does.

**Atomic handlers.** A handler runs as one step. `peer.send` writes into the
transport buffer, and `StreamWriter.drain` returns without yielding while the
buffer is below its high-water mark, which gossip messages never reach. So
the only points where another task can run are `peer.receive` and the
handshake's awaits, and the model has an action at each of them.

| Action | Code |
|---|---|
| `Dial` | `connect_to_peer` up to `_send_handshake` |
| `Inbound` | `_handle_inbound` (`_process_handshake`, reply, register) |
| `HandshakeDone` | `_perform_handshake` after a reply with our genesis, then registering in `connect_to_peer` |
| `GenesisMismatch` | `_perform_handshake` after a reply with another genesis: no `handshake_done`, and `connect_to_peer` closes the peer |
| `PeerLoopStart` | `_peer_loop`'s `_start_sync` when the handshake height is above ours |
| `Receive` | one loop of `_peer_loop`: `_handle_message` and the block and sync handlers |
| `Mine` | `_mining_loop`'s `add_block` and `broadcast_block` |
| `SyncRequestTooLarge` | a `SYNC_REQUEST` whose batch `encode_message` refuses: the `ValueError` passes through `send` and ends `_peer_loop`, whose `finally` pops and closes |
| `PeerEof` | the other end's `receive` returning `None` once it has read what was written before the close; its `finally` pops and closes |
| `Disconnect` | a receive error on both ends: `close`, the registry pop, and the data in flight lost |

Inside `Receive`:

- `ApplyBlocks` is `handle_new_block` for accepted blocks, including
  `mark_sync_done` (`SyncDone`) and `broadcast_block`.
- `Accepted` is its height check: a block that is not tip+1 is ignored.
- `Out` is `PeerConnection.send`, which does nothing on a closed connection.
  Bytes sent to a peer that has closed its end are never read, so they are
  dropped as well.
- `SyncBatch` is the window `_on_sync_request` collects. `Encodable` is the
  size check of `encode_message`: the sum of `BlockSize` over the batch
  must not exceed `MAX_MESSAGE_SIZE`. `OnSyncRequest` answers only such a
  batch; `SyncRequestTooLarge` is the other case.

**Fairness.** There is weak fairness on `Dial`, `Inbound`, `HandshakeDone`,
`PeerLoopStart`, `Receive`, `SyncRequestTooLarge` and `PeerEof` of every pair. Each is a task the event loop
runs once it is created and its data is buffered: the bootstrap dial,
`_handle_inbound`, and each `_peer_loop`. `Mine` is not fair, because the
miner may stop at any height. `Disconnect` is not fair either: a loss is an
event of the network, bounded by `MaxDrops`.

**Not in `Gossip`.**

- Transaction gossip, which is `TxGossip`.
- `PEERS_REQUEST`/`PEERS_RESPONSE` and the `peer_exchange_loop` redials.
- `MAX_PEERS` and duplicate dials, which are the subject of `Registry`.

**A branch no run can reach.** With one miner, a short sync batch always
contains an accepted block: the responder stops at its own tip, which is
above the requester's. So `_on_sync_response`'s `else: self._syncing = False`
always follows a `mark_sync_done` that has already cleared the flag. A mutant
removing that `else` is equivalent to the code in this model, and has no run.

### `TxGossip` (the transaction handlers of net/server.py, mempool.py, node.py, rpc submit_transaction)

`TxGossip` composes `Gossip` with `G == INSTANCE Gossip`, sharing its
variables, and adds three of its own:

- `blocks[h]`: the transactions in the block at height `h`. There is one miner,
  so every node's chain is a prefix of `blocks`.
- `pool[n]`: `Mempool._txs` of node `n`.
- `txseen[n]`: `_seen_tx_hashes` of node `n`.

**Abstraction.** The transactions are those of one funded sender.
Transaction `i` has nonce `i`, so it passes `validate_transaction_state` at a
node exactly when `i` equals the number of the sender's transactions in that
node's chain (`ValidAt`). Balances are `Ledger`'s subject, and the fee is
taken to be covered. Because a transaction is admitted only while valid, a
pool holds at most one transaction, and eviction is `Node`'s subject. The
miner's block takes its whole pool, which is what `create_block_template`
selects from a pool of one valid transaction.

| Action | Code |
|---|---|
| `SubmitTx` | RPC `_submit_transaction`: `handle_new_transaction` (`Mempool.add` via `CanAdd`, then `broadcast_tx` via `BroadcastTx`) |
| `ReceiveTx` with `OnTxAnnounce`, `OnTxRequest`, `OnTxResponse` | one loop of `_peer_loop` reading a `TX_*` message and its handler |
| `ReceiveBlock` | `Gossip`'s `Receive`, then `remove_confirmed` and `revalidate` (`CleanPool`) on the new height |
| `Mine` | `Gossip`'s `Mine`, with the block holding the pool, which `remove_confirmed` empties |
| `Connect` | `Gossip`'s connection actions; the mempools are untouched |

**Fairness.** As in `Gossip`: weak fairness on each connection action and on
a node reading from a peer, whatever the message type. Clients and the miner
have none.

**Properties.**

- `TxReachesMiner` (liveness): a transaction pending at some node, once the
  miner has seen its hash, reaches the miner's pool or chain, unless a
  connection has closed (`Lost`). The transaction may be mined between the announce and
  the request. `_on_tx_request` then has to answer from the chain, because
  the requester has already marked the hash seen.
- `PoolsConverge` (violation run): eventually every node that has seen a
  transaction, and whose chain it is valid on, holds it in its pool. See
  Findings.

### `Merkle` (core/merkle.py)

**Abstraction.** SHA-256 of two concatenated digests is an ideal hash:
`HashPair(x, y)` is the pair `<<x, y>>`, so two digests are equal exactly
when their preimages are. Leaf hashes are model values and `EMPTY_HASH` is
one more. The code's `while` loops over levels become RECURSIVE operators:

| Operator | Code |
|---|---|
| `Pad` | an odd level appends `level[-1]` |
| `NextLevel` | the pairwise hashing loop |
| `RootOfLevel`, `MerkleRoot` | `merkle_root` |
| `ProofStep`, `ProofOfLevel`, `MerkleProof` | `merkle_proof`, with the 0-based index and `idx //= 2` |
| `VerifyMerkleProof` | `verify_merkle_proof`, as a `FoldLeft` over the proof |
| `NoDuplicateTxs` | the in-block duplicate check of `validate_block` |

**Inputs.** The state is one list of tx hashes, `txs`, grown one hash at
a time up to `MaxLeaves`. The invariants are therefore checked on every
list within the bound. `RootCommits` also ranges over every second list
`other` of up to `MaxOther` hashes.

**The reference.** `RefRoot` builds the tree top down. Its left subtree
holds the first 2^(d-1) leaves, and a right subtree with no leaves is a copy
of the left. This is the spec's rule in 4.2, stated without levels.

### `Header` (validation.py header rules, miner.py template header)

One node's `main_chain`, reduced to each block's `[timestamp, difficulty]`,
its clock `now`, and the template `_mining_loop` is grinding. Transactions
are `Ledger`'s subject: every block is taken to pass them. Blocks come from
two places. The node's own miner builds a template and later finishes the
grind. A peer sends any header at tip+1: any timestamp on either side of
the clock, the difficulty the chain expects, and any hash up to
`MAX_TARGET`. Headers at other heights are ignored by `handle_new_block`.

| TLA+ | Code |
|---|---|
| `RecentTimestamps` | `Blockchain.get_recent_timestamps` |
| `Median2`, `MedianTimePast2` | `statistics.median` of the recent stamps, doubled so that an even count's half stays an integer |
| `AboveMedian` | the median check of `validate_block`, made from genesis on (`chain.height >= 0`) |
| `TemplateTimestamp` | `max(now, int(median) + 1)` in `create_block_template` |
| `Retarget`, `ExpectedDifficulty` | `compute_expected_difficulty`, with the float ratio as the exact rational |
| `MeetsDifficulty` | `Block.meets_difficulty`; a difficulty of 0 raises `ZeroDivisionError`, and the block is not added |
| `ValidHeader` | the header checks of `validate_block`, in order |
| `CreateBlockTemplate` | `create_block_template`'s height, timestamp and difficulty |
| `MineBlock` | the rest of a `_mining_loop` iteration: the stale-height check, `add_block`, and the `ValidationError` it logs |
| `AddPeerBlock` | `handle_new_block` of a peer's block at tip+1 (`add_block`) |
| `Tick` | the clock, one second at a time |

**Abstraction.** `MAX_TARGET` scales 2^256 - 1 down, and a hash is an
integer below it. The grind is abstracted to a hash that meets the target.

**Not reached.** The float rounding of the retarget ratio is the
`validation.py:205` hazard, which stays open: `int(11 * (1500 / 550))` is 29
where the spec's floor is 30, and TLC's integers cannot hold a double's
53-bit mantissa.

## 4. Runs

| Run | Config | Checks | Result |
|---|---|---|---|
| `ledger_safety` | `MCLedger.cfg` | TypeOK, the five `Ledger` invariants, ImplementsAbstractChain | pass: 78,572 distinct states, about 1 min |
| `node_mempool` | `MCNode.cfg` | PoolValid, PoolBounded, TemplateValid | pass: 5,695 distinct states, about 15 s |
| `node_block_size` | `MCNodeSize.cfg` | TemplateWithinSizeLimit | violation in 3 steps |
| `gossip_sync_tx` | `MCTxGossip.cfg` | TxReachesMiner | pass: 75,780 distinct states, about 1 min |
| `tx_gossip_lag` | `MCTxGossipLag.cfg` | PoolsConverge | violation: a lasso found after 18,951 states |
| `merkle_algorithm` | `MCMerkle.cfg` | RootMatchesReference, ProofSound, RootCommits | pass: 21,845 distinct states, about 25 s |
| `header_rules` | `MCHeader.cfg` | TemplateAboveMedian, MedianTimeNonDecreasing | pass: 208,747 distinct states, about 20 s |
| `registry` | `MCRegistry.cfg` | RegisteredAreOpen, OpenAreRegistered | pass: 12,730 distinct states, about 1 s |
| `registry_duplicate_bootstrap` | `MCRegistryTwice.cfg` | OpenAreRegistered | violation in 4 steps |
| `registry_full` | `MCRegistryFull.cfg` | PeersBounded | violation in 4 steps |
| `gossip_catch_up` | `MCGossipCatchUp.cfg` | CatchUp | violation: a lasso of 27 steps |
| `gossip_sync_lost` | `MCGossipLost.cfg` | SyncEventuallyDone | violation: a lasso of 14 steps |

**Bounds of `ledger_safety`.**

- Two keys, both of which mine; one post body.
- Nonces 0..1, fee 1, amounts {0, 1}.
- Blocks with up to two signed transactions, so a post and its endorsement, or
  a transfer and a spend of it, can share a block.
- Heights 0..3 with a reward of 2 halving every 2 blocks, so the reward
  schedule changes inside the run.

These bounds cover a miner paying itself fees, an endorser tipping the
author of a post in the same block, a transfer funding a new account, and a
second signed transaction from the same key (nonce 1). The deadlock check is
off because a chain nobody appends to may stay at any height. Symmetry over the
two keys is sound because every property is a safety property.

**Bounds of the `Node` runs.** The node is `a1`, and `a2` is the peer miner
whose blocks (a coinbase and at most one signed transaction) arrive through
`handle_new_block`. The pool holds two transactions. The sizes are a
coinbase 1, a post 4, an endorsement or transfer 3 and a header 2, against
a limit of 10. So a post and a transfer fit in one template, while two
posts make the selection loop `break`.

- `node_mempool` has fees 1 and 2, so a full pool evicts, and one block
  after genesis. Each state computes every block the peer could send, which
  is why the block bound is small: with two blocks and both fees the run
  does not finish in 15 minutes. At one block, `TemplateValid` is checked
  on every template built from a pool of up to two transactions, with any
  nonces and references. A template built again after a cleanup would need
  a second block. The reward does not halve within the run; its schedule is
  checked in `ledger_safety`.
- `node_mempool` takes the estimate equal to the real size.
  `_estimate_block_size` is not exact: its 200 for the header is about 230
  bytes short, and `str()` of a transaction's dict is about a dozen
  characters longer than its JSON. For text that JSON neither escapes nor
  encodes in several bytes, the estimate passes the real size long before a
  block is full; 400 posts of 300 letters are estimated 5,359 bytes above
  their size. `TemplateValid`'s size conjunct therefore holds for such text
  only, and `node_block_size` takes the other case.
- `node_block_size` adds a post body `b2` of non-ASCII text. Its real size
  is 9 and its estimate 4, in the ratio 1508:623 measured for a post of 300
  emoji. A body of double quotes, which JSON escapes, behaves alike.

The deadlock check is off in both because the height bound stops both
miners, while the real loop never stops. No symmetry is used, because `Self`
is distinguished.

**Bounds of the `Gossip` runs.** Nodes `m` (the miner), `f` and `r`.

- `gossip_catch_up` uses a triangle: `f` dials `m` and `r`, and `r` dials
  `m`. So a follower hears of one block from two peers, and it can be
  syncing from one while the other announces. It goes up to height 2 with
  batches of 1 and no loss; every block is one size unit, and so is the
  message limit.
- `gossip_sync_lost` uses `m`, `f`, and `r`, a node on another chain
  at height 2 that dials `f`. It goes up to height 3 with batches of 2 and
  no network loss. Every block is one unit against a limit of one, so a
  window of two blocks cannot be sent, just as 17 full blocks cannot be
  in the code. `f` rejects block 1 (`Rejects = {<<f, 1>>}`). TLC reports
  the shortest trace, through `r`'s genesis mismatch. Each trigger also
  fails alone. The oversized window fails with `Foreign = {}` and
  `Rejects = {}`. The rejection fails with `Foreign = {}`, a message limit
  of 2, and `f` dialing `m` alone (`MCPairNodes`): 143 distinct states, a
  lasso of 13 steps.

The deadlock check is off: once the miner stops and the streams drain,
nothing moves.

**Bounds of the `TxGossip` runs.** Two nodes, `m` (the miner) and `f`, which
dials `m`, and the sender's transactions 0 and 1. With three nodes, even one
transaction makes the state space too large for TLC. The relay cases are
therefore checked without transactions in the `Gossip` runs.

- `gossip_sync_tx` goes up to height 4 with batches of 2, and one connection
  may be lost. Block 4 is two units against a limit of two, so the window
  3..4 cannot be sent, while 1..2, 2..3 and 4 alone can. `f` can join while `m` is two windows ahead and receive
  announces, requests and responses in the middle of its sync. Either node
  can submit either transaction, in either order, and a transaction can be
  mined between its announce and the request for it.
- `tx_gossip_lag` goes up to height 3 with batches of 2 and no loss, and
  every window fits in a message. That is
  the smallest case in which a sync takes two windows.

`SyncEventuallyDone` is not in a passing run. Neither is a claim that
`_syncing` outlives its exchange only after a lost connection: that claim
holds only while every node accepts every block, and `gossip_sync_lost`
shows the flag stuck on a live connection once a block of a full window is
rejected.

**Bounds of the `Merkle` run.** `merkle_algorithm` uses every list of up
to 7 leaves over 4 hashes.

- Depths go to 3. Odd levels occur at the leaves (n = 3), one level up
  (n = 6), and at both (n = 5, 7). Those are all the shapes of duplication.
- For `RootCommits`, each list is compared with every list of up to 4
  leaves (`MaxOther`). This includes every duplicate-free list over 4
  hashes. It also puts `[a,b,c]` beside `[a,b,c,c]`, which share a root;
  the duplicate-transaction check is what keeps the two from both being
  valid blocks.

**Bounds of `header_rules`.** The constants are scaled down:

| Constant | Value | Why |
|---|---|---|
| `MEDIAN_TIME_BLOCK_COUNT` | 3 | odd like 11; full windows from height 2 |
| `DIFFICULTY_ADJUSTMENT_WINDOW` | 2 | three retargets, at heights 2, 4 and 6 |
| `BLOCK_TIME_TARGET` | 1 | |
| `MAX_FUTURE_TIMESTAMP` | 2 | |
| `MAX_DIFFICULTY_ADJUSTMENT` | 4 | |
| `GenesisTime` | 1 | |
| `MAX_TARGET` | 3 | |
| `MaxHeight` | 6 | |
| `MaxTime` | 7 | |

Peer timestamps range over 0..10.

- A genesis stamp of 1 lets a block be stamped before genesis.
- The window and target make a retarget hit both clamps: a window of 8 s
  or more quarters the difficulty, and one of 0 s quadruples it. From
  difficulty 1 the quarter is 0, so the floor at 1 matters.
- With `MAX_TARGET` 3, difficulty 4 and more leave a single hash.
- The run reaches an own template stamped past `now + 2`, which
  `add_block` rejects.

**Bounds of the `Registry` runs.** Two dialable addresses `b1` and `b2` and
one inbound remote `r1`.

- `registry` bootstraps `b1,b2`. Both are learnt by peer exchange and there
  is room for all three. Up to five connections are opened, so a key is
  dialed, lost, and dialed again by an exchange round.
- `registry_duplicate_bootstrap` bootstraps `b1,b1`.
- `registry_full` has one free slot.

Every property has a mutant (see `PROJECT.json`). Each is a plausible bug in
the mapped definition, and TLC finds the property violated under the run's own
configuration:

- an endorser charged only the gas fee;
- a transfer that keeps its nonce;
- no reply_to check;
- an endorser's balance checked against the fee alone;
- fees paid to the previous block's miner;
- a transfer to its own sender accepted (`ImplementsAbstractChain`: the
  supply, nonces and balances all stay consistent, but the replay rejects
  it as malformed);
- a confirmed post whose author is not recorded (`TypeOK`);
- `revalidate` not called after a block;
- the pool counted full only above its bound;
- template candidates checked against the chain state instead of the
  working state;
- `_on_tx_request` that looks only at the chain, not the mempool
  (`TxReachesMiner`);
- an odd level padded with its first hash instead of its last;
- proof steps with the sibling's side flipped;
- the duplicate-transaction check that looks only at `chain.tx_index`;
- the `finally` of `_peer_loop` without `peers.pop`;
- `connect_to_peer` that does not store the handshaken peer;
- the median check made only from height 1 (`MedianTimeNonDecreasing`);
- the template timestamp at `int(median)` without the `+ 1`
  (`TemplateAboveMedian`).

## 5. Findings

- **The miner's block-size estimate is below the size validation measures**
  (`miner.py:63` against `validation.py:324`). `_estimate_block_size` counts
  the characters of `str(tx.to_dict())` plus 200 for the header.
  `serialized_size` counts canonical UTF-8 bytes, and the header alone is
  about 446. A near-full template of non-ASCII posts, or of text JSON
  escapes such as double quotes, therefore passes the
  estimate and is rejected by `add_block`. `_mining_loop` logs "mined block
  rejected" (`node.py:149`) and builds the same template again from the
  unchanged mempool, so the node stops extending its chain until a peer's
  block arrives. Run `node_block_size` shows the oversized template.

- **Sync stops at the handshake height** (`server.py:276`, with `:223`).
  Run `gossip_catch_up`. `_on_sync_response` asks for the next window only
  while the last block is below `peer.peer_height`, which the handshake set
  once. A block announced during the sync is added to `_seen_block_hashes`,
  and its `_start_sync` returns because a sync is running. The last full
  window ends at the old height, and nothing is requested. After the miner
  stops, no announce comes again, and the follower stays behind for good.
  The spec says a full batch is followed by the next request while the peer
  is ahead.
- **A dialer on another chain leaves `_syncing` set forever**
  (`server.py:108`). Run `gossip_sync_lost`. `_handle_inbound` records the
  dialer's handshake but never compares genesis hashes; only the dialing
  side does (`server.py:127`). The spec says a mismatch aborts the
  connection. A node of another network that dials in with a greater
  height is therefore registered, and this node's `_peer_loop` starts a
  sync with it. The dialer sees the mismatch and closes. This node reads
  EOF with `_syncing` set, and from then on it never syncs again.
- **A sync window over `MAX_MESSAGE_SIZE` closes the connection and
  leaves `_syncing` set forever** (`protocol.py:47`, `server.py:263`,
  `server.py:286`). Run `gossip_sync_lost`. `_on_sync_request` sends the
  whole window (up to 50 blocks of up to 256 KiB each) in one
  `SYNC_RESPONSE`. From 17 full blocks on, this exceeds 4 MiB, and
  `encode_message` raises `ValueError`. `PeerConnection.send` catches only
  `ConnectionError` and `OSError` (`peer.py:50`), so the exception ends the
  responder's `_peer_loop`, and its `finally` closes the connection. A
  Python check confirms the raise: a 17-block response of 250,000-byte
  transactions is 4,250,765 bytes. The requester reads EOF with `_syncing`
  still set, since only a sync response or an accepted block clears it.
  Every later `_start_sync` returns at once, including the one `_peer_loop`
  makes for a new peer that is ahead, so the node never syncs again. A
  connection lost by the network during a sync ends the same way.

- **A sync batch never aborts on a rejected block** (`server.py:268`,
  `node.py:114`). Run `gossip_sync_lost`, with the rejection trigger.
  The spec says `SYNC_RESPONSE` aborts on the first rejection.
  `handle_new_block` catches the `ValidationError` itself and returns, so
  the `except`/`break` of `_on_sync_response` never runs. Only an accepted
  block calls `mark_sync_done`. Here is the trace:
  - `f` handshakes with `m` at height 1.
  - `f` is sent the full window 1..2.
  - `f` rejects block 1 and ignores block 2, which is not tip+1.
  - `f` asks for nothing more, since the last height, 2, is not below the
    handshake height.
  - `_syncing` stays set on a live connection, and the announces of blocks
    2 and 3 only reach `_start_sync`, which returns.

- **`MAX_PEERS` is checked before the awaits** (`server.py:73`). Run
  `registry_full`. `connect_to_peer` checks `len(self.peers) >= MAX_PEERS`
  before `open_connection` and the handshake, and registers after them.
  Node.start and each exchange round create all their dial tasks at once, so
  every task passes the check before any registers. With one free slot, two
  dials, or a dial and an inbound handshake (`server.py:99`), both register.
- **A duplicate bootstrap address unregisters a live connection**
  (`server.py:71`). Run `registry_duplicate_bootstrap`. `parse_peers` keeps
  duplicates, and both tasks pass `(host, port) in self.peers` before either
  awaits. The second registration overwrites the first, and the first
  connection stays in `_peer_loop` without an entry, so no broadcast reaches
  it. When it ends, its `finally` pops the key and drops the second, live
  connection as well.

- **A transaction announced during a multi-batch sync never reaches the
  syncing node** (`server.py:193`). Run `tx_gossip_lag`. Spec scenario 6
  says a transaction submitted to one node appears in its peers' mempools.
  `_on_tx_announce` marks the hash seen before the transaction is fetched.
  A follower part-way through a sync rejects the `TX_RESPONSE`, because its
  chain lacks the sender's earlier transaction and the nonce check fails.
  After the next `SYNC_RESPONSE` the transaction is valid there, but nothing
  fetches it again: later announces of the hash are ignored, and
  `broadcast_tx` is not repeated. In the real code the sync must be longer
  than `SYNC_BATCH_SIZE` (50) blocks.

## 6. Not modelled, and why

- **Cryptography, the canonical codec, message framing and the HTTP
  transport.** These are pure encodings. They are represented by identity of
  content (hashes) or by records on channels.
- **The float retargeting ratio** (`validation.py:205`). It disagrees with
  exact arithmetic, but TLC's integers cannot hold IEEE-754 doubles. This
  hazard is recorded from an exhaustive Python comparison.
- **Transaction gossip with three or more nodes.** It is beyond TLC at any
  useful bound, so `TxGossip` is checked with two. Peer exchange and
  `MAX_PEERS` are in `Registry`, not in `Gossip`.
- **The RPC read methods and HTTP framing** (`rpc/server.py`). Only
  `submit_transaction` changes state, and it is `SubmitTx`.
- **`Node.stop` and `P2PServer.stop`** (`node.py:67`, `server.py:59`). The
  spec says stop tears down every background task. The code cancels only
  the mining task: `peer_exchange_loop` keeps dialing, and a handshake
  that completes after `peers.clear()` registers a live peer. Once stopped,
  no invariant about the registry is meant to hold, so the gap is a hazard
  in `PROJECT.json` rather than an action of `Registry`.
- **Persistence and restarts.** State is in memory only and a restarted node
  starts from genesis. There is nothing to recover.
