-------------------------------- MODULE Node --------------------------------
(***************************************************************************)
(* One jiji node around its chain: the Mempool (src/jiji/mining/          *)
(* mempool.py), the Miner that assembles templates from it                *)
(* (mining/miner.py), and the Node handlers that drive both (node.py):    *)
(* handle_new_transaction, handle_new_block and the mining loop.          *)
(*                                                                         *)
(* All of them run on one asyncio event loop, so each handler is atomic   *)
(* up to its next await.  The mining loop is split at its awaits:         *)
(* BuildTemplate (create_block_template, then grinding), and Solve (the   *)
(* chunk that finds the nonce, followed without an await by the stale     *)
(* check, add_block and the mempool cleanup).  Between them the loop      *)
(* yields with asyncio.sleep(0) after every unsuccessful chunk, and any   *)
(* other handler may run.  Chunks that find nothing change no variable    *)
(* and are stuttering steps.                                               *)
(***************************************************************************)
EXTENDS Integers, Sequences, FiniteSets, TLC, SequencesExt

CONSTANTS
    Accounts, Miners, Bodies, Amounts, Fees, MaxNonce, MaxHeight, MaxBlockTxs,
    INITIAL_BLOCK_REWARD, HALVING_INTERVAL, MINIMUM_GAS_FEE,
    MAX_BLOCK_SIZE, HEADER_SIZE, SerializedSize(_), NoPost, NoAccount,
    Self,                  \* this node's key (Miner._pubkey)
    MAX_MEMPOOL_SIZE,      \* Mempool._max_size
    ESTIMATE_HEADER,       \* the 200 of _estimate_block_size
    EstimatedSize(_),      \* len(str(tx.to_dict())) in _estimate_block_size
    NoBlock                \* no template is being ground

ASSUME Self \in Miners

VARIABLES
    main_chain, state, tx_index, known_posts, post_authors,  \* the Blockchain
    pool,        \* Mempool._txs, in insertion order
    mining,      \* "build": about to call create_block_template; "grind"
    template     \* the block _async_mine is grinding, or NoBlock

chain_vars == <<main_chain, state, tx_index, known_posts, post_authors>>
vars == <<chain_vars, pool, mining, template>>

L == INSTANCE Ledger

-----------------------------------------------------------------------------
(* Mempool (mining/mempool.py).                                           *)

InPool(tx) == \E i \in DOMAIN pool : pool[i] = tx

\* _find_lowest_fee: the first entry, in insertion order, of least fee
LowestFeeIndex ==
    CHOOSE i \in DOMAIN pool :
        /\ \A j \in DOMAIN pool : pool[i].gas_fee <= pool[j].gas_fee
        /\ \A j \in 1..(i - 1) : pool[j].gas_fee > pool[i].gas_fee

\* The checks of Mempool.add before the capacity test: no duplicate, not
\* confirmed, format, and state against the live chain.
Admissible(tx) ==
    /\ ~InPool(tx)
    /\ tx \notin DOMAIN tx_index
    /\ L!FormatValid(tx, 0)
    /\ L!StateValid(tx, state, known_posts)

\* Fault variant of Add: the pool counts as full only above its bound.
AddFullOffByOne(tx) ==
    /\ Admissible(tx)
    /\ IF Len(pool) > MAX_MEMPOOL_SIZE
       THEN /\ tx.gas_fee > pool[LowestFeeIndex].gas_fee
            /\ pool' = Append(RemoveAt(pool, LowestFeeIndex), tx)
       ELSE pool' = Append(pool, tx)

\* Mempool.add when it returns: at capacity the lowest-fee entry is
\* evicted for a strictly higher fee (otherwise add raises "fee too low").
Add(tx) ==
    /\ Admissible(tx)
    /\ IF Len(pool) >= MAX_MEMPOOL_SIZE
       THEN /\ tx.gas_fee > pool[LowestFeeIndex].gas_fee
            /\ pool' = Append(RemoveAt(pool, LowestFeeIndex), tx)
       ELSE pool' = Append(pool, tx)

\* Fault variant of CleanUp: remove_confirmed without revalidate.
CleanUpNoRevalidate(block) ==
    pool' = SelectSeq(pool, LAMBDA t :
                ~\E i \in DOMAIN block.transactions : block.transactions[i] = t)

\* Mempool.remove_confirmed followed by Mempool.revalidate, against the
\* chain as it is after the block (primed variables).
CleanUp(block) ==
    pool' = SelectSeq(pool, LAMBDA t :
                /\ ~\E i \in DOMAIN block.transactions : block.transactions[i] = t
                /\ L!StateValid(t, state', known_posts'))

\* Mempool.get_pending: sorted by gas_fee descending; Python's sort is
\* stable, so equal fees keep insertion order.
GetPending ==
    LET fees == SetToSortSeq(Fees, LAMBDA x, y : x > y)
    IN  FlattenSeq([k \in DOMAIN fees |->
                      SelectSeq(pool, LAMBDA t : t.gas_fee = fees[k])])

-----------------------------------------------------------------------------
(* Miner (mining/miner.py).                                               *)

\* _estimate_block_size
EstimateBlockSize(txs) ==
    FoldLeft(LAMBDA n, tx : n + EstimatedSize(tx), ESTIMATE_HEADER, txs)

\* Fault variant of SelectStep: candidates are checked against the chain's
\* state instead of the working state.
SelectStepChainState(m, tx) ==
    IF m.stopped \/ ~L!FormatValid(tx, 0) \/ ~L!StateValid(tx, state, m.posts)
    THEN m
    ELSE IF EstimateBlockSize(Append(m.selected, tx)) > MAX_BLOCK_SIZE
    THEN [m EXCEPT !.stopped = TRUE]
    ELSE [m EXCEPT
            !.selected = Append(@, tx),
            !.state = L!ApplyTransaction(@, tx, Self, L!TargetAuthor(tx, m.authors)),
            !.posts = IF tx.tx_type = "post" THEN @ \cup {tx} ELSE @,
            !.authors = IF tx.tx_type = "post" THEN (tx :> tx.author) @@ @ ELSE @]

\* One iteration of the loop over get_pending() in create_block_template.
\* m carries the selected list, the working state, posts and authors, and
\* whether the size check has broken out of the loop.
SelectStep(m, tx) ==
    IF m.stopped \/ ~L!FormatValid(tx, 0) \/ ~L!StateValid(tx, m.state, m.posts)
    THEN m
    ELSE IF EstimateBlockSize(Append(m.selected, tx)) > MAX_BLOCK_SIZE
    THEN [m EXCEPT !.stopped = TRUE]
    ELSE [m EXCEPT
            !.selected = Append(@, tx),
            !.state = L!ApplyTransaction(@, tx, Self, L!TargetAuthor(tx, m.authors)),
            !.posts = IF tx.tx_type = "post" THEN @ \cup {tx} ELSE @,
            !.authors = IF tx.tx_type = "post" THEN (tx :> tx.author) @@ @ ELSE @]

\* height = self._chain.height + 1
TemplateHeight == Len(main_chain)

\* Miner.create_block_template: coinbase, working copies, the selection
\* loop, then the header with the resulting state root and nonce 0.
CreateBlockTemplate ==
    LET h  == TemplateHeight
        cb == L!Coinbase(Self, h)
        m  == FoldLeft(SelectStep,
                       [selected |-> <<cb>>, stopped |-> FALSE,
                        state |-> L!ApplyTransaction(state, cb, Self, NoAccount),
                        posts |-> known_posts, authors |-> post_authors],
                       GetPending)
    IN  [header |-> [height |-> h, miner |-> Self,
                     tx_count |-> Len(m.selected), state_root |-> m.state],
         transactions |-> m.selected]

-----------------------------------------------------------------------------
(* Node handlers (node.py).                                               *)

\* handle_new_transaction (from RPC submit_transaction or a TX_RESPONSE):
\* Mempool.add; the announce to peers is the Gossip module's concern.
HandleNewTransaction(tx) ==
    /\ Add(tx)
    /\ UNCHANGED <<chain_vars, mining, template>>

\* handle_new_block for a block from a peer: ignored if known or not at
\* tip+1, else add_block; on success the mempool is cleaned.
HandleNewBlock(block) ==
    /\ block.header.height = Len(main_chain)
    /\ L!AddBlock(block)
    /\ CleanUp(block)
    /\ UNCHANGED <<mining, template>>

\* _mining_loop, first half: create_block_template, then _async_mine
\* grinds it, yielding between chunks.
BuildTemplate ==
    /\ Len(main_chain) <= MaxHeight
    /\ mining = "build"
    /\ mining' = "grind"
    /\ template' = CreateBlockTemplate
    /\ UNCHANGED <<chain_vars, pool>>

\* _mining_loop, second half: a chunk finds the nonce; if the chain moved
\* the block is dropped, else add_block and the mempool cleanup run.  A
\* ValidationError from add_block is logged and the loop starts over.
Solve ==
    /\ mining = "grind"
    /\ mining' = "build"
    /\ template' = NoBlock
    /\ IF template.header.height = Len(main_chain) /\ L!ValidBlock(template)
       THEN /\ L!ApplyBlock(template)
            /\ CleanUp(template)
       ELSE UNCHANGED <<chain_vars, pool>>

\* Blockchain.initialize_genesis(self.public_key), as Node.start calls it:
\* a lone coinbase at height 0 applied to the empty state.
GenesisBlock ==
    LET cb == L!Coinbase(Self, 0)
    IN  [header |-> [height |-> 0, miner |-> Self, tx_count |-> 1,
                     state_root |-> L!Credit([pk \in {} |-> L!Zero], Self, cb.amount)],
         transactions |-> <<cb>>]

\* Node.start: the chain holds the genesis block, the mempool is empty, and
\* the mining loop is about to build its first template.
Init ==
    /\ main_chain = <<GenesisBlock>>
    /\ state = GenesisBlock.header.state_root
    /\ tx_index = (GenesisBlock.transactions[1] :> 0)
    /\ known_posts = {}
    /\ post_authors = [p \in {} |-> NoAccount]
    /\ pool = <<>>
    /\ mining = "build"
    /\ template = NoBlock

Next ==
    \/ \E tx \in L!SignedTxs : HandleNewTransaction(tx)
    \/ \E b \in L!CandidateBlocks : b.header.miner # Self /\ HandleNewBlock(b)
    \/ BuildTemplate
    \/ Solve

\* Only safety is checked of Node, so no fairness is assumed.
Spec == Init /\ [][Next]_vars

-----------------------------------------------------------------------------
(* Properties.                                                            *)

PoolSet == {pool[i] : i \in DOMAIN pool}

\* Between handlers the mempool holds no duplicate and no confirmed
\* transaction, and every pooled transaction still passes
\* validate_transaction_state against the chain: Mempool.add checks this
\* on entry, and remove_confirmed plus revalidate after every block
\* (handle_new_block and the mining loop) must restore it.
PoolValid ==
    /\ Len(pool) = Cardinality(PoolSet)
    /\ \A t \in PoolSet :
          /\ t \notin DOMAIN tx_index
          /\ L!StateValid(t, state, known_posts)

\* Mempool.add never lets the pool grow past MAX_MEMPOOL_SIZE: at capacity
\* a newcomer replaces an entry or is refused.
PoolBounded == Len(pool) <= MAX_MEMPOOL_SIZE

\* While the chain has not moved since create_block_template, the template
\* being ground is a block validate_block accepts: solving it can only be
\* rejected because the chain advanced (the stale check of _mining_loop),
\* never by add_block.
TemplateValid ==
    (mining = "grind" /\ template.header.height = Len(main_chain))
        => L!ValidBlock(template)

\* The template create_block_template builds never exceeds MAX_BLOCK_SIZE
\* as validate_block measures it (the check _estimate_block_size is there
\* to ensure).
TemplateWithinSizeLimit ==
    mining = "grind" => L!BlockSize(template) <= MAX_BLOCK_SIZE

=============================================================================
