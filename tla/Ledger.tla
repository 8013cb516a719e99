------------------------------- MODULE Ledger -------------------------------
(***************************************************************************)
(* The consensus and state engine of a jiji node: the Blockchain class     *)
(* (src/jiji/core/chain.py), the WorldState it owns (core/state.py) and    *)
(* the block and transaction validation it runs before every append        *)
(* (core/validation.py).                                                   *)
(*                                                                         *)
(* Data abstraction.  A transaction is a record holding the fields of its  *)
(* content address (the signature is left out, as it is of the hash), so  *)
(* the record itself stands for its tx_hash.  Signatures, key lengths and  *)
(* body lengths are taken to be well formed; the remaining format checks   *)
(* (fees, amounts, sender # recipient, coinbase height and reward) are     *)
(* modelled.  A block on the main chain is identified by its height, the   *)
(* only identity tx_index needs when there are no forks.  A state root is  *)
(* the account map itself: the Merkle root over sorted accounts is an      *)
(* injective stand-in for it, so two roots agree exactly when the maps do. *)
(* The header rules on version, prev_hash, timestamps, difficulty and      *)
(* proof of work do not depend on the transactions: they are in Header.   *)
(***************************************************************************)
EXTENDS Integers, Sequences, FiniteSets, TLC, SequencesExt

CONSTANTS
    Accounts,             \* public keys that may sign, receive or mine
    Miners,               \* keys of the nodes that assemble blocks
    Bodies,               \* post bodies, as far as the hash tells them apart
    Amounts,              \* amounts a signed transaction may carry
    Fees,                 \* gas fees a signed transaction may carry
    MaxNonce,             \* largest nonce a candidate transaction carries
    MaxHeight,            \* the chain grows to heights 0..MaxHeight
    MaxBlockTxs,          \* signed transactions in a candidate block
    INITIAL_BLOCK_REWARD,
    HALVING_INTERVAL,
    MINIMUM_GAS_FEE,
    MAX_BLOCK_SIZE,       \* config.MAX_BLOCK_SIZE, in the units of SerializedSize
    HEADER_SIZE,          \* serialized size of a header with its block wrapper
    SerializedSize(_),    \* serialized size of one transaction
    NoPost,               \* reply_to = None
    NoAccount             \* post_authors.get(...) returned None

ASSUME Miners \subseteq Accounts

VARIABLES
    main_chain,    \* sequence of blocks; main_chain[k] has height k-1
    state,         \* WorldState.accounts: partial map pubkey -> Account
    tx_index,      \* tx_hash -> height of the block that confirmed it
    known_posts,   \* hashes of confirmed posts
    post_authors   \* post hash -> author

vars == <<main_chain, state, tx_index, known_posts, post_authors>>

-----------------------------------------------------------------------------
(* Transactions (core/transaction.py) and the reward schedule.            *)

Nonces == 0..MaxNonce

TopPosts == [tx_type : {"post"}, author : Accounts, nonce : Nonces,
             body : Bodies, reply_to : {NoPost}, gas_fee : Fees]

Replies == [tx_type : {"post"}, author : Accounts, nonce : Nonces,
            body : Bodies, reply_to : TopPosts, gas_fee : Fees]

Endorsements == [tx_type : {"endorse"}, author : Accounts, nonce : Nonces,
                 target : TopPosts, amount : Amounts, gas_fee : Fees]

Transfers == [tx_type : {"transfer"}, sender : Accounts, recipient : Accounts,
              amount : Amounts, nonce : Nonces, gas_fee : Fees]

SignedTxs == TopPosts \cup Replies \cup Endorsements \cup Transfers

\* Signable.signer_key
Signer(tx) == IF tx.tx_type = "transfer" THEN tx.sender ELSE tx.author

\* config.block_reward: INITIAL_BLOCK_REWARD >> halvings, zero after 64
BlockReward(h) ==
    LET halvings == h \div HALVING_INTERVAL
    IN  IF halvings >= 64 THEN 0 ELSE INITIAL_BLOCK_REWARD \div (2 ^ halvings)

Coinbase(miner, h) ==
    [tx_type |-> "coinbase", recipient |-> miner, amount |-> BlockReward(h),
     height |-> h]

-----------------------------------------------------------------------------
(* WorldState (core/state.py).  An account map is a function whose domain *)
(* is the set of accounts that exist.                                     *)

Zero == [balance |-> 0, nonce |-> 0]

\* WorldState.get_or_create
GetOrCreate(st, pk) == IF pk \in DOMAIN st THEN st ELSE (pk :> Zero) @@ st

\* account.balance += amt, creating the account first
Credit(st, pk, amt) ==
    LET s == GetOrCreate(st, pk) IN [s EXCEPT ![pk].balance = @ + amt]

\* signer.balance -= cost; signer.nonce += 1
Charge(st, pk, cost) ==
    LET s == GetOrCreate(st, pk)
    IN  [s EXCEPT ![pk] = [balance |-> @.balance - cost, nonce |-> @.nonce + 1]]

\* Fault variants of ApplyTransaction.  TipUndebited charges an endorser
\* only the gas fee (author.balance -= tx.gas_fee); TransferNonceKept
\* forgets sender.nonce += 1 in _apply_transfer.
ApplyTransactionTipUndebited(st, tx, miner, target_author) ==
    CASE tx.tx_type = "coinbase" -> Credit(st, tx.recipient, tx.amount)
      [] tx.tx_type = "post" ->
            Credit(Charge(st, tx.author, tx.gas_fee), miner, tx.gas_fee)
      [] tx.tx_type = "endorse" ->
            LET s == Credit(Charge(st, tx.author, tx.gas_fee), miner, tx.gas_fee)
            IN  IF tx.amount > 0 /\ target_author # NoAccount
                THEN Credit(s, target_author, tx.amount) ELSE s
      [] tx.tx_type = "transfer" ->
            Credit(Credit(Charge(st, tx.sender, tx.amount + tx.gas_fee),
                          tx.recipient, tx.amount),
                   miner, tx.gas_fee)

ApplyTransactionTransferNonceKept(st, tx, miner, target_author) ==
    CASE tx.tx_type = "coinbase" -> Credit(st, tx.recipient, tx.amount)
      [] tx.tx_type = "post" ->
            Credit(Charge(st, tx.author, tx.gas_fee), miner, tx.gas_fee)
      [] tx.tx_type = "endorse" ->
            LET s == Credit(Charge(st, tx.author, tx.gas_fee + tx.amount),
                            miner, tx.gas_fee)
            IN  IF tx.amount > 0 /\ target_author # NoAccount
                THEN Credit(s, target_author, tx.amount) ELSE s
      [] tx.tx_type = "transfer" ->
            Credit(Credit(Credit(st, tx.sender, -(tx.amount + tx.gas_fee)),
                          tx.recipient, tx.amount),
                   miner, tx.gas_fee)

\* WorldState.apply_transaction and its four _apply_* cases
ApplyTransaction(st, tx, miner, target_author) ==
    CASE tx.tx_type = "coinbase" ->
            Credit(st, tx.recipient, tx.amount)
      [] tx.tx_type = "post" ->
            Credit(Charge(st, tx.author, tx.gas_fee), miner, tx.gas_fee)
      [] tx.tx_type = "endorse" ->
            LET s == Credit(Charge(st, tx.author, tx.gas_fee + tx.amount),
                            miner, tx.gas_fee)
            IN  IF tx.amount > 0 /\ target_author # NoAccount
                THEN Credit(s, target_author, tx.amount) ELSE s
      [] tx.tx_type = "transfer" ->
            Credit(Credit(Charge(st, tx.sender, tx.amount + tx.gas_fee),
                          tx.recipient, tx.amount),
                   miner, tx.gas_fee)

-----------------------------------------------------------------------------
(* Validation (core/validation.py).                                       *)

\* Fault variant of FormatValid: a transfer to the sender itself passes.
FormatValidSelfTransfer(tx, expected_height) ==
    CASE tx.tx_type = "post" ->
            tx.nonce >= 0 /\ tx.gas_fee >= MINIMUM_GAS_FEE
      [] tx.tx_type = "endorse" ->
            tx.nonce >= 0 /\ tx.amount >= 0 /\ tx.gas_fee >= MINIMUM_GAS_FEE
      [] tx.tx_type = "transfer" ->
            tx.amount > 0 /\ tx.nonce >= 0 /\ tx.gas_fee >= MINIMUM_GAS_FEE
      [] tx.tx_type = "coinbase" ->
            tx.height = expected_height /\ tx.amount = BlockReward(expected_height)

\* validate_transaction_format: the checks that remain after abstraction
FormatValid(tx, expected_height) ==
    CASE tx.tx_type = "post" ->
            tx.nonce >= 0 /\ tx.gas_fee >= MINIMUM_GAS_FEE
      [] tx.tx_type = "endorse" ->
            tx.nonce >= 0 /\ tx.amount >= 0 /\ tx.gas_fee >= MINIMUM_GAS_FEE
      [] tx.tx_type = "transfer" ->
            /\ tx.sender # tx.recipient
            /\ tx.amount > 0
            /\ tx.nonce >= 0
            /\ tx.gas_fee >= MINIMUM_GAS_FEE
      [] tx.tx_type = "coinbase" ->
            tx.height = expected_height /\ tx.amount = BlockReward(expected_height)

\* the account-existence, nonce and balance checks shared by all signed kinds
FundsValid(st, pk, nonce, cost) ==
    /\ pk \in DOMAIN st
    /\ nonce = st[pk].nonce
    /\ st[pk].balance >= cost

\* Fault variants of StateValid.  ReplyUnchecked drops the reply_to check
\* of _validate_post_state; TipUnfunded checks an endorser's balance
\* against the gas fee alone.
StateValidReplyUnchecked(tx, st, posts) ==
    CASE tx.tx_type = "post" -> FundsValid(st, tx.author, tx.nonce, tx.gas_fee)
      [] tx.tx_type = "endorse" ->
            /\ FundsValid(st, tx.author, tx.nonce, tx.gas_fee + tx.amount)
            /\ tx.target \in posts
      [] tx.tx_type = "transfer" ->
            FundsValid(st, tx.sender, tx.nonce, tx.amount + tx.gas_fee)
      [] tx.tx_type = "coinbase" -> TRUE

StateValidTipUnfunded(tx, st, posts) ==
    CASE tx.tx_type = "post" ->
            /\ FundsValid(st, tx.author, tx.nonce, tx.gas_fee)
            /\ tx.reply_to = NoPost \/ tx.reply_to \in posts
      [] tx.tx_type = "endorse" ->
            /\ FundsValid(st, tx.author, tx.nonce, tx.gas_fee)
            /\ tx.target \in posts
      [] tx.tx_type = "transfer" ->
            FundsValid(st, tx.sender, tx.nonce, tx.amount + tx.gas_fee)
      [] tx.tx_type = "coinbase" -> TRUE

\* validate_transaction_state with _validate_{post,endorse,transfer}_state
StateValid(tx, st, posts) ==
    CASE tx.tx_type = "post" ->
            /\ FundsValid(st, tx.author, tx.nonce, tx.gas_fee)
            /\ tx.reply_to = NoPost \/ tx.reply_to \in posts
      [] tx.tx_type = "endorse" ->
            /\ FundsValid(st, tx.author, tx.nonce, tx.gas_fee + tx.amount)
            /\ tx.target \in posts
      [] tx.tx_type = "transfer" ->
            FundsValid(st, tx.sender, tx.nonce, tx.amount + tx.gas_fee)
      [] tx.tx_type = "coinbase" -> TRUE

\* post_authors.get(tx.target) for an endorsement with a tip, else None
TargetAuthor(tx, authors) ==
    IF tx.tx_type = "endorse" /\ tx.amount > 0 /\ tx.target \in DOMAIN authors
    THEN authors[tx.target] ELSE NoAccount

\* One iteration of the loop of validate_block over block.transactions:
\* w carries the working state, posts, authors and seen hashes.
ValidateStep(w, tx, miner, h, confirmed) ==
    IF ~w.ok THEN w
    ELSE IF \/ tx \in w.seen \/ tx \in confirmed
            \/ ~FormatValid(tx, h)
            \/ ~StateValid(tx, w.state, w.posts)
         THEN [w EXCEPT !.ok = FALSE]
    ELSE [ok     |-> TRUE,
          seen   |-> w.seen \cup {tx},
          state  |-> ApplyTransaction(w.state, tx, miner, TargetAuthor(tx, w.authors)),
          posts  |-> IF tx.tx_type = "post" THEN w.posts \cup {tx} ELSE w.posts,
          authors|-> IF tx.tx_type = "post"
                     THEN (tx :> tx.author) @@ w.authors ELSE w.authors]

\* The transaction loop of validate_block, run on copies of the chain's
\* state, known_posts and post_authors.
WorkingResult(block) ==
    FoldLeft(LAMBDA w, tx : ValidateStep(w, tx, block.header.miner,
                                         block.header.height, DOMAIN tx_index),
             [ok |-> TRUE, seen |-> {}, state |-> state,
              posts |-> known_posts, authors |-> post_authors],
             block.transactions)

\* Block.serialized_size: canonical JSON of the header and transactions
BlockSize(block) ==
    FoldLeft(LAMBDA n, tx : n + SerializedSize(tx), HEADER_SIZE, block.transactions)

\* validate_block: height continuity, tx_count, coinbase placement and
\* recipient, the per-transaction loop, the state root and the size limit.
ValidBlock(block) ==
    LET txs == block.transactions
        w   == WorkingResult(block)
    IN  /\ block.header.height = Len(main_chain)
        /\ block.header.tx_count = Len(txs)
        /\ txs # <<>>
        /\ txs[1].tx_type = "coinbase"
        /\ FormatValid(txs[1], block.header.height)
        /\ txs[1].recipient = block.header.miner
        /\ \A i \in 2..Len(txs) : txs[i].tx_type # "coinbase"
        /\ w.ok
        /\ block.header.state_root = w.state
        /\ BlockSize(block) <= MAX_BLOCK_SIZE

-----------------------------------------------------------------------------
(* Blockchain (core/chain.py).                                            *)

\* Fault variant of ApplyStep: a confirmed post is added to known_posts but
\* post_authors[tx_h] = tx.author is forgotten.
ApplyStepAuthorUnrecorded(c, tx, miner, h) ==
    [index   |-> (tx :> h) @@ c.index,
     posts   |-> IF tx.tx_type = "post" THEN c.posts \cup {tx} ELSE c.posts,
     authors |-> c.authors,
     state   |-> ApplyTransaction(c.state, tx, miner, TargetAuthor(tx, c.authors))]

\* One iteration of the loop of _apply_block: index the transaction,
\* register a post, then apply it with the tip author from post_authors.
ApplyStep(c, tx, miner, h) ==
    LET authors == IF tx.tx_type = "post"
                   THEN (tx :> tx.author) @@ c.authors ELSE c.authors
    IN  [index   |-> (tx :> h) @@ c.index,
         posts   |-> IF tx.tx_type = "post" THEN c.posts \cup {tx} ELSE c.posts,
         authors |-> authors,
         state   |-> ApplyTransaction(c.state, tx, miner, TargetAuthor(tx, authors))]

\* Fault variant of ApplyBlock: the fees go to the miner read from the tip
\* before the new block is appended, i.e. the previous block's miner.
ApplyBlockPrevMiner(block) ==
    LET miner == IF main_chain = <<>> THEN block.header.miner
                 ELSE main_chain[Len(main_chain)].header.miner
        c == FoldLeft(LAMBDA acc, tx : ApplyStep(acc, tx, miner, block.header.height),
                      [index |-> tx_index, posts |-> known_posts,
                       authors |-> post_authors, state |-> state],
                      block.transactions)
    IN  /\ main_chain' = Append(main_chain, block)
        /\ tx_index' = c.index
        /\ known_posts' = c.posts
        /\ post_authors' = c.authors
        /\ state' = c.state

\* Blockchain._apply_block
ApplyBlock(block) ==
    LET c == FoldLeft(LAMBDA acc, tx : ApplyStep(acc, tx, block.header.miner,
                                                 block.header.height),
                      [index |-> tx_index, posts |-> known_posts,
                       authors |-> post_authors, state |-> state],
                      block.transactions)
    IN  /\ main_chain' = Append(main_chain, block)
        /\ tx_index' = c.index
        /\ known_posts' = c.posts
        /\ post_authors' = c.authors
        /\ state' = c.state

\* The transaction sequences a builder can append after the coinbase that
\* survive the loop of validate_block from working value w: a block that
\* fails validation raises and changes nothing, so only these matter.
RECURSIVE ValidSuffixes(_, _, _, _)
ValidSuffixes(w, miner, h, n) ==
    LET Step(t) == ValidateStep(w, t, miner, h, DOMAIN tx_index)
    IN  {<<>>} \cup
        IF n = 0 THEN {}
        ELSE UNION { { <<t>> \o rest : rest \in ValidSuffixes(Step(t), miner, h, n - 1) }
                     : t \in {u \in SignedTxs : Step(u).ok} }

\* The blocks a builder may hand to add_block: a correct coinbase for the
\* miner, then up to MaxBlockTxs signed transactions, with the header
\* claiming the state root the transactions lead to.
CandidateBlocks ==
    LET h  == Len(main_chain)
        w0 == [ok |-> TRUE, seen |-> {}, state |-> state,
               posts |-> known_posts, authors |-> post_authors]
        Build(m, s) ==
            LET txs == <<Coinbase(m, h)>> \o s
                hdr == [height |-> h, miner |-> m, tx_count |-> Len(txs),
                        state_root |-> state]
                w   == WorkingResult([header |-> hdr, transactions |-> txs])
            IN  [header |-> [hdr EXCEPT !.state_root = w.state],
                 transactions |-> txs]
    IN  UNION { { Build(m, s) :
                  s \in ValidSuffixes(ValidateStep(w0, Coinbase(m, h), m, h,
                                                   DOMAIN tx_index),
                                      m, h, MaxBlockTxs) }
                : m \in Miners }

Init ==
    /\ main_chain = <<>>
    /\ state = [pk \in {} |-> Zero]
    /\ tx_index = [tx \in {} |-> 0]
    /\ known_posts = {}
    /\ post_authors = [p \in {} |-> NoAccount]

\* Blockchain.initialize_genesis: a lone coinbase at height 0, applied
\* without validation; raises if the chain already has a block.
InitializeGenesis(m) ==
    LET cb  == Coinbase(m, 0)
        hdr == [height |-> 0, miner |-> m, tx_count |-> 1,
                state_root |-> ApplyTransaction(state, cb, m, NoAccount)]
    IN  /\ main_chain = <<>>
        /\ ApplyBlock([header |-> hdr, transactions |-> <<cb>>])

\* Blockchain.add_block: validate_block, then _apply_block.  A block that
\* fails validation raises and leaves every variable as it was.
AddBlock(block) ==
    /\ Len(main_chain) <= MaxHeight
    /\ ValidBlock(block)
    /\ ApplyBlock(block)

Next ==
    \/ \E m \in Miners : InitializeGenesis(m)
    \/ \E b \in CandidateBlocks : AddBlock(b)

Spec == Init /\ [][Next]_vars

-----------------------------------------------------------------------------
(* Properties.                                                            *)

\* an account map: existing accounts to Account records
IsAccountMap(st) ==
    /\ DOMAIN st \subseteq Accounts
    /\ \A pk \in DOMAIN st : st[pk] \in [balance : Int, nonce : Nat]

TypeOK ==
    /\ \A k \in DOMAIN main_chain :
         LET b == main_chain[k] IN
         /\ b.header.height = k - 1
         /\ b.header.miner \in Miners
         /\ IsAccountMap(b.header.state_root)
         /\ b.transactions \in Seq(SignedTxs \cup
                 {Coinbase(m, h) : m \in Miners, h \in 0..MaxHeight})
    /\ IsAccountMap(state)
    /\ DOMAIN tx_index \subseteq SignedTxs \cup
         {Coinbase(m, h) : m \in Miners, h \in 0..MaxHeight}
    /\ known_posts \subseteq TopPosts \cup Replies
    /\ DOMAIN post_authors = known_posts

Positions ==
    { <<k, i>> \in (1..Len(main_chain)) \X (1..MaxBlockTxs + 1) :
        i <= Len(main_chain[k].transactions) }

TxAt(p) == main_chain[p[1]].transactions[p[2]]

Before(p, q) == p[1] < q[1] \/ (p[1] = q[1] /\ p[2] < q[2])

\* The post a reply or an endorsement refers to, if any.
Ref(tx) ==
    CASE tx.tx_type = "post"    -> tx.reply_to
      [] tx.tx_type = "endorse" -> tx.target
      [] OTHER                  -> NoPost

(* Supply conservation (spec section 8): the balances of all accounts sum *)
(* to the coinbase rewards of the blocks on the main chain.  Gas fees go  *)
(* to the miner and endorsement tips to the post author that              *)
(* _apply_block resolves through post_authors, so a tip debited from the  *)
(* endorser but credited to nobody, or credited without a debit, breaks   *)
(* it.                                                                     *)
SupplyConservation ==
    MapThenSumSet(LAMBDA pk : state[pk].balance, DOMAIN state)
      = MapThenSumSet(LAMBDA k : main_chain[k].transactions[1].amount,
                      DOMAIN main_chain)

(* The state _apply_block produces on the real chain is the state root    *)
(* validate_block computed on its working copy and checked against the   *)
(* header: the two loops (different code, different author maps) agree.  *)
TipStateRootMatches ==
    main_chain # <<>> => main_chain[Len(main_chain)].header.state_root = state

(* Replay protection: every account's nonce is the number of confirmed    *)
(* signed transactions it signed, and every signer of a confirmed         *)
(* transaction has an account.                                            *)
NonceCountsConfirmed ==
    /\ \A p \in Positions :
         TxAt(p).tx_type # "coinbase" => Signer(TxAt(p)) \in DOMAIN state
    /\ \A pk \in DOMAIN state :
         state[pk].nonce =
           Cardinality({p \in Positions : /\ TxAt(p).tx_type # "coinbase"
                                          /\ Signer(TxAt(p)) = pk})

(* A confirmed reply or endorsement refers to a post confirmed strictly   *)
(* before it: in an earlier block or earlier in the same block (the       *)
(* working_posts set of validate_block).                                  *)
ReferencesPrecede ==
    \A p \in Positions :
        Ref(TxAt(p)) # NoPost =>
            \E q \in Positions : Before(q, p) /\ TxAt(q) = Ref(TxAt(p))

(* No account balance ever goes negative (spec section 3), whatever the  *)
(* order of dependent transactions inside a block and whoever mines it.  *)
BalancesNonNegative ==
    \A pk \in DOMAIN state : state[pk].balance >= 0

-----------------------------------------------------------------------------
(* Refinement of AbstractChain.                                           *)

\* The main chain as a log of batches: each block's miner and transactions.
ChainLog ==
    [k \in DOMAIN main_chain |-> [miner |-> main_chain[k].header.miner,
                                  txs   |-> main_chain[k].transactions]]

AC == INSTANCE AbstractChain WITH log <- ChainLog, Reward <- BlockReward

(* Blockchain implements AbstractChain: every block initialize_genesis or *)
(* add_block appends is a batch that is valid against a replay of the    *)
(* whole chain before it.  add_block decides with its caches instead      *)
(* (WorldState, tx_index, known_posts, post_authors, all updated by       *)
(* _apply_block), so a cache that drifts from the chain lets through a    *)
(* block the replay rejects: a spend of a credit never made, a reused     *)
(* nonce, a duplicate, or a reply to a post never confirmed.              *)
ImplementsAbstractChain == AC!Spec

=============================================================================
