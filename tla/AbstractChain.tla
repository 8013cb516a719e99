--------------------------- MODULE AbstractChain ---------------------------
(***************************************************************************)
(* What a jiji Blockchain promises, stated without its caches: the chain   *)
(* is an append-only log of batches, and a batch may be appended only if   *)
(* each of its transactions is valid against the balances and nonces got  *)
(* by replaying the whole log before it (spec sections 3, 4.4 and 4.6).   *)
(*                                                                         *)
(* A batch is [miner, txs]: the block's miner and its transactions, the   *)
(* coinbase first.  There is no world state, no tx index and no set of    *)
(* known posts: each is a function of the log.                            *)
(***************************************************************************)
EXTENDS Integers, Sequences, SequencesExt, FiniteSetsExt

CONSTANTS
    Reward(_),        \* block reward at a height
    MINIMUM_GAS_FEE,
    NoPost            \* reply_to of a top-level post

VARIABLE log          \* the batches appended so far, genesis first

\* The transactions of a log, each with the miner of its batch, in order.
Entries(L) ==
    FoldLeft(LAMBDA es, bt : es \o [i \in DOMAIN bt.txs |-> [tx |-> bt.txs[i], miner |-> bt.miner]],
             <<>>, L)

Signed(tx) == tx.tx_type # "coinbase"

SignerOf(tx) == IF tx.tx_type = "transfer" THEN tx.sender ELSE tx.author

\* What a signed transaction takes from its signer.
Cost(tx) ==
    CASE tx.tx_type = "post"     -> tx.gas_fee
      [] tx.tx_type = "endorse"  -> tx.gas_fee + tx.amount
      [] tx.tx_type = "transfer" -> tx.gas_fee + tx.amount

\* The change one entry makes to the balance of pk (spec 4.4): rewards to
\* the recipient, fees to the batch's miner, amounts to the recipient of a
\* transfer or the author of the endorsed post.
Delta(pk, e) ==
    LET tx == e.tx
    IN  IF ~Signed(tx) THEN IF tx.recipient = pk THEN tx.amount ELSE 0
        ELSE   (IF e.miner = pk THEN tx.gas_fee ELSE 0)
             - (IF SignerOf(tx) = pk THEN Cost(tx) ELSE 0)
             + (IF tx.tx_type = "transfer" /\ tx.recipient = pk THEN tx.amount ELSE 0)
             + (IF tx.tx_type = "endorse" /\ tx.target.author = pk THEN tx.amount ELSE 0)

Balance(es, pk) == FoldLeft(LAMBDA n, e : n + Delta(pk, e), 0, es)

Nonce(es, pk) ==
    Cardinality({i \in DOMAIN es : Signed(es[i].tx) /\ SignerOf(es[i].tx) = pk})

Confirmed(es) == {es[i].tx : i \in DOMAIN es}

\* The post a reply or an endorsement refers to, if any.
RefOf(tx) ==
    CASE tx.tx_type = "post"    -> tx.reply_to
      [] tx.tx_type = "endorse" -> tx.target
      [] OTHER                  -> NoPost

\* A signed transaction may follow the entries es: new, well formed, with
\* the signer's next nonce and enough balance, referring only to a post
\* that es confirms.
Follows(es, tx) ==
    /\ Signed(tx)
    /\ tx \notin Confirmed(es)
    /\ tx.gas_fee >= MINIMUM_GAS_FEE
    /\ tx.tx_type = "transfer" => tx.sender # tx.recipient /\ tx.amount > 0
    /\ tx.nonce = Nonce(es, SignerOf(tx))
    /\ Balance(es, SignerOf(tx)) >= Cost(tx)
    /\ RefOf(tx) = NoPost \/ RefOf(tx) \in Confirmed(es)

\* A batch may extend the log: its first transaction, and only that one,
\* is the coinbase paying the height's reward to the miner, and every
\* other one follows the log and the transactions before it in the batch.
ValidBatch(L, bt) ==
    LET h  == Len(L)
        es == Entries(L)
        n  == Len(bt.txs)
    IN  /\ n >= 1
        /\ bt.txs[1] = [tx_type |-> "coinbase", recipient |-> bt.miner,
                        amount |-> Reward(h), height |-> h]
        /\ \A i \in 2..n :
              Follows(es \o [j \in 1..(i - 1) |-> [tx |-> bt.txs[j], miner |-> bt.miner]],
                      bt.txs[i])

Init == log = <<>>

AppendBatch(bt) ==
    /\ ValidBatch(log, bt)
    /\ log' = Append(log, bt)

\* Some batch is appended: \E bt : AppendBatch(bt), where the only batch
\* that can be is the last one of log', so TLC need not enumerate batches.
Next == log' # <<>> /\ AppendBatch(Last(log'))

Spec == Init /\ [][Next]_log

====
