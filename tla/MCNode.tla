------------------------------- MODULE MCNode -------------------------------
(* Model-checking instance of Node: two keys, this node being a1.         *)
EXTENDS Node

CONSTANTS a1, a2, b1, b2

MCAccounts == {a1, a2}
MCBodies == {b1}
MCWideBodies == {b1, b2}

\* Sizes in abstract units, proportional to the canonical JSON bytes
\* (validation.py): a coinbase is 1, a post 4, an endorsement or transfer 3,
\* the header 2.  MCNode.cfg takes _estimate_block_size to be exact.  In the
\* code it is not: its 200 for the header is about 230 bytes short, and
\* str() of a transaction's dict is about a dozen characters longer than its
\* JSON.  For text that JSON neither escapes nor encodes in several bytes, the
\* estimate therefore passes the real size long before a block nears
\* MAX_BLOCK_SIZE, and only the size check's outcome matters here.
\* MCNodeSize.cfg takes the other case.
MCSerializedSize(tx) ==
    CASE tx.tx_type = "coinbase" -> 1
      [] tx.tx_type = "post"     -> 4
      [] OTHER                   -> 3

MCEstimatedSize(tx) == MCSerializedSize(tx)

\* Body b2 is text outside ASCII: str() of the dict keeps each character as
\* one, while the UTF-8 encoding validate_block measures takes up to four
\* bytes for it, so its real size is well above the estimate.
MCWideSerializedSize(tx) ==
    IF tx.tx_type = "post" /\ tx.body = b2 THEN 9 ELSE MCSerializedSize(tx)

====
