------------------------------- MODULE Header -------------------------------
(***************************************************************************)
(* The header rules of one jiji node's chain: the timestamp, difficulty    *)
(* and proof-of-work checks of validate_block, compute_expected_difficulty *)
(* (src/jiji/core/validation.py), and the header that                     *)
(* create_block_template puts on the miner's own blocks                   *)
(* (src/jiji/mining/miner.py), against a clock that only advances.        *)
(*                                                                         *)
(* A block is its header fields [timestamp, difficulty]; the chain is     *)
(* main_chain, genesis first.  Transactions are the subject of Ledger:    *)
(* here every block is taken to pass the transaction checks.  A peer's    *)
(* block is any header at tip+1 (handle_new_block ignores other heights); *)
(* its hash is any integer up to MAX_TARGET.  SHA-256 is 256 bits wide,   *)
(* so MAX_TARGET scales 2^256 - 1 down.                                   *)
(*                                                                         *)
(* statistics.median of an even count is the mean of the middle two, a    *)
(* float with a half; medians are kept doubled so that they stay integer. *)
(* compute_expected_difficulty's float ratio is the exact rational here. *)
(***************************************************************************)
EXTENDS Integers, Sequences, TLC

CONSTANTS
    MEDIAN_TIME_BLOCK_COUNT,
    MAX_FUTURE_TIMESTAMP,
    DIFFICULTY_ADJUSTMENT_WINDOW,
    BLOCK_TIME_TARGET,
    MAX_DIFFICULTY_ADJUSTMENT,   \* 4.0 in config.py; an integer here
    GENESIS_DIFFICULTY,
    MAX_TARGET,
    GenesisTime,      \* initialize_genesis's timestamp
    MaxHeight,        \* no block above this height
    MaxTime,          \* the clock stops here
    NONE

ASSUME MEDIAN_TIME_BLOCK_COUNT % 2 = 1 /\ DIFFICULTY_ADJUSTMENT_WINDOW >= 1

VARIABLES
    chain,      \* main_chain: a sequence of [timestamp, difficulty]
    now,        \* int(time.time()) of this node
    template    \* the block _mining_loop is grinding, or NONE

vars == <<chain, now, template>>

\* A block's timestamps may lie on either side of the clock.
Times == 0..(MaxTime + MAX_FUTURE_TIMESTAMP + 1)

-----------------------------------------------------------------------------
(* Timestamps.                                                            *)

\* Blockchain.get_recent_timestamps(count): the last count blocks' stamps.
RecentTimestamps(c, count) ==
    LET start == IF Len(c) > count THEN Len(c) - count + 1 ELSE 1
    IN  [i \in 1..(Len(c) - start + 1) |-> c[start + i - 1].timestamp]

\* 2 * statistics.median(s), for a nonempty s.
Median2(s) ==
    LET t == SortSeq(s, LAMBDA x, y : x < y)
        n == Len(t)
    IN  IF n % 2 = 1 THEN 2 * t[(n + 1) \div 2]
        ELSE t[n \div 2] + t[n \div 2 + 1]

\* The median of the recent timestamps, doubled (validate_block's bar).
MedianTimePast2(c) == Median2(RecentTimestamps(c, MEDIAN_TIME_BLOCK_COUNT))

\* Fault variant of AboveMedian: the check made only from height 1 on.
AboveMedianFromHeightOne(c, ts) ==
    Len(c) - 1 > 0 => 2 * ts > MedianTimePast2(c)

\* validate_block: if chain.height >= 0, the timestamp must be above the
\* median of the recent blocks.
AboveMedian(c, ts) ==
    Len(c) - 1 >= 0 => 2 * ts > MedianTimePast2(c)

\* Fault variant of TemplateTimestamp: int(median) without the + 1.
TemplateTimestampAtMedian(c, t) ==
    LET m == MedianTimePast2(c) \div 2
    IN  IF c = <<>> THEN t ELSE IF t > m THEN t ELSE m

\* create_block_template: the clock, raised to int(median) + 1 if that is
\* greater (int truncates the half of an even count's median).
TemplateTimestamp(c, t) ==
    LET m == MedianTimePast2(c) \div 2 + 1
    IN  IF c = <<>> THEN t ELSE IF t > m THEN t ELSE m

-----------------------------------------------------------------------------
(* Difficulty.                                                            *)

\* int(d * ratio), the ratio expected / actual clamped to
\* [1 / MAX_DIFFICULTY_ADJUSTMENT, MAX_DIFFICULTY_ADJUSTMENT].
Retarget(d, expected, actual) ==
    CASE expected >= MAX_DIFFICULTY_ADJUSTMENT * actual -> d * MAX_DIFFICULTY_ADJUSTMENT
      [] MAX_DIFFICULTY_ADJUSTMENT * expected <= actual -> d \div MAX_DIFFICULTY_ADJUSTMENT
      [] OTHER -> (d * expected) \div actual

\* compute_expected_difficulty(chain, chain.height + 1): genesis difficulty
\* at height 0; the previous block's off a window boundary; at a boundary
\* the previous difficulty retargeted by the time from block
\* height - WINDOW to block height - 1, at least 1, and floored at 1.
ExpectedDifficulty(c) ==
    LET h == Len(c)
    IN  IF h = 0 THEN GENESIS_DIFFICULTY
        ELSE IF h % DIFFICULTY_ADJUSTMENT_WINDOW # 0 THEN c[h].difficulty
        ELSE LET span == c[h].timestamp - c[h - DIFFICULTY_ADJUSTMENT_WINDOW + 1].timestamp
                 actual == IF span <= 0 THEN 1 ELSE span
                 d == Retarget(c[h].difficulty, DIFFICULTY_ADJUSTMENT_WINDOW * BLOCK_TIME_TARGET,
                               actual)
             IN  IF d < 1 THEN 1 ELSE d

\* Block.meets_difficulty: the hash is at most MAX_TARGET // difficulty.
\* A difficulty of 0 raises ZeroDivisionError, which handle_new_block's
\* caller and _mining_loop catch: the block is not added.
MeetsDifficulty(hash, difficulty) ==
    difficulty # 0 /\ hash <= MAX_TARGET \div difficulty

-----------------------------------------------------------------------------
(* validate_block's header checks, for a block at tip+1 on chain c,       *)
(* judged at clock t, in the order the code makes them.                   *)

ValidHeader(c, ts, difficulty, hash, t) ==
    /\ AboveMedian(c, ts)
    /\ ts <= t + MAX_FUTURE_TIMESTAMP
    /\ difficulty = ExpectedDifficulty(c)
    /\ MeetsDifficulty(hash, difficulty)

Block(ts, difficulty) == [timestamp |-> ts, difficulty |-> difficulty]

-----------------------------------------------------------------------------
(* Actions.                                                               *)

\* initialize_genesis: one block at GenesisTime and GENESIS_DIFFICULTY,
\* mined trivially.
Init ==
    /\ chain = <<Block(GenesisTime, GENESIS_DIFFICULTY)>>
    /\ now = GenesisTime
    /\ template = NONE

\* The clock advances one second.
Tick ==
    /\ now < MaxTime
    /\ now' = now + 1
    /\ UNCHANGED <<chain, template>>

\* _mining_loop starts an iteration: create_block_template for tip+1.
CreateBlockTemplate ==
    /\ template = NONE
    /\ Len(chain) <= MaxHeight
    /\ template' = [height     |-> Len(chain),
                    timestamp  |-> TemplateTimestamp(chain, now),
                    difficulty |-> ExpectedDifficulty(chain)]
    /\ UNCHANGED <<chain, now>>

\* _async_mine returns the solved block (mine_block grinds the nonce until
\* the hash meets the target: the greatest such hash stands for it).  If
\* the chain advanced meanwhile it is dropped; else add_block validates it
\* at the clock of now, and a ValidationError is logged and dropped.
MineBlock ==
    /\ template # NONE
    /\ template' = NONE
    /\ IF /\ template.height = Len(chain)
          /\ ValidHeader(chain, template.timestamp, template.difficulty,
                         MAX_TARGET \div template.difficulty, now)
       THEN chain' = Append(chain, Block(template.timestamp, template.difficulty))
       ELSE UNCHANGED chain
    /\ UNCHANGED now

\* handle_new_block: a peer's block at tip+1 that validate_block accepts
\* is appended.  One it rejects changes nothing.
AddPeerBlock ==
    /\ Len(chain) <= MaxHeight
    /\ \E ts \in Times, hash \in 0..MAX_TARGET :
          LET difficulty == ExpectedDifficulty(chain)
          IN  /\ ValidHeader(chain, ts, difficulty, hash, now)
              /\ chain' = Append(chain, Block(ts, difficulty))
    /\ UNCHANGED <<now, template>>

Next == Tick \/ CreateBlockTemplate \/ MineBlock \/ AddPeerBlock

Spec == Init /\ [][Next]_vars

-----------------------------------------------------------------------------
(* Properties.                                                            *)

\* The median time past never goes back: every block validate_block
\* accepts is above the median of the last MEDIAN_TIME_BLOCK_COUNT, so
\* dropping the oldest of an odd window and adding the new one cannot
\* lower its median.  Genesis counts too (chain.height >= 0).
MedianTimeNonDecreasing ==
    [][Len(chain') > Len(chain) => MedianTimePast2(chain') >= MedianTimePast2(chain)]_chain

\* The miner's template, while it is still for tip+1, has a timestamp
\* above the median that validate_block will compare it with, however
\* the clock stands: int() of a median with a half, plus one, is above it.
TemplateAboveMedian ==
    template # NONE /\ template.height = Len(chain)
        => 2 * template.timestamp > MedianTimePast2(chain)

====
