\* A median over the last 3 blocks (11 in config.py, odd as there), a
\* retarget every 2 blocks at a target of 1 s per block, clamped at 4x,
\* blocks up to 2 s ahead of the clock, a 2-bit hash.  Genesis is at 1 s,
\* so a block can be stamped before it; the clock runs to 5 s.
CONSTANTS
    MEDIAN_TIME_BLOCK_COUNT = 3
    MAX_FUTURE_TIMESTAMP = 2
    DIFFICULTY_ADJUSTMENT_WINDOW = 2
    BLOCK_TIME_TARGET = 1
    MAX_DIFFICULTY_ADJUSTMENT = 4
    GENESIS_DIFFICULTY = 1
    MAX_TARGET = 3
    GenesisTime = 1
    MaxHeight = 6
    MaxTime = 7
    NONE = NONE
\* Once the clock and the chain are at their bounds nothing is enabled.
CHECK_DEADLOCK FALSE
SPECIFICATION Spec
INVARIANTS TemplateAboveMedian
PROPERTY MedianTimeNonDecreasing
