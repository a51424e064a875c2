---------------------------- MODULE BlockWeight ----------------------------
(* The dynamic block weight limit (blockchain.cpp): medians over a short    *)
(* and a long window of blocks, from the version of the first mined block.  *)
EXTENDS Median

CONSTANTS FULL_REWARD_ZONE,     \* CRYPTONOTE_BLOCK_GRANTED_FULL_REWARD_ZONE_V5
          LONG_TERM_WINDOW,     \* m_long_term_block_weights_window
          REWARD_WINDOW,        \* CRYPTONOTE_REWARD_BLOCKS_WINDOW
          SURGE_FACTOR          \* CRYPTONOTE_SHORT_TERM_BLOCK_WEIGHT_SURGE_FACTOR

ASSUME WeightAssumption ==
  {FULL_REWARD_ZONE, LONG_TERM_WINDOW, REWARD_WINDOW, SURGE_FACTOR} \subseteq Nat \ {0}

largest(a, b) == IF a < b THEN b ELSE a
least(a, b) == IF a < b THEN a ELSE b

long_term_effective_median(long_term_median) == largest(FULL_REWARD_ZONE, long_term_median)

(* A block's weight within a factor of 1.7 of the long term median. *)
get_next_long_term_block_weight(weight, long_term_median) ==
  LET e == long_term_effective_median(long_term_median)
  IN least(largest(weight, (e * 10) \div 17), e + (e * 7) \div 10)

(* m_current_block_cumul_weight_median, from the weights of all blocks. *)
effective_median(weights, long_term_median) ==
  LET e == long_term_effective_median(long_term_median)
      short_term_median == median(youngest(weights, REWARD_WINDOW))
  IN largest(least(largest(e, short_term_median), SURGE_FACTOR * e), FULL_REWARD_ZONE)
=============================================================================
