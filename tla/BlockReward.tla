---------------------------- MODULE BlockReward ----------------------------
(* The emission: get_block_reward (cryptonote_basic_impl.cpp) with halvings *)
(* counted from the coins already generated, a cap and a weight penalty.    *)
EXTENDS BlockWeight

CONSTANTS MONEY_SUPPLY,       \* the cap, in atomic units
          HALVING_INTERVAL,   \* blocks of full reward in an era
          INITIAL_REWARD,     \* reward of the first era
          UINT64              \* number of values of the type of amounts

ASSUME RewardAssumption ==
  /\ MONEY_SUPPLY \in Nat /\ HALVING_INTERVAL \in Nat \ {0}
  /\ INITIAL_REWARD \in Nat \ {0}
  /\ UINT64 \in Nat /\ MONEY_SUPPLY + INITIAL_REWARD < UINT64
  /\ INITIAL_REWARD * HALVING_INTERVAL < UINT64

(* Unsigned arithmetic wraps around. *)
wrap(n) == n % UINT64

(* The turns of the loop: a reward that is halved at every turn is used up   *)
(* by then.                                                                  *)
Turns == 0..(INITIAL_REWARD + 1)

(* period_reward after k turns, which is also INITIAL_REWARD >> k. *)
period_reward[k \in Turns] == IF k = 0 THEN INITIAL_REWARD ELSE period_reward[k - 1] \div 2

(* coins_counted after k turns. *)
coins_counted[k \in Turns] ==
  IF k = 0 THEN 0
  ELSE wrap(coins_counted[k - 1] + wrap(period_reward[k - 1] * HALVING_INTERVAL))

(* The loop stops after k turns: the era pays nothing or is not over yet. *)
stops(k, coins) == period_reward[k] = 0 \/ coins_counted[k + 1] > coins

(* Mutant: every era is taken to be as large as the first. *)
halvings_by_division(coins) == coins \div (INITIAL_REWARD * HALVING_INTERVAL)

halvings(coins) ==
  CHOOSE k \in 0..INITIAL_REWARD : stops(k, coins) /\ \A j \in 0..(k - 1) : ~stops(j, coins)

(* What a block of moderate weight mints. *)
base_reward(coins) ==
  LET full == period_reward[halvings(coins)]
  IN IF coins >= MONEY_SUPPLY THEN 0
     ELSE IF wrap(coins + full) > MONEY_SUPPLY THEN MONEY_SUPPLY - coins
     ELSE full

(* The reward shrinks with the square of the excess over the median m; the   *)
(* product has 128 bits.                                                     *)
penalized(base, m, weight) == ((base * ((2 * m - weight) * weight)) \div m) \div m

(* get_block_reward: ok is its result, reward what it leaves in its argument. *)
get_block_reward(median_weight, weight, coins) ==
  LET base == base_reward(coins)
      m == largest(median_weight, FULL_REWARD_ZONE)
  IN IF base = 0 THEN [ok |-> TRUE, reward |-> 0]
     ELSE IF weight <= m THEN [ok |-> TRUE, reward |-> base]
     ELSE IF weight > 2 * m THEN [ok |-> FALSE, reward |-> 0]
     ELSE [ok |-> TRUE, reward |-> penalized(base, m, weight)]

(* Mutant: the last coin is never counted. *)
add_coins_short(coins, reward) == IF reward < 2 THEN coins ELSE coins + reward

(* already_generated_coins after a block that minted reward. *)
add_coins(coins, reward) ==
  IF reward < MONEY_SUPPLY - coins THEN coins + reward ELSE MONEY_SUPPLY
=============================================================================
