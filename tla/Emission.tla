------------------------------ MODULE Emission ------------------------------
(* The emission over the life of a chain: blocks of any weight the rules    *)
(* allow are mined one after the other, each paid by get_block_reward from  *)
(* the coins generated before it.                                           *)
EXTENDS BlockReward

CONSTANTS Medians,     \* median weights that occur
          Weights      \* weights of blocks

(* The coins of k eras that pay every block in full. *)
eras[k \in Turns] == IF k = 0 THEN 0 ELSE eras[k - 1] + period_reward[k - 1] * HALVING_INTERVAL

(* "somme exacte 17,999,999.99999418 HRG" (whitepaper_v1.4.md:99): the sum   *)
(* over the eras, each reward rounded down.                                  *)
Total == eras[INITIAL_REWARD + 1]

ASSUME EmissionAssumption ==
  /\ Medians \subseteq Nat /\ Weights \subseteq Nat
  /\ HALVING_INTERVAL >= 2 /\ Total <= MONEY_SUPPLY

VARIABLE coins         \* already_generated_coins of the tip

mine(m, w) ==
  LET r == get_block_reward(m, w, coins)
  IN r.ok /\ coins' = add_coins(coins, r.reward)

(* A block within the full reward zone. *)
light == \E m \in Medians, w \in Weights : w <= FULL_REWARD_ZONE /\ mine(m, w)

EmissionInit == coins = 0
EmissionNext == \E m \in Medians, w \in Weights : mine(m, w)

(* Blocks go on being mined, and not all of them are heavy. *)
EmissionSpec == EmissionInit /\ [][EmissionNext]_coins /\ WF_coins(light)
-----------------------------------------------------------------------------
(* The coins never exceed the sum of the eras, which is below the cap,       *)
(* although an era ends by the coins generated and a penalty shifts its end  *)
(* to the middle of a reward: what a block takes beyond its era is missing   *)
(* from the next ones.                                                       *)
NeverAboveTotal == coins <= Total

(* The emission ends, and exactly at the total, whatever penalties were paid *)
(* on the way.                                                               *)
EmissionCompletes == <>[](coins = Total)
=============================================================================
