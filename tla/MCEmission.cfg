\* Six eras of 21 blocks.
CONSTANTS
  Medians = {10, 13}
  Weights <- MCWeights
  FULL_REWARD_ZONE = 10
  LONG_TERM_WINDOW = 3
  REWARD_WINDOW = 2
  SURGE_FACTOR = 2
  MONEY_SUPPLY = 1800
  HALVING_INTERVAL = 21
  INITIAL_REWARD = 43
  UINT64 = 1845
SPECIFICATION EmissionSpec
INVARIANTS NeverAboveTotal
PROPERTY EmissionCompletes
