\* Reorganisations over a fork height with rollbacks, pops, upgrades, another
\* thread that asks for the difficulty, and a database that throws once.
CONSTANTS
  Genesis <- MCGenesis
  Tables <- TwoReleases
  Versions = {1, 2, 3}
  Block <- MCBlocks
  MaxHeight = 3
  MaxPop = 2
  MaxFaults = 1
  FULL_REWARD_ZONE = 2
  LONG_TERM_WINDOW = 3
  REWARD_WINDOW = 2
  SURGE_FACTOR = 2
  MONEY_SUPPLY = 60
  HALVING_INTERVAL = 2
  INITIAL_REWARD = 16
  UINT64 = 128
  DIFFICULTY_WINDOW = 2
  DIFFICULTY_LAG = 0
  DIFFICULTY_CUT = 0
  DIFFICULTY_TARGET = 2
  VOTE_WINDOW = 2
SPECIFICATION Spec
INVARIANTS ChainExact VerdictRight LimitsFresh ForkMatchesHeight RollbackRestores SwitchedIsHeavier
