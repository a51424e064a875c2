CONSTANTS
  g = g
  a1 = a1
  b1 = b1
  b2 = b2
  b3 = b3
  t1 = t1
  u1 = u1
  k1 = k1
  NoBlock = NoBlock
  Genesis = g
  Tx = {t1, u1}
  KeyImage = {k1}
  Block <- MCBlock
  Prev <- MCPrev
  Chain <- MCChain
  Height <- MCHeight
  CumDiff <- MCCumDiff
  TxsOf <- MCTxsOf
  Needs <- MCNeeds
  Images <- MCImages
  Weight <- MCWeight
  Rank <- MCRank
  GoodMiner <- MCBlock
  Checkpoint = {b3}
  Arrivals = {"local", "stem", "fluff"}
  MaxWeight = 2
  Livetime = 0
  AltLivetime = 1
  MaxAge = 2
  MaxBatch = 2
  PopCommand = TRUE
  DbErrors = TRUE
  MaxDrift = 1
SPECIFICATION SpecWithThrows
INVARIANT RestartPossible
