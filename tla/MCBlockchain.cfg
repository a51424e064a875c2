CONSTANTS
  g = g
  a1 = a1
  a2 = a2
  a3 = a3
  b1 = b1
  b2 = b2
  c2 = c2
  d2 = d2
  t1 = t1
  t2 = t2
  u1 = u1
  v = v
  k1 = k1
  k2 = k2
  k3 = k3
  NoBlock = NoBlock
  Genesis = g
  Tx = {t1, t2, u1, v}
  KeyImage = {k1, k2, k3}
  Block <- MCBlock
  Prev <- MCPrev
  Chain <- MCChain
  Height <- MCHeight
  CumDiff <- MCCumDiff
  TxsOf <- MCTxsOf
  Needs <- MCNeeds
  Images <- MCImages
  Weight <- MCWeight
  Rank <- MCRank
  GoodMiner <- MCGoodMiner
  Checkpoint = {}
  Arrivals = {"stem", "fluff"}
  MaxWeight = 2
  Livetime = 1
  AltLivetime = 2
  MaxAge = 0
  MaxBatch = 2
  PopCommand = FALSE
  DbErrors = FALSE
  MaxDrift = 4
SPECIFICATION Spec
INVARIANTS KeyImageIndexExact WeightExact RestartPossible NoDoubleSpend FailedVerdictRight CachedTemplateMinable AltOffChain OnHeaviestChain
PROPERTIES SwitchAllOrNothing ReorgKeepsTxs
