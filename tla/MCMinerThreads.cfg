CONSTANTS
  Rpc = {r1}
  Zmq = {}
  Core = {core}
  Idle = Idle
  NoOne = NoOne
  Worker = {w1, w2}
  Controller = {k1}
  Address = {a1}
  Usages <- MCUsages
  MaxThreads = 2
SPECIFICATION FairSpec
PROPERTIES StopEnds AutodetectEnds
