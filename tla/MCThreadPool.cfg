CONSTANTS
  w = w
  c1 = c1
  c2 = c2
  r = r
  a = a
  b = b
  x = x
  y = y
  s = s
  d = d
  z = z
  r2 = r2
  e = e
  NoJob = NoJob
  Worker = {w}
  Client = {c1, c2}
  Job <- MCJob
  Children <- MCChildren
  Program <- MCProgram
  Leaf = {x, y, z}
  MayThrow = {b, x}
SPECIFICATION Spec
INVARIANTS NoJobOutlivesBody WaitTellsErrors
PROPERTY ClientsFinish
