CONSTANTS
  x1 = x1 x2 = x2 x3 = x3 x4 = x4
  None = None
  NoHolder = NoHolder
  Ctx = {x1, x2, x3, x4}
  Queue = {"sem", "wait_rd", "wait_wr", "mutex", "cond", "barrier"}
  NCpu = 4
  InitCount = 0
  CountBits = 8
  Takes = {1, 2}
  Gives <- MCGives
  MinAvail <- MCMin
  MaxAvail = 4
  Types = {"normal", "errorcheck", "recursive"}
  TryTypes = {"normal"}
  Relock = {"errorcheck", "recursive"}
  MaxDepth = 3
  Consumer = {x1, x2}
  Puts = 2
  BarCounts = {1, 2, 3, 4}
  MaxPass = 2
SPECIFICATION Spec
INVARIANTS SemInv RWInv MXInv CDInv BarInv
PROPERTIES WriterEnters LockReturns ItemsDrained NoneStuck
