CONSTANTS
  x1 = x1 x2 = x2 x3 = x3 x4 = x4
  None = None
  Ctx = {x1, x2, x3}
  Queue = {"mutex"}
  NCpu = 3
  Types = {"errorcheck"}
  TryTypes = {"errorcheck"}
  Relock = {}
  MaxDepth = 2
SPECIFICATION MXSpec
INVARIANT FreeAfterUnlock
