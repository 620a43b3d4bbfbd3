CONSTANTS
  x1 = x1 x2 = x2 x3 = x3 x4 = x4
  NoHolder = NoHolder
  Ctx = {x1, x2, x3}
  Queue = {"wait_rd", "wait_wr"}
  NCpu = 3
SPECIFICATION TrySpec
INVARIANT WriterAlone
