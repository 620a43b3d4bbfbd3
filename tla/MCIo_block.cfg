CONSTANTS
  x1 = x1 x2 = x2
  Caller = {x1, x2}
  Irq = Irq
  Sizes = {1, 2}
  FifoSize = 2
  MaxCalls = 2
  BCaller = {x1, x2}
  Counts = {1, 2}
  BlkCount = 2
  BMaxCalls = 2
  Packet = {x1, x2}
SPECIFICATION Spec
INVARIANT QueuedTillEnd
