CONSTANTS
  x1 = x1 x2 = x2 x3 = x3
  Ctx = {x1, x2, x3}
  Queue = {"sem"}
  NCpu = 3
  InitCount = 0
  CountBits = 8
  Takes = {1}
  Gives = {1}
  MinAvail = 0
  MaxAvail = 9
  Event = {x1, x2, x3}
  NoEvent = NoEvent
  Delays = {0, 1, 2}
  TickBits = 4
  MaxNow = 4
  Timeout = {0, 2}
  MaxRecv = 3
  MaxSignals = 2
  PageCount = 4
  MaxRefs = 2
  RegionSize = 7
  ExtraSize = 4
  AllocSizes = {0, 1, 2, 4}
  MaxMoving = 1
SPECIFICATION Spec
INVARIANTS TimerInv RecvInv PageInv 
PROPERTIES OnTime
CHECK_DEADLOCK FALSE
