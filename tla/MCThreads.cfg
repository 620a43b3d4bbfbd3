CONSTANTS
  t1 = t1 t2 = t2 t3 = t3 t4 = t4
  NoThread = NoThread NoKThread = NoThread NoTask = NoThread
  Thread = {t1, t2, t3}
  Main = t1
  KThread = {t1, t2, t3}
  KMain = t1
  KeysMax = 2
  Iterations = 2
  Reader = {t1, t2}
  Writer = {t3, t4}
  LfDepth = 3
  LfLen = 4
  LkReader = {t1, t2}
  LkWriter = {t3, t4}
  LkDepth = 3
  LkLen = 4
  Runner = {t1, t2}
  MaxJob = 3
  MaxGroup = 2
  MaxSplit = 2
  SrlTask = {t1, t2, t3}
  BarMax = 2
  SerialBits = 2
  MaxRounds = 3
SPECIFICATION Spec
INVARIANTS ThInv KeysInv ChannelsInOrder CapsuleInv SrlInv
PROPERTIES Reaped CleanupDone ChannelsThrough ChannelsImplement JoinReturns SrlLetThrough
CHECK_DEADLOCK FALSE
