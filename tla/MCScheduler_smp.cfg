CONSTANTS
  c1 = c1 c2 = c2 x1 = x1 x2 = x2 x3 = x3 d1 = d1 q1 = q1 l1 = l1 shared = shared
  None = None
  CPU = {c1, c2}
  Ctx = {x1, x2, x3}
  Irq = {d1}
  Queue = {}
  Lock = {l1}
  Sched = {shared}
  scheduler_get <- MCMigration
  IDLE = "ipi"
  MainCtx = x1
  BootCpu = c1
  MaxOps = 2
SPECIFICATION FairSpec
INVARIANTS TypeOK OneCpuPerContext LockHandOver ReadyIsServed
PROPERTIES ImplementsWaitQueues ReadyRuns
CHECK_DEADLOCK FALSE
