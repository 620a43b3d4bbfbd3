CONSTANTS
  c1 = c1 c2 = c2 x1 = x1 x2 = x2 x3 = x3 d1 = d1 q1 = q1 l1 = l1 shared = shared
  None = None
  CPU = {c1, c2}
  Ctx = {x1, x2}
  Irq = {}
  Queue = {q1}
  Lock = {}
  Sched = {shared}
  scheduler_get <- MCMigration
  IDLE = "ipi"
  MainCtx = x1
  BootCpu = c1
  MaxOps = 2
SPECIFICATION PreemptSpec
INVARIANT QueuedIsContext
CHECK_DEADLOCK FALSE
