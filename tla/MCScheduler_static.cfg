CONSTANTS
  c1 = c1 c2 = c2 x1 = x1 x2 = x2 x3 = x3 d1 = d1 q1 = q1 l1 = l1 shared = shared
  None = None
  CPU = {c1, c2}
  Ctx = {x1, x2, x3}
  Irq = {d1}
  Queue = {q1}
  Lock = {}
  Sched = {c1, c2}
  scheduler_get <- MCStatic
  IDLE = "ipi"
  MainCtx = x1
  BootCpu = c1
  MaxOps = 2
SPECIFICATION Spec
SYMMETRY MCSymmetry
INVARIANTS ReadyIsSaved AffinityKept
CHECK_DEADLOCK FALSE
