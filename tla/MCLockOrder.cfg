SPECIFICATION Spec
CONSTANTS
  t1 = t1
  t2 = t2
  t3 = t3
  Threads = {t1, t2, t3}
  p = p
  q = q
  Mutexes <- MCMutexes
  None = None
SYMMETRY Symmetry
INVARIANT
  NoDeadlock
