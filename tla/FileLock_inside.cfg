SPECIFICATION Spec
CONSTANTS
  a = a
  b = b
  t1 = t1
  t2 = t2
  t3 = t3
  Insts = {a, b}
  Threads = {t1, t2, t3}
  Inst <- MCInst
  NoThread = NoThread
  NoInst = NoInst
  Backend = "mem"
  Kinds = {"read", "write", "can_lock"}
  Inside = {"can_lock"}
  MaxDepth = 1
  Calls = 2
INVARIANTS
  MutualExclusion
CHECK_DEADLOCK FALSE
