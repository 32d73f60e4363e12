SPECIFICATION FairSpec
CONSTANTS
  a = a
  b = b
  t1 = t1
  t2 = t2
  t3 = t3
  Insts = {a, b}
  Threads = {t1, t2, t3}
  Inst <- MCInst
  NoThread = NoThread
  NoInst = NoInst
  Backend = "mem"
  Kinds = {"read", "write", "switch", "can_lock"}
  Inside = {"switch"}
  MaxDepth = 1
  Calls = 3
INVARIANTS
  TypeOK
  MutualExclusion
  SessionProtected
  CountsSessions
  NoLockLeft
PROPERTIES
  AcquireReturns
CHECK_DEADLOCK FALSE
