SPECIFICATION Spec
CONSTANTS
  a = a
  b = b
  t1 = t1
  t2 = t2
  t3 = t3
  Insts = {a, b}
  Threads = {t1, t2, t3}
  Inst <- MCInst
  NoThread = NoThread
  NoInst = NoInst
  Backend = "mem"
  Kinds = {"read", "switch"}
  Inside = {"switch"}
  MaxDepth = 1
  Calls = 2
PROPERTIES
  PromotionAtomic
CHECK_DEADLOCK FALSE
