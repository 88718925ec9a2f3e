CONSTANTS
  NULL = NULL
  TxRingSize = 2
  U32 = 256
  TxPendings = {1}
  Skbs = {s1, s2}
  RxRingSize = 2
  RxDefPending = 1
  RxPendings = {1}
  RxBudgets = {1}
  Bufs = {b1, b2}
  Env = {"close", "mtu", "timeout", "resize", "sleep"}
SYMMETRY MCSymmetry
SPECIFICATION Spec
INVARIANTS TypeOK ClosedQuiet TimerArmedOnce StopAfterPoll
PROPERTIES TxSpec RxSpec
