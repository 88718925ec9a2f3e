CONSTANTS
  NULL = NULL
  TxRingSize = 2
  U32 = 256
  TxPendings = {1}
  Skbs = {s1}
  RxRingSize = 2
  RxDefPending = 1
  RxPendings = {1}
  RxBudgets = {1}
  Bufs = {b1, b2}
  Env = {"close"}
SPECIFICATION FairSpec
PROPERTIES PacketsReturn RxFrameConsumed CloseEnds
