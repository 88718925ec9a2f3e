CONSTANTS
  NULL = NULL
  TxRingSize = 4
  U32 = 256
  TxPendings = {2}
  Skbs = {s1, s2, s3, s4}
  Env = {"timeout", "resize", "sleep"}
SPECIFICATION TxFairSpec
INVARIANT TxFlowControl
PROPERTY TxQueueWoken
