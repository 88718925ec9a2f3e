CONSTANTS
  NULL = NULL
  TxRingSize = 4
  U32 = 256
  TxPendings = {2, 3}
  Skbs = {s1, s2, s3, s4}
  Env = {"highmem"}
SPECIFICATION TxFairSpec
INVARIANT TxLockReturned
