CONSTANTS
  NULL = NULL
  TxRingSize = 4
  U32 = 256
  TxPendings = {0, 1, 2}
  Skbs = {s1, s2, s3, s4}
  Env = {"highmem", "close", "mtu", "timeout", "resize", "sleep"}
SYMMETRY MCSymmetry
SPECIFICATION TxSpec
INVARIANTS TxTypeOK TxRingExact TxBounded TxNoBug
PROPERTY TxFifo
\* A leaked lock stops the driver for good.
CHECK_DEADLOCK FALSE
