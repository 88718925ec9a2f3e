CONSTANTS
  NULL = NULL
  TxRingSize = 2
  U32 = 256
  TxPendings = {1}
  Skbs = {s1, s2}
  RxRingSize = 2
  RxDefPending = 1
  RxPendings = {1}
  RxBudgets = {1, 2}
  Bufs = {b1, b2}
  Env = {"smp", "closed", "nomem", "cold"}
SYMMETRY MCSymmetry
SPECIFICATION Spec
INVARIANTS PollMasked EventsKept
\* An administrator who dies in b44_free_rings stops the driver for good.
CHECK_DEADLOCK FALSE
