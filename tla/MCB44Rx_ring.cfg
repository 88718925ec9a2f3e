CONSTANTS
  NULL = NULL
  RxRingSize = 4
  RxDefPending = 2
  RxPendings = {1, 3}
  RxBudgets = {1, 2}
  Bufs = {b1, b2, b3, b4}
  Env = {"close", "resize", "sleep", "nomem"}
SYMMETRY MCSymmetry
SPECIFICATION RxSpec
INVARIANTS RxRingExact RxPostedWithin RxNoOops
PROPERTY RxFifo
