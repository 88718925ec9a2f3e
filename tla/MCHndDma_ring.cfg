CONSTANTS
  NULL = NULL
  NTxd = 4
  NRxd = 8
  NRxPost = 5
  BufSize = 2
  RxOffset = 1
  FrameLens = {1, 2, 3, 4}
  Pkts = {p1, p2, p3, p4}
  Needs = {1, 2, 3, 4}
  Holes = {"tail"}
  Channels = {{"tx"}, {"rx"}}
  StatusPer = "frame"
SYMMETRY MCSymmetry
SPECIFICATION Spec
INVARIANTS HndTypeOK HndNoAssert TxFramesWhole RcvWritesPosted RxSkipsGiants
PROPERTIES TxAvailHonest HndFifo
