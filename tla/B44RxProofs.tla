---------------------------- MODULE B44RxProofs ----------------------------
(***************************************************************************)
(* Proofs about the receive ring of the b44 driver, for every ring size,   *)
(* every limit ethtool may set and every set of buffers.                   *)
(***************************************************************************)
EXTENDS B44Rx, RingLemmas, TLAPS

(***************************************************************************)
(* Index arithmetic: how many steps of "(i + 1) & (B44_RX_RING_SIZE - 1)"  *)
(* lead from one slot to another.                                          *)
(***************************************************************************)
RxDist(a, b) == IF a <= b THEN b - a ELSE b - a + RxRingSize

LEMMA RxSlotInt ==
  ASSUME NEW a \in RxSlot
  PROVE  a \in Nat /\ a < RxRingSize /\ RxRingSize \in Nat /\ RxRingSize > 0
  BY RxAssumption DEF RxSlot

LEMMA NextRxWraps ==
  ASSUME NEW n \in RxSlot
  PROVE  /\ NextRx(n) = IF n + 1 = RxRingSize THEN 0 ELSE n + 1
         /\ NextRx(n) \in RxSlot
  <1>1. RxRingSize \in Nat /\ n \in Nat /\ n < RxRingSize
    BY RxSlotInt
  <1>2. (n + 1) % RxRingSize = IF n + 1 = RxRingSize THEN 0 ELSE n + 1
    BY <1>1
  <1> QED
    BY <1>1, <1>2 DEF NextRx, RxSlot

LEMMA RxDistMod ==
  ASSUME NEW a \in RxSlot, NEW b \in RxSlot
  PROVE  /\ (b - a) % RxRingSize = RxDist(a, b)
         /\ RxDist(a, b) \in 0 .. (RxRingSize - 1)
         /\ RxDist(a, b) = 0 <=> a = b
  <1>1. RxRingSize \in Nat /\ a \in Nat /\ a < RxRingSize /\ b \in Nat /\ b < RxRingSize
    BY RxSlotInt
  <1>2. CASE a <= b
    BY <1>1, <1>2 DEF RxDist
  <1>3. CASE ~(a <= b)
    BY <1>1, <1>3 DEF RxDist
  <1> QED
    BY <1>2, <1>3

\* The slots between two indices are those that are nearer than the second.
LEMMA InRxBetween ==
  ASSUME NEW a \in RxSlot, NEW b \in RxSlot
  PROVE  /\ RxBetween(a, b) \subseteq RxSlot
         /\ \A i \in RxSlot : i \in RxBetween(a, b) <=> RxDist(a, i) < RxDist(a, b)
  BY RxAssumption DEF RxSlot, RxBetween, RxDist

\* One step further from the start, or from the end.
LEMMA RxDistNext ==
  ASSUME NEW a \in RxSlot, NEW b \in RxSlot
  PROVE  /\ RxDist(a, NextRx(b)) = IF RxDist(a, b) + 1 = RxRingSize THEN 0 ELSE RxDist(a, b) + 1
         /\ RxDist(NextRx(a), b) = IF a = b THEN RxRingSize - 1 ELSE RxDist(a, b) - 1
         /\ RxDist(NextRx(a), NextRx(b)) = RxDist(a, b)
  <1>1. RxRingSize \in Nat /\ a \in Nat /\ a < RxRingSize /\ b \in Nat /\ b < RxRingSize
    BY RxSlotInt
  <1>2. /\ NextRx(a) = IF a + 1 = RxRingSize THEN 0 ELSE a + 1
        /\ NextRx(b) = IF b + 1 = RxRingSize THEN 0 ELSE b + 1
    BY NextRxWraps
  <1> QED
    BY <1>1, <1>2 DEF RxDist

LEMMA RxDistInjective ==
  ASSUME NEW a \in RxSlot, NEW b \in RxSlot, NEW c \in RxSlot, RxDist(a, b) = RxDist(a, c)
  PROVE  b = c
  BY RxSlotInt DEF RxDist

LEMMA RxPendingInRange ==
  ASSUME NEW m \in RxPendings \cup {RxDefPending}
  PROVE  m \in RxSlot /\ m \div 8 \in RxSlot /\ 0 \in RxSlot
  BY RxAssumption DEF RxSlot

-----------------------------------------------------------------------------
(***************************************************************************)
(* Type correctness.  The chip leaves the ring at the end-of-table mark,   *)
(* so every descriptor with an address must carry the right one.           *)
(***************************************************************************)
RxMarked == \A i \in RxSlot : rx_ring[i].addr # NULL => rx_ring[i].eot = (i = RxRingSize - 1)

\* No buffer is in two slots.
RxDistinct ==
  \A i, j \in RxSlot : rx_buffers[i] = rx_buffers[j] /\ rx_buffers[i] # NULL => i = j

RxBasic == RxTypeOK /\ RxMarked /\ RxDistinct

LEMMA RxInitBasic == RxInit => RxBasic
  <1> SUFFICES ASSUME RxInit PROVE RxBasic
    OBVIOUS
  <1>1. ChipTypeOK
    BY Zenon DEF RxInit, ChipInit, ChipTypeOK, LockStates
  <1>2. 0 \in RxSlot
    BY RxPendingInRange
  <1>3. ZeroDesc \in Desc /\ ZeroDesc.addr = NULL
    BY DEF ZeroDesc, Desc
  <1>4. RxTypeOK
    BY <1>1, <1>2, <1>3 DEF RxInit, RxTypeOK, FrameKinds
  <1>5. RxMarked /\ RxDistinct
    BY <1>3 DEF RxInit, RxMarked, RxDistinct
  <1> QED
    BY <1>4, <1>5 DEF RxBasic

\* What the driver and the chip may do to the contents of the ring.
RxContentsOK ==
  /\ rx_buffers \in [RxSlot -> Bufs \cup {NULL}]
  /\ rx_ring \in [RxSlot -> Desc]
  /\ rx_header \in [Bufs -> FrameKinds]
  /\ RxMarked /\ RxDistinct

LEMMA PostedOK ==
  ASSUME NEW b \in Bufs \cup {NULL}, NEW i \in RxSlot
  PROVE  /\ Posted(b, i) \in Desc
         /\ Posted(b, i).addr = b
         /\ Posted(b, i).eot = (i = RxRingSize - 1)
  BY DEF Posted, Desc

LEMMA RecycleContents ==
  ASSUME RxBasic, NEW src \in RxSlot, RecycleRx(src)
  PROVE  RxContentsOK'
  <1>1. /\ rx_prod \in RxSlot
        /\ rx_buffers \in [RxSlot -> Bufs \cup {NULL}]
        /\ rx_ring \in [RxSlot -> Desc]
        /\ rx_header \in [Bufs -> FrameKinds]
    BY DEF RxBasic, RxTypeOK
  <1>2. rx_ring[src].addr \in Bufs \cup {NULL}
    BY <1>1 DEF Desc
  <1>3. /\ rx_buffers' = [rx_buffers EXCEPT ![rx_prod] = rx_buffers[src], ![src] = NULL]
        /\ rx_ring' = [rx_ring EXCEPT ![rx_prod] = Posted(rx_ring[src].addr, rx_prod)]
        /\ rx_header' = [rx_header EXCEPT ![rx_buffers[src]] = "zero"]
    BY DEF RecycleRx
  <1>4. rx_buffers' \in [RxSlot -> Bufs \cup {NULL}]
    BY <1>1, <1>3
  <1>5. rx_ring' \in [RxSlot -> Desc]
    BY <1>1, <1>2, <1>3, PostedOK
  <1>6. rx_header' \in [Bufs -> FrameKinds]
    BY <1>1, <1>3 DEF FrameKinds
  <1>7. RxMarked'
    BY <1>1, <1>2, <1>3, PostedOK DEF RxBasic, RxMarked
  <1>8. RxDistinct'
    BY <1>1, <1>3 DEF RxBasic, RxDistinct
  <1> QED
    BY <1>4, <1>5, <1>6, <1>7, <1>8 DEF RxContentsOK

LEMMA AllocContents ==
  ASSUME RxBasic, NEW src \in RxSlot, NEW b \in Bufs \ RxOwned, AllocRxSkb(src, b)
  PROVE  RxContentsOK'
  <1>1. /\ rx_prod \in RxSlot
        /\ rx_buffers \in [RxSlot -> Bufs \cup {NULL}]
        /\ rx_ring \in [RxSlot -> Desc]
        /\ rx_header \in [Bufs -> FrameKinds]
    BY DEF RxBasic, RxTypeOK
  <1>2. b # NULL /\ \A i \in RxSlot : rx_buffers[i] # b
    BY RxAssumption DEF RxOwned
  <1>3. /\ rx_buffers' = [rx_buffers EXCEPT ![rx_prod] = b, ![src] = NULL]
        /\ rx_ring' = [rx_ring EXCEPT ![rx_prod] = Posted(b, rx_prod)]
        /\ rx_header' = [rx_header EXCEPT ![rx_buffers[src]] = "zero", ![b] = "zero"]
    BY DEF AllocRxSkb
  <1>4. rx_buffers' \in [RxSlot -> Bufs \cup {NULL}]
    BY <1>1, <1>3
  <1>5. rx_ring' \in [RxSlot -> Desc]
    BY <1>1, <1>3, PostedOK
  <1>6. rx_header' \in [Bufs -> FrameKinds]
    BY <1>1, <1>3 DEF FrameKinds
  <1>7. RxMarked'
    BY <1>1, <1>3, PostedOK DEF RxBasic, RxMarked
  <1>8. RxDistinct'
    BY <1>1, <1>2, <1>3 DEF RxBasic, RxDistinct
  <1> QED
    BY <1>4, <1>5, <1>6, <1>7, <1>8 DEF RxContentsOK

\* b44_init_rings leaves nothing of the old contents.
LEMMA FillContents ==
  ASSUME NEW pending \in RxSlot, FillRxRing(pending)
  PROVE  \E n \in 0 .. pending :
           /\ "nomem" \notin Env => n = pending
           /\ rx_buffers' \in [RxSlot -> Bufs \cup {NULL}]
           /\ rx_ring' \in [RxSlot -> Desc]
           /\ rx_header' \in [Bufs -> FrameKinds]
           /\ RxMarked' /\ RxDistinct'
           /\ \A i \in RxSlot : i < n => rx_buffers'[i] \in Bufs
           /\ \A i \in RxSlot : ~(i < n) => rx_buffers'[i] = NULL
           /\ \A i \in RxSlot : rx_ring'[i].addr = rx_buffers'[i]
  <1>1. pending \in Nat
    BY RxSlotInt
  <1>2. PICK n \in 0 .. pending : \E f \in RxFills(n) :
          /\ "nomem" \notin Env => n = pending
          /\ rx_buffers' = [i \in RxSlot |-> IF i < n THEN f[i] ELSE NULL]
          /\ rx_ring' = [i \in RxSlot |-> IF i < n THEN Posted(f[i], i) ELSE ZeroDesc]
          /\ rx_header' = [b \in Bufs |-> "zero"]
    <2>1. (IF "nomem" \in Env THEN 0 .. pending ELSE {pending}) \subseteq 0 .. pending
      BY <1>1
    <2> QED
      BY <2>1 DEF FillRxRing
  <1>3. PICK f \in RxFills(n) :
          /\ "nomem" \notin Env => n = pending
          /\ rx_buffers' = [i \in RxSlot |-> IF i < n THEN f[i] ELSE NULL]
          /\ rx_ring' = [i \in RxSlot |-> IF i < n THEN Posted(f[i], i) ELSE ZeroDesc]
          /\ rx_header' = [b \in Bufs |-> "zero"]
    BY <1>2
  <1>4. f \in [0 .. (n - 1) -> Bufs] /\ \A i, j \in 0 .. (n - 1) : f[i] = f[j] => i = j
    BY DEF RxFills
  <1>5. \A i \in RxSlot : i < n => i \in 0 .. (n - 1)
    BY <1>1 DEF RxSlot
  <1>6. \A i \in RxSlot : i < n => f[i] \in Bufs /\ f[i] # NULL
    BY <1>4, <1>5, RxAssumption
  <1>7. ZeroDesc \in Desc /\ ZeroDesc.addr = NULL
    BY DEF ZeroDesc, Desc
  <1>8. rx_buffers' \in [RxSlot -> Bufs \cup {NULL}]
    BY <1>3, <1>6
  <1>9. \A i \in RxSlot : i < n => rx_ring'[i] = Posted(f[i], i) /\ rx_buffers'[i] = f[i]
    BY <1>3
  <1>10. \A i \in RxSlot : ~(i < n) => rx_ring'[i] = ZeroDesc /\ rx_buffers'[i] = NULL
    BY <1>3
  <1>11. \A i \in RxSlot : rx_ring'[i] \in Desc /\ rx_ring'[i].addr = rx_buffers'[i]
    BY <1>6, <1>7, <1>9, <1>10, PostedOK
  <1>12. rx_ring' \in [RxSlot -> Desc]
    BY <1>3, <1>11
  <1>13. rx_header' \in [Bufs -> FrameKinds]
    BY <1>3 DEF FrameKinds
  <1>14. RxMarked'
    BY <1>6, <1>7, <1>9, <1>10, PostedOK DEF RxMarked
  <1>15. RxDistinct'
    BY <1>4, <1>5, <1>9, <1>10 DEF RxDistinct
  <1> QED
    BY <1>3, <1>6, <1>8, <1>9, <1>10, <1>11, <1>12, <1>13, <1>14, <1>15

\* The chip's next descriptor is the next slot, if it may use the current one.
LEMMA RxAfterNext ==
  ASSUME RxBasic, rx_ring[dmarx_cur].addr # NULL
  PROVE  RxAfter = NextRx(dmarx_cur) /\ RxAfter \in RxSlot
  <1>1. dmarx_cur \in RxSlot /\ rx_ring[dmarx_cur].eot = (dmarx_cur = RxRingSize - 1)
    BY DEF RxBasic, RxTypeOK, RxMarked
  <1>2. dmarx_cur + 1 = RxRingSize <=> dmarx_cur = RxRingSize - 1
    BY <1>1, RxSlotInt
  <1> QED
    BY <1>1, <1>2, NextRxWraps DEF RxAfter

LEMMA NoCallIdle == NoCall.pc = "idle"
  BY DEF NoCall

\* One turn of the loop of b44_rx that finds a buffer.
LEMMA RxTurnBasic ==
  ASSUME RxBasic, InLoop, rx_call.budget > 0, NEW d \in {0, 1}, NextPkt(d), RxContentsOK'
  PROVE  RxBasic'
  <1>1. rx_call \in [pc : {"loop", "oops"}, cons : RxSlot, prod : RxSlot, budget : Nat]
    BY NoCallIdle DEF RxBasic, RxTypeOK, InLoop
  <1>2. NextRx(rx_call.cons) \in RxSlot /\ NextRx(rx_prod) \in RxSlot
    BY <1>1, NextRxWraps DEF RxBasic, RxTypeOK
  <1>3. rx_call.budget - d \in Nat
    BY <1>1
  <1>4. rx_call' \in [pc : {"loop", "oops"}, cons : RxSlot, prod : RxSlot, budget : Nat]
    BY <1>1, <1>2, <1>3 DEF NextPkt
  <1>5. ChipTypeOK'
    BY DEF NextPkt, RxBasic, RxTypeOK, ChipTypeOK, chipvars
  <1> QED
    BY <1>2, <1>4, <1>5 DEF NextPkt, RxBasic, RxTypeOK, RxContentsOK

LEMMA RxPacketBasic ==
  ASSUME RxBasic, RxPacket
  PROVE  RxBasic'
  <1> DEFINE skb == rx_buffers[rx_call.cons]
  <1>1. rx_call \in [pc : {"loop", "oops"}, cons : RxSlot, prod : RxSlot, budget : Nat]
    BY NoCallIdle DEF RxBasic, RxTypeOK, InLoop, RxPacket
  <1>2. CASE skb = NULL
    <2>1. /\ rx_call' = [rx_call EXCEPT !.pc = "oops"]
          /\ UNCHANGED <<rxring, chipvars>>
      BY <1>2 DEF RxPacket
    <2>2. rx_call' \in [pc : {"loop", "oops"}, cons : RxSlot, prod : RxSlot, budget : Nat]
      BY <1>1, <2>1
    <2> QED
      BY <2>1, <2>2 DEF RxBasic, RxTypeOK, RxMarked, RxDistinct, rxring, chipvars, ChipTypeOK
  <1>3. CASE skb # NULL
    <2>1. InLoop /\ rx_call.budget > 0
      BY DEF RxPacket
    <2>2. CASE RxDrop(rx_header[skb])
      BY <1>1, <2>1, <2>2, RecycleContents, RxTurnBasic DEF RxDrop
    <2>3. ASSUME NEW b \in Bufs, RxDeliver(rx_header[skb], b) PROVE RxBasic'
      BY <1>1, <2>1, <2>3, AllocContents, RxTurnBasic DEF RxDeliver
    <2>4. CASE RxCopy(rx_header[skb])
      BY <1>1, <2>1, <2>4, RecycleContents, RxTurnBasic DEF RxCopy
    <2>5. CASE RxNoMem(rx_header[skb])
      BY <1>1, <2>1, <2>5, RecycleContents, RxTurnBasic DEF RxNoMem
    <2> QED
      BY <1>3, <2>2, <2>3, <2>4, <2>5 DEF RxPacket
  <1> QED
    BY <1>2, <1>3

\* b44_init_rings and b44_init_hw.
LEMMA RefillBasic ==
  ASSUME RxBasic, NEW pending \in RxPendings \cup {RxDefPending},
         FillRxRing(pending), InitHwRx(pending), rx_cons' \in RxSlot,
         init_complete' \in BOOLEAN, UNCHANGED <<rx_call, lock>>
  PROVE  RxBasic'
  <1>1. pending \in RxSlot /\ pending \div 8 \in RxSlot /\ 0 \in RxSlot
    BY RxPendingInRange
  <1>2. /\ rx_buffers' \in [RxSlot -> Bufs \cup {NULL}]
        /\ rx_ring' \in [RxSlot -> Desc]
        /\ rx_header' \in [Bufs -> FrameKinds]
        /\ RxMarked' /\ RxDistinct'
    BY <1>1, FillContents
  <1>3. ChipTypeOK'
    BY DEF InitHwRx, RxBasic, RxTypeOK, ChipTypeOK
  <1> QED
    BY <1>1, <1>2, <1>3 DEF InitHwRx, RxBasic, RxTypeOK

LEMMA ShutdownBasic ==
  ASSUME RxBasic, ShutdownRx, init_complete' \in BOOLEAN
  PROVE  RxBasic'
  <1>1. 0 \in RxSlot
    BY RxPendingInRange
  <1>2. RxMarked' /\ RxDistinct'
    BY DEF RxBasic, RxMarked, RxDistinct, ShutdownRx, FreeRxRing
  <1>3. ChipTypeOK'
    BY DEF ShutdownRx, RxBasic, RxTypeOK, ChipTypeOK
  <1>4. rx_buffers' \in [RxSlot -> Bufs \cup {NULL}]
    BY DEF ShutdownRx, FreeRxRing
  <1> QED
    BY <1>1, <1>2, <1>3, <1>4 DEF ShutdownRx, RxBasic, RxTypeOK

LEMMA HwRxBasic ==
  ASSUME RxBasic, NEW kind \in FrameKinds, HwRx(kind)
  PROVE  RxBasic'
  <1>1. RxAfter \in RxSlot
    BY RxAfterNext DEF HwRx
  <1>2. rx_header' \in [Bufs -> FrameKinds]
    BY DEF HwRx, RxBasic, RxTypeOK
  <1>3. RxMarked' /\ RxDistinct'
    BY DEF HwRx, RxBasic, RxMarked, RxDistinct
  <1> QED
    BY <1>1, <1>2, <1>3 DEF HwRx, RxBasic, RxTypeOK, chipvars, ChipTypeOK

\* The start and the end of b44_rx.
LEMMA RxBeginBasic ==
  ASSUME RxBasic, NEW budget \in RxBudgets, RxBegin(budget)
  PROVE  RxBasic'
  <1>1. budget \in Nat
    BY RxAssumption
  <1>2. rx_call' \in [pc : {"loop", "oops"}, cons : RxSlot, prod : RxSlot, budget : Nat]
    BY <1>1 DEF RxBegin, RxBasic, RxTypeOK
  <1> QED
    BY <1>2 DEF RxBegin, RxBasic, RxTypeOK, RxMarked, RxDistinct, rxring, chipvars, ChipTypeOK

LEMMA RxEndBasic ==
  ASSUME RxBasic, RxEnd
  PROVE  RxBasic'
  <1>1. rx_call.cons \in RxSlot
    BY NoCallIdle DEF RxBasic, RxTypeOK, InLoop, RxEnd
  <1> QED
    BY <1>1 DEF RxEnd, RxBasic, RxTypeOK, RxMarked, RxDistinct, chipvars, ChipTypeOK

LEMMA RxOthersBasic ==
  ASSUME RxBasic, RxOthers
  PROVE  RxBasic'
  <1>1. ChipTypeOK'
    BY DEF RxOthers, LockTaken, IrqUnlocks, RxBasic, RxTypeOK, ChipTypeOK, LockStates
  <1> QED
    BY <1>1 DEF RxOthers, rxvars, rxring, RxBasic, RxTypeOK, RxMarked, RxDistinct

LEMMA RxStepBasic ==
  ASSUME RxBasic, [RxNext]_<<rxvars, chipvars>>
  PROVE  RxBasic'
  <1>1. init_complete \in BOOLEAN /\ rx_pending \in RxPendings \cup {RxDefPending}
        /\ rx_cons \in RxSlot /\ 0 \in RxSlot
    BY RxPendingInRange DEF RxBasic, RxTypeOK, ChipTypeOK
  <1>2. ASSUME NEW pending \in RxPendings \cup {RxDefPending}, RestartRx(pending)
        PROVE  RxBasic'
    BY <1>1, <1>2, RefillBasic DEF RestartRx
  <1>3. ASSUME NEW cold \in BOOLEAN, InitRx(cold) PROVE RxBasic'
    BY <1>1, <1>3, RefillBasic DEF InitRx
  <1>4. CASE RxRestart
    BY <1>1, <1>2, <1>4 DEF RxRestart
  <1>5. ASSUME NEW p \in RxPendings, RxSetRing(p) PROVE RxBasic'
    BY <1>2, <1>5 DEF RxSetRing
  <1>6. CASE RxClose
    BY <1>6, ShutdownBasic DEF RxClose
  <1>7. CASE RxSuspend
    BY <1>1, <1>7, ShutdownBasic DEF RxSuspend
  <1>8. ASSUME NEW cold \in BOOLEAN, RxOpen(cold) PROVE RxBasic'
    BY <1>3, <1>8 DEF RxOpen
  <1>9. ASSUME NEW cold \in BOOLEAN, RxResume(cold) PROVE RxBasic'
    BY <1>3, <1>9 DEF RxResume
  <1>10. CASE UNCHANGED <<rxvars, chipvars>>
    BY <1>10 DEF rxvars, rxring, chipvars, RxBasic, RxTypeOK, RxMarked, RxDistinct, ChipTypeOK
  <1> QED
    BY <1>4, <1>5, <1>6, <1>7, <1>8, <1>9, <1>10, RxPacketBasic, HwRxBasic, RxBeginBasic,
       RxEndBasic, RxOthersBasic
    DEF RxNext

(***************************************************************************)
(* In every state of the receive half the indices and the registers are    *)
(* slots of the ring, whatever the machine does: with several processors,  *)
(* without memory, after a resume that finds the chip cold.  The chip      *)
(* never leaves the ring: each descriptor it may use carries the right     *)
(* end-of-table mark.                                                      *)
(***************************************************************************)
THEOREM RxTypeCorrect == RxSpec => []RxTypeOK
  <1>1. RxBasic => RxTypeOK
    BY DEF RxBasic
  <1> QED
    BY <1>1, RxInitBasic, RxStepBasic, PTL DEF RxSpec

(***************************************************************************)
(* And no buffer is ever in two slots at once, also when b44_rx goes on    *)
(* after another processor has reset the ring under it.                    *)
(***************************************************************************)
THEOREM RxBuffersDistinct == RxSpec => []RxDistinct
  <1>1. RxBasic => RxDistinct
    BY DEF RxBasic
  <1> QED
    BY <1>1, RxInitBasic, RxStepBasic, PTL DEF RxSpec

-----------------------------------------------------------------------------
(***************************************************************************)
(* The ring, on one processor and with a chip that is reset on every       *)
(* resume.  The chip is never behind the driver and never beyond the       *)
(* pointer; and the contents of the ring are in one of three cases.        *)
(***************************************************************************)
RxTo(i) == RxDist(RxFirst, i)

\* How far from the first slot the chip may get.
RxRoom == IF dmarx_ptr = RxFirst THEN RxRingSize ELSE RxTo(dmarx_ptr)

RxOrder ==
  /\ RxTo(dmarx_cur) < RxRoom
  /\ InLoop => RxTo(rx_call.prod) <= RxTo(dmarx_cur)

\* Nothing is posted, and the chip finds no descriptor to use.
RxEmpty ==
  /\ rx_prod = RxFirst /\ dmarx_cur = RxFirst
  /\ \A i \in RxSlot : rx_buffers[i] = NULL
  /\ dma_on => \A i \in RxSlot : rx_ring[i].addr = NULL

\* The next rx_pending slots are posted.
RxFull ==
  /\ rx_pending > 0 /\ RxTo(rx_prod) = rx_pending
  /\ \A i \in RxSlot : rx_buffers[i] # NULL <=> RxTo(i) < rx_pending
  /\ \A i \in RxSlot : RxTo(i) < rx_pending => rx_ring[i].addr = rx_buffers[i]

\* Memory ran out in b44_init_rings: the chip stops for good at the first slot
\* h that was not posted, which b44_rx never comes round to.
RxShort ==
  \E h \in 0 .. (rx_pending - 1) :
    /\ "nomem" \in Env
    /\ RxTo(rx_prod) = rx_pending
    /\ rx_ring[h].addr = NULL
    /\ RxFirst <= dmarx_cur /\ dmarx_cur <= h
    /\ \A i \in RxSlot : RxFirst <= i /\ i < h =>
         rx_buffers[i] # NULL /\ rx_ring[i].addr = rx_buffers[i]

RxInv == RxBasic /\ RxNoOops /\ RxOrder /\ (RxEmpty \/ RxFull \/ RxShort)

LEMMA RxFirstIn ==
  ASSUME RxBasic
  PROVE  /\ RxFirst \in RxSlot
         /\ InLoop => /\ RxFirst = rx_call.cons
                      /\ rx_call \in [pc : {"loop", "oops"}, cons : RxSlot, prod : RxSlot,
                                      budget : Nat]
         /\ ~InLoop => RxFirst = rx_cons
  BY NoCallIdle DEF RxBasic, RxTypeOK, RxFirst, InLoop

\* Steps that neither move the first slot nor touch the contents.
LEMMA RxCaseKept ==
  ASSUME RxEmpty \/ RxFull \/ RxShort, RxFirst' = RxFirst,
         UNCHANGED <<rx_prod, rx_pending, rx_buffers, rx_ring, dmarx_cur, dma_on>>
  PROVE  (RxEmpty \/ RxFull \/ RxShort)'
  <1>1. \A i : RxTo(i)' = RxTo(i)
    BY DEF RxTo, RxDist
  <1>2. CASE RxEmpty
    BY <1>2 DEF RxEmpty
  <1>3. CASE RxFull
    BY <1>1, <1>3 DEF RxFull
  <1>4. CASE RxShort
    BY <1>1, <1>4 DEF RxShort
  <1> QED
    BY <1>2, <1>3, <1>4

\* The start and the end of b44_rx.
LEMMA RxBeginInv ==
  ASSUME RxInv, NEW budget \in RxBudgets, RxBegin(budget)
  PROVE  RxInv'
  <1>1. RxBasic'
    BY RxBeginBasic DEF RxInv
  <1>2. RxFirst' = RxFirst /\ InLoop' /\ rx_call'.prod = dmarx_cur
    BY DEF RxBegin, RxFirst, InLoop, rxring
  <1>3. RxTo(dmarx_cur) \in Nat /\ RxDist(RxFirst, dmarx_cur) = RxTo(dmarx_cur)
    BY RxFirstIn, RxDistMod DEF RxInv, RxBasic, RxTypeOK, RxTo
  <1>4. UNCHANGED <<rx_prod, rx_pending, rx_buffers, rx_ring, dmarx_cur, dmarx_ptr, dma_on>>
    BY DEF RxBegin, rxring, chipvars
  <1>5. RxOrder'
    BY <1>2, <1>3, <1>4 DEF RxInv, RxOrder, RxTo, RxRoom
  <1>6. RxNoOops'
    BY DEF RxBegin, RxNoOops
  <1> QED
    BY <1>1, <1>2, <1>4, <1>5, <1>6, RxCaseKept DEF RxInv

LEMMA RxEndInv ==
  ASSUME RxInv, RxEnd
  PROVE  RxInv'
  <1>1. RxBasic'
    BY RxEndBasic DEF RxInv
  <1>2. RxFirst' = RxFirst /\ ~InLoop' /\ dmarx_ptr' = RxFirst
    BY NoCallIdle DEF RxEnd, RxFirst, InLoop
  <1>3. UNCHANGED <<rx_prod, rx_pending, rx_buffers, rx_ring, dmarx_cur, dma_on>>
    BY DEF RxEnd, chipvars
  <1>4. RxTo(dmarx_cur) < RxRingSize
    BY RxFirstIn, RxDistMod, RxAssumption DEF RxInv, RxBasic, RxTypeOK, RxTo
  <1>5. RxOrder'
    BY <1>2, <1>3, <1>4 DEF RxOrder, RxTo, RxRoom
  <1>6. RxNoOops'
    BY NoCallIdle DEF RxEnd, RxNoOops
  <1> QED
    BY <1>1, <1>2, <1>3, <1>5, <1>6, RxCaseKept DEF RxInv

\* The chip fills a buffer.
LEMMA HwRxInv ==
  ASSUME RxInv, NEW kind \in FrameKinds, HwRx(kind)
  PROVE  RxInv'
  <1>1. RxBasic'
    BY HwRxBasic DEF RxInv
  <1>2. RxFirst' = RxFirst /\ InLoop' = InLoop
    BY DEF HwRx, RxFirst, InLoop
  <1>3. UNCHANGED <<rx_prod, rx_pending, rx_buffers, rx_ring, dmarx_ptr, rx_call, dma_on>>
    BY DEF HwRx, chipvars
  <1>4. /\ dmarx_cur' = NextRx(dmarx_cur) /\ NextRx(dmarx_cur) # dmarx_ptr
        /\ dma_on /\ rx_ring[dmarx_cur].addr # NULL
    BY RxAfterNext DEF RxInv, HwRx, RxMayFill
  <1>5. /\ RxFirst \in RxSlot /\ dmarx_cur \in RxSlot /\ dmarx_ptr \in RxSlot
        /\ NextRx(dmarx_cur) \in RxSlot
    BY <1>1, RxFirstIn, NextRxWraps DEF RxInv, RxBasic, RxTypeOK
  <1>6. RxTo(NextRx(dmarx_cur)) = RxTo(dmarx_cur) + 1
    <2>1. RxTo(NextRx(dmarx_cur)) = IF RxTo(dmarx_cur) + 1 = RxRingSize THEN 0 ELSE RxTo(dmarx_cur) + 1
      BY <1>5, RxDistNext DEF RxTo
    <2>2. ASSUME RxTo(dmarx_cur) + 1 = RxRingSize PROVE FALSE
      <3>1. NextRx(dmarx_cur) = RxFirst
        BY <1>5, <2>1, <2>2, RxDistMod DEF RxTo
      <3>2. dmarx_ptr # RxFirst
        BY <1>4, <3>1
      <3>3. RxTo(dmarx_cur) < RxTo(dmarx_ptr) /\ RxTo(dmarx_ptr) \in 0 .. (RxRingSize - 1)
            /\ RxTo(dmarx_cur) \in 0 .. (RxRingSize - 1)
        BY <1>5, <3>2, RxDistMod DEF RxInv, RxOrder, RxRoom, RxTo
      <3> QED
        BY <2>2, <3>3, RxAssumption
    <2> QED
      BY <2>1, <2>2
  <1>7. RxTo(dmarx_cur) + 1 < RxRoom
    <2>1. RxTo(dmarx_cur) \in Nat /\ RxTo(dmarx_cur) + 1 \in 0 .. (RxRingSize - 1) /\ RxTo(dmarx_ptr) \in Nat
      BY <1>5, <1>6, RxDistMod DEF RxTo
    <2>2. CASE dmarx_ptr = RxFirst
      BY <2>1, <2>2, RxAssumption DEF RxRoom
    <2>3. CASE dmarx_ptr # RxFirst
      <3>1. RxTo(dmarx_cur) < RxTo(dmarx_ptr)
        BY <2>3 DEF RxInv, RxOrder, RxRoom
      <3>2. RxTo(dmarx_cur) + 1 # RxTo(dmarx_ptr)
        BY <1>4, <1>5, <1>6, RxDistInjective DEF RxTo
      <3> QED
        BY <2>1, <2>3, <3>1, <3>2 DEF RxRoom
    <2> QED
      BY <2>2, <2>3
  <1>8. RxOrder'
    <2>1. RxRoom' = RxRoom
      BY <1>2, <1>3 DEF RxRoom, RxTo
    <2>2. RxTo(dmarx_cur)' = RxTo(dmarx_cur) + 1
      BY <1>2, <1>4, <1>6 DEF RxTo
    <2>3. RxTo(rx_call.prod)' = RxTo(rx_call.prod)
      BY <1>2, <1>3 DEF RxTo
    <2>4. RxTo(dmarx_cur) \in Nat
      BY <1>5, RxDistMod DEF RxTo
    <2>5. InLoop => RxTo(rx_call.prod) \in Nat
      BY RxFirstIn, RxDistMod DEF RxTo, RxInv
    <2> QED
      BY <1>2, <1>7, <2>1, <2>2, <2>3, <2>4, <2>5 DEF RxInv, RxOrder
  <1>9. RxNoOops'
    BY <1>3 DEF RxInv, RxNoOops
  <1>10. \A i : RxTo(i)' = RxTo(i)
    BY <1>2 DEF RxTo, RxDist
  <1>11. ~RxEmpty
    BY <1>4, <1>5 DEF RxEmpty
  <1>12. ASSUME RxFull PROVE RxFull'
    BY <1>3, <1>10, <1>12 DEF RxFull
  <1>13. ASSUME RxShort PROVE RxShort'
    <2>1. rx_pending \in Nat /\ rx_pending < RxRingSize
      BY RxPendingInRange, RxSlotInt DEF RxInv, RxBasic, RxTypeOK
    <2>2. PICK h \in 0 .. (rx_pending - 1) :
            /\ "nomem" \in Env
            /\ RxTo(rx_prod) = rx_pending
            /\ rx_ring[h].addr = NULL
            /\ RxFirst <= dmarx_cur /\ dmarx_cur <= h
            /\ \A i \in RxSlot : RxFirst <= i /\ i < h =>
                 rx_buffers[i] # NULL /\ rx_ring[i].addr = rx_buffers[i]
      BY <1>13 DEF RxShort
    <2>3. dmarx_cur < h
      BY <1>4, <1>5, <2>1, <2>2, RxSlotInt
    <2>4. NextRx(dmarx_cur) = dmarx_cur + 1
      BY <1>5, <2>1, <2>3, NextRxWraps, RxSlotInt
    <2>5. RxFirst <= dmarx_cur + 1 /\ dmarx_cur + 1 <= h
      BY <1>5, <2>1, <2>2, <2>3, RxSlotInt
    <2> QED
      BY <1>2, <1>3, <1>4, <1>10, <2>2, <2>4, <2>5 DEF RxShort
  <1> QED
    BY <1>1, <1>8, <1>9, <1>11, <1>12, <1>13 DEF RxInv

\* One turn of the loop of b44_rx finds a buffer, since the chip has filled the
\* slot it looks at.
LEMMA RxTurnFinds ==
  ASSUME RxInv, InLoop, rx_call.cons # rx_call.prod
  PROVE  /\ RxTo(rx_call.prod) \in 1 .. (RxRingSize - 1)
         /\ RxTo(dmarx_cur) \in 1 .. (RxRingSize - 1)
         /\ RxTo(RxFirst) = 0
         /\ ~RxEmpty
         /\ rx_buffers[RxFirst] # NULL /\ rx_ring[RxFirst].addr = rx_buffers[RxFirst]
  <1>1. /\ RxFirst \in RxSlot /\ RxFirst = rx_call.cons /\ rx_call.prod \in RxSlot
        /\ dmarx_cur \in RxSlot
    BY RxFirstIn DEF RxInv, RxBasic, RxTypeOK
  <1>2. RxTo(rx_call.prod) \in 1 .. (RxRingSize - 1)
    BY <1>1, RxDistMod DEF RxTo
  <1>3. RxTo(dmarx_cur) \in 1 .. (RxRingSize - 1)
    <2>1. RxTo(dmarx_cur) \in 0 .. (RxRingSize - 1)
      BY <1>1, RxDistMod DEF RxTo
    <2>2. RxTo(rx_call.prod) <= RxTo(dmarx_cur)
      BY DEF RxInv, RxOrder
    <2> QED
      BY <1>2, <2>1, <2>2, RxAssumption
  <1>4. RxTo(RxFirst) = 0
    BY <1>1, RxDistMod DEF RxTo
  <1>5. ~RxEmpty
    BY <1>3, <1>4 DEF RxEmpty
  <1>6. ASSUME RxFull
        PROVE  rx_buffers[RxFirst] # NULL /\ rx_ring[RxFirst].addr = rx_buffers[RxFirst]
    BY <1>1, <1>4, <1>6 DEF RxFull
  <1>7. ASSUME RxShort
        PROVE  rx_buffers[RxFirst] # NULL /\ rx_ring[RxFirst].addr = rx_buffers[RxFirst]
    <2>1. rx_pending \in Nat
      BY RxPendingInRange, RxSlotInt DEF RxInv, RxBasic, RxTypeOK
    <2>2. PICK h \in 0 .. (rx_pending - 1) :
            /\ RxFirst <= dmarx_cur /\ dmarx_cur <= h
            /\ \A i \in RxSlot : RxFirst <= i /\ i < h =>
                 rx_buffers[i] # NULL /\ rx_ring[i].addr = rx_buffers[i]
      BY <1>7 DEF RxShort
    <2>3. RxFirst # dmarx_cur
      BY <1>3, <1>4
    <2>4. RxFirst < h
      BY <1>1, <2>1, <2>2, <2>3, RxSlotInt
    <2>5. RxFirst <= RxFirst
      BY <1>1, RxSlotInt
    <2> QED
      BY <1>1, <2>2, <2>4, <2>5
  <1> QED
    BY <1>2, <1>3, <1>4, <1>5, <1>6, <1>7 DEF RxInv

\* What such a turn does: a buffer is posted in the next free slot.
RxTurn(b) ==
  /\ rx_buffers' = [rx_buffers EXCEPT ![rx_prod] = b, ![RxFirst] = NULL]
  /\ rx_ring' = [rx_ring EXCEPT ![rx_prod] = Posted(b, rx_prod)]
  /\ rx_prod' = NextRx(rx_prod)
  /\ RxFirst' = NextRx(RxFirst)
  /\ InLoop' /\ rx_call'.prod = rx_call.prod
  /\ UNCHANGED <<rx_pending, dmarx_ptr, dmarx_cur, dma_on>>

LEMMA RxTurnEffect ==
  ASSUME RxInv, RxPacket
  PROVE  \E b \in Bufs : RxTurn(b)
  <1> DEFINE skb == rx_buffers[rx_call.cons]
  <1>1. /\ InLoop /\ rx_call.cons # rx_call.prod
        /\ RxFirst = rx_call.cons /\ RxFirst \in RxSlot
        /\ rx_call \in [pc : {"loop", "oops"}, cons : RxSlot, prod : RxSlot, budget : Nat]
    BY RxFirstIn DEF RxInv, RxPacket
  <1>2. skb # NULL /\ rx_ring[rx_call.cons].addr = skb
    BY <1>1, RxTurnFinds
  <1>3. skb \in Bufs
    BY <1>1, <1>2 DEF RxInv, RxBasic, RxTypeOK
  <1>4. ASSUME NEW d \in {0, 1}, NextPkt(d)
        PROVE  /\ rx_prod' = NextRx(rx_prod)
               /\ RxFirst' = NextRx(RxFirst)
               /\ InLoop' /\ rx_call'.prod = rx_call.prod
               /\ UNCHANGED <<rx_pending, dmarx_ptr, dmarx_cur, dma_on>>
    <2>1. /\ rx_call' = [rx_call EXCEPT !.cons = NextRx(@), !.budget = @ - d]
          /\ rx_prod' = NextRx(rx_prod)
          /\ UNCHANGED <<rx_pending, dmarx_ptr, dmarx_cur, dma_on>>
      BY <1>4 DEF NextPkt, chipvars
    <2>2. rx_call'.pc = "loop" /\ rx_call'.cons = NextRx(rx_call.cons) /\ rx_call'.prod = rx_call.prod
      BY <1>1, <2>1 DEF InLoop
    <2> QED
      BY <1>1, <2>1, <2>2 DEF RxFirst, InLoop
  <1>5. ASSUME RecycleRx(rx_call.cons), NEW d \in {0, 1}, NextPkt(d)
        PROVE  RxTurn(skb)
    BY <1>1, <1>2, <1>4, <1>5 DEF RecycleRx, RxTurn
  <1>6. CASE RxDrop(rx_header[skb])
    BY <1>3, <1>5, <1>6 DEF RxDrop
  <1>7. CASE RxCopy(rx_header[skb])
    BY <1>3, <1>5, <1>7 DEF RxCopy
  <1>8. CASE RxNoMem(rx_header[skb])
    BY <1>3, <1>5, <1>8 DEF RxNoMem
  <1>9. ASSUME NEW b \in Bufs, RxDeliver(rx_header[skb], b)
        PROVE  RxTurn(b)
    BY <1>1, <1>4, <1>9 DEF RxDeliver, AllocRxSkb, RxTurn
  <1> QED
    BY <1>2, <1>6, <1>7, <1>8, <1>9 DEF RxPacket

LEMMA RxPacketInv ==
  ASSUME RxInv, RxPacket
  PROVE  RxInv'
  <1>1. RxBasic'
    BY RxPacketBasic DEF RxInv
  <1>2. PICK b \in Bufs : RxTurn(b)
    BY RxTurnEffect
  <1>3. InLoop /\ rx_call.cons # rx_call.prod /\ RxFirst = rx_call.cons
    BY RxFirstIn DEF RxInv, RxPacket
  <1>4. /\ RxFirst \in RxSlot /\ dmarx_cur \in RxSlot /\ dmarx_ptr \in RxSlot
        /\ rx_prod \in RxSlot /\ rx_call.prod \in RxSlot
        /\ RxRingSize \in Nat /\ RxRingSize > 0
        /\ rx_pending \in Nat /\ rx_pending < RxRingSize
    BY <1>3, RxFirstIn, RxAssumption, RxPendingInRange, RxSlotInt DEF RxInv, RxBasic, RxTypeOK
  <1>5. /\ RxTo(rx_call.prod) \in 1 .. (RxRingSize - 1)
        /\ RxTo(dmarx_cur) \in 1 .. (RxRingSize - 1)
        /\ ~RxEmpty
    BY <1>3, RxTurnFinds
  <1>6. \A i \in RxSlot : /\ RxTo(i) \in 0 .. (RxRingSize - 1)
                          /\ RxTo(i) = 0 <=> i = RxFirst
    BY <1>4, RxDistMod DEF RxTo
  <1>7. \A i \in RxSlot : RxTo(i)' = IF i = RxFirst THEN RxRingSize - 1 ELSE RxTo(i) - 1
    BY <1>2, <1>4, RxDistNext DEF RxTurn, RxTo
  <1>8. RxTo(rx_prod)' = RxTo(rx_prod)
    BY <1>2, <1>4, RxDistNext DEF RxTurn, RxTo
  <1>9. RxNoOops'
    BY <1>2 DEF RxTurn, InLoop, RxNoOops
  <1>10. RxOrder'
    <2>1. RxTo(dmarx_cur)' = RxTo(dmarx_cur) - 1
      BY <1>2, <1>4, <1>5, <1>6, <1>7 DEF RxTurn, RxTo
    <2>2. RxTo(rx_call.prod)' = RxTo(rx_call.prod) - 1
      BY <1>2, <1>4, <1>5, <1>6, <1>7 DEF RxTurn, RxTo
    <2>3. RxTo(rx_call.prod) <= RxTo(dmarx_cur) /\ RxTo(dmarx_cur) < RxRoom
      BY <1>3 DEF RxInv, RxOrder
    <2>4. RxTo(dmarx_cur)' < RxRoom'
      <3>1. RxTo(dmarx_ptr)' = IF dmarx_ptr = RxFirst THEN RxRingSize - 1 ELSE RxTo(dmarx_ptr) - 1
        BY <1>2, <1>4, <1>7 DEF RxTurn, RxTo
      <3>2. CASE (dmarx_ptr = RxFirst)'
        BY <1>4, <1>5, <2>1, <3>2 DEF RxRoom
      <3>3. CASE ~(dmarx_ptr = RxFirst)'
        BY <1>4, <1>5, <1>6, <2>1, <2>3, <3>1, <3>3 DEF RxRoom
      <3> QED
        BY <3>2, <3>3
    <2> QED
      BY <1>5, <2>1, <2>2, <2>3, <2>4 DEF RxOrder
  <1>11. ASSUME RxFull PROVE RxFull'
    <2>1. rx_pending > 0 /\ RxTo(rx_prod) = rx_pending /\ rx_prod # RxFirst
      BY <1>4, <1>6, <1>11 DEF RxFull
    <2>2. \A i \in RxSlot : RxTo(i) = rx_pending <=> i = rx_prod
      BY <1>4, <2>1, RxDistInjective DEF RxTo
    <2>3. ASSUME NEW i \in RxSlot
          PROVE  /\ rx_buffers'[i] # NULL <=> RxTo(i)' < rx_pending
                 /\ RxTo(i)' < rx_pending => rx_ring'[i].addr = rx_buffers'[i]
      <3>1. RxTo(i) \in Nat
        BY <1>6
      <3>2. CASE i = RxFirst
        <4>1. rx_buffers'[i] = NULL
          BY <1>2, <1>4, <2>1, <3>2 DEF RxTurn, RxInv, RxBasic, RxTypeOK
        <4>2. ~(RxTo(i)' < rx_pending)
          BY <1>4, <1>7, <3>2
        <4> QED
          BY <4>1, <4>2
      <3>3. CASE i = rx_prod
        <4>1. rx_buffers'[i] = b /\ rx_ring'[i].addr = b /\ b # NULL
          BY <1>2, <1>4, <2>1, <3>3, PostedOK, RxAssumption DEF RxTurn, RxInv, RxBasic, RxTypeOK
        <4>2. RxTo(i)' < rx_pending
          BY <1>4, <1>7, <2>1, <3>3
        <4> QED
          BY <4>1, <4>2
      <3>4. CASE i # RxFirst /\ i # rx_prod
        <4>1. rx_buffers'[i] = rx_buffers[i] /\ rx_ring'[i] = rx_ring[i]
          BY <1>2, <1>4, <3>4 DEF RxTurn, RxInv, RxBasic, RxTypeOK
        <4>2. RxTo(i)' < rx_pending <=> RxTo(i) < rx_pending
          BY <1>4, <1>7, <2>2, <3>1, <3>4
        <4> QED
          BY <1>11, <4>1, <4>2 DEF RxFull
      <3> QED
        BY <3>2, <3>3, <3>4
    <2>4. rx_pending' = rx_pending
      BY <1>2 DEF RxTurn
    <2> QED
      BY <1>8, <2>1, <2>3, <2>4 DEF RxFull
  <1>12. ASSUME RxShort PROVE RxShort'
    <2>1. PICK h \in 0 .. (rx_pending - 1) :
            /\ "nomem" \in Env
            /\ RxTo(rx_prod) = rx_pending
            /\ rx_ring[h].addr = NULL
            /\ RxFirst <= dmarx_cur /\ dmarx_cur <= h
            /\ \A i \in RxSlot : RxFirst <= i /\ i < h =>
                 rx_buffers[i] # NULL /\ rx_ring[i].addr = rx_buffers[i]
      BY <1>12 DEF RxShort
    <2>2. RxFirst \in Nat /\ dmarx_cur \in Nat /\ rx_prod \in Nat /\ h \in RxSlot /\ h \in Nat
      BY <1>4, RxSlotInt DEF RxSlot
    <2>3. RxFirst < dmarx_cur
      BY <1>5, <1>6, <1>4, <2>1, <2>2
    <2>4. RxFirst' = RxFirst + 1
      BY <1>2, <1>4, <2>2, <2>3, NextRxWraps, RxSlotInt DEF RxTurn
    <2>5. ~(RxFirst < rx_prod /\ rx_prod <= h) /\ rx_prod # RxFirst
      <3>1. rx_pending = IF RxFirst <= rx_prod THEN rx_prod - RxFirst ELSE rx_prod - RxFirst + RxRingSize
        BY <2>1 DEF RxTo, RxDist
      <3> QED
        BY <1>4, <2>1, <2>2, <2>3, <3>1
    <2>6. rx_ring'[h].addr = NULL
      BY <1>2, <1>4, <2>1, <2>2, <2>3, <2>5 DEF RxTurn, RxInv, RxBasic, RxTypeOK
    <2>7. ASSUME NEW i \in RxSlot, RxFirst + 1 <= i, i < h
          PROVE  rx_buffers'[i] # NULL /\ rx_ring'[i].addr = rx_buffers'[i]
      <3>1. i \in Nat
        BY RxSlotInt
      <3>2. i # rx_prod /\ i # RxFirst /\ RxFirst <= i
        BY <2>2, <2>5, <2>7, <3>1
      <3>3. rx_buffers'[i] = rx_buffers[i] /\ rx_ring'[i] = rx_ring[i]
        BY <1>2, <1>4, <3>2 DEF RxTurn, RxInv, RxBasic, RxTypeOK
      <3> QED
        BY <2>1, <2>7, <3>2, <3>3
    <2>8. RxFirst + 1 <= dmarx_cur
      BY <2>2, <2>3
    <2>9. UNCHANGED <<rx_pending, dmarx_cur>>
      BY <1>2 DEF RxTurn
    <2> QED
      BY <1>8, <2>1, <2>4, <2>6, <2>7, <2>8, <2>9 DEF RxShort
  <1> QED
    BY <1>1, <1>5, <1>9, <1>10, <1>11, <1>12 DEF RxInv

\* b44_init_rings and b44_init_hw, when b44_rx is not running and rx_cons is
\* cleared: the three cases are how far the memory reached.
LEMMA RefillInv ==
  ASSUME RxInv, ~InLoop, NEW pending \in RxPendings \cup {RxDefPending},
         FillRxRing(pending), InitHwRx(pending), rx_cons' = 0, RxBasic',
         UNCHANGED rx_call
  PROVE  RxInv'
  <1>1. /\ pending \in RxSlot /\ pending \div 8 \in RxSlot /\ 0 \in RxSlot
        /\ pending \in Nat /\ pending < RxRingSize /\ RxRingSize \in Nat /\ RxRingSize > 0
    BY RxPendingInRange, RxSlotInt
  <1>2. PICK n \in 0 .. pending :
           /\ "nomem" \notin Env => n = pending
           /\ \A i \in RxSlot : i < n => rx_buffers'[i] \in Bufs
           /\ \A i \in RxSlot : ~(i < n) => rx_buffers'[i] = NULL
           /\ \A i \in RxSlot : rx_ring'[i].addr = rx_buffers'[i]
    BY <1>1, FillContents
  <1>3. RxFirst' = 0 /\ ~InLoop'
    BY DEF RxFirst, InLoop
  <1>4. /\ rx_pending' = pending /\ rx_prod' = pending /\ dmarx_cur' = 0
        /\ dmarx_ptr' = pending \div 8
    BY DEF InitHwRx
  <1>5. \A i \in RxSlot : RxTo(i)' = i
    BY <1>3, RxSlotInt DEF RxTo, RxDist
  <1>6. RxNoOops'
    BY DEF RxInv, RxNoOops
  <1>7. RxOrder'
    <2>1. RxTo(dmarx_cur)' = 0
      BY <1>1, <1>3, <1>4 DEF RxTo, RxDist
    <2>2. RxTo(dmarx_ptr)' = pending \div 8
      BY <1>1, <1>3, <1>4, RxSlotInt DEF RxTo, RxDist
    <2>3. pending \div 8 \in Nat
      BY <1>1, RxSlotInt
    <2> QED
      BY <1>1, <1>3, <1>4, <2>1, <2>2, <2>3 DEF RxOrder, RxRoom
  <1>8. RxTo(rx_prod)' = pending
    BY <1>1, <1>3, <1>4 DEF RxTo, RxDist
  <1>9. ASSUME n = pending, pending = 0 PROVE RxEmpty'
    <2>1. \A i \in RxSlot : rx_buffers'[i] = NULL
      BY <1>2, <1>9, RxSlotInt
    <2> QED
      BY <1>2, <1>3, <1>4, <1>9, <2>1 DEF RxEmpty
  <1>10. ASSUME n = pending, pending # 0 PROVE RxFull'
    <2>1. \A i \in RxSlot : rx_buffers'[i] # NULL <=> i < pending
      BY <1>2, <1>10, RxAssumption
    <2> QED
      BY <1>1, <1>2, <1>4, <1>5, <1>8, <1>10, <2>1 DEF RxFull
  <1>11. ASSUME n # pending PROVE RxShort'
    <2>1. n \in 0 .. (pending - 1) /\ n \in RxSlot /\ 0 <= n
      BY <1>1, <1>2, <1>11 DEF RxSlot
    <2>2. rx_ring'[n].addr = NULL
      BY <1>1, <1>2, <2>1
    <2>3. \A i \in RxSlot : i < n => rx_buffers'[i] # NULL /\ rx_ring'[i].addr = rx_buffers'[i]
      BY <1>2, RxAssumption
    <2> QED
      BY <1>2, <1>3, <1>4, <1>8, <1>11, <2>1, <2>2, <2>3 DEF RxShort
  <1> QED
    BY <1>6, <1>7, <1>9, <1>10, <1>11 DEF RxInv

LEMMA ShutdownInv ==
  ASSUME RxInv, ~InLoop, ShutdownRx, RxBasic'
  PROVE  RxInv'
  <1>1. RxFirst' = 0 /\ ~InLoop'
    BY DEF RxFirst, InLoop, ShutdownRx
  <1>2. RxTo(dmarx_cur)' = 0
    BY <1>1 DEF RxTo, RxDist, ShutdownRx
  <1>3. RxOrder'
    BY <1>1, <1>2, RxAssumption DEF RxOrder, RxRoom, ShutdownRx
  <1>4. RxEmpty'
    BY <1>1 DEF RxEmpty, ShutdownRx, FreeRxRing
  <1>5. RxNoOops'
    BY DEF RxInv, RxNoOops, ShutdownRx
  <1> QED
    BY <1>3, <1>4, <1>5 DEF RxInv

\* The lock moves, or nothing does.
LEMMA RxIdleInv ==
  ASSUME RxInv, RxBasic', UNCHANGED <<rxvars, dma_on>>
  PROVE  RxInv'
  <1>1. RxFirst' = RxFirst /\ InLoop' = InLoop
    BY DEF RxFirst, InLoop, rxvars, rxring
  <1>2. RxOrder'
    BY <1>1 DEF RxInv, RxOrder, RxRoom, RxTo, rxvars, rxring
  <1>3. RxNoOops'
    BY DEF RxInv, RxNoOops, rxvars
  <1> QED
    BY <1>1, <1>2, <1>3, RxCaseKept DEF RxInv, rxvars, rxring

LEMMA RxInitInv == RxInit => RxInv
  <1> SUFFICES ASSUME RxInit PROVE RxInv
    OBVIOUS
  <1>1. RxFirst = 0 /\ ~InLoop
    BY NoCallIdle DEF RxInit, RxFirst, InLoop
  <1>2. RxTo(dmarx_cur) = 0
    BY <1>1 DEF RxTo, RxDist, RxInit
  <1>3. RxOrder
    BY <1>1, <1>2, RxAssumption DEF RxOrder, RxRoom, RxInit
  <1>4. RxEmpty
    BY <1>1, Zenon DEF RxEmpty, RxInit, ChipInit
  <1>5. RxNoOops
    BY NoCallIdle DEF RxInit, RxNoOops
  <1> QED
    BY <1>3, <1>4, <1>5, RxInitBasic DEF RxInv

LEMMA RxStepInv ==
  ASSUME "cold" \notin Env, "smp" \notin Env, RxInv, [RxNext]_<<rxvars, chipvars>>
  PROVE  RxInv'
  <1>1. RxBasic'
    BY RxStepBasic DEF RxInv
  <1>2. rx_pending \in RxPendings \cup {RxDefPending}
    BY DEF RxInv, RxBasic, RxTypeOK
  <1>3. ASSUME NEW pending \in RxPendings \cup {RxDefPending}, RestartRx(pending)
        PROVE  RxInv'
    BY <1>1, <1>3, RefillInv DEF RestartRx, RxQuiet
  <1>4. ASSUME NEW cold \in BOOLEAN, InitRx(cold) PROVE RxInv'
    BY <1>1, <1>2, <1>4, RefillInv DEF InitRx, RxQuiet
  <1>5. CASE RxRestart
    BY <1>2, <1>3, <1>5 DEF RxRestart
  <1>6. ASSUME NEW p \in RxPendings, RxSetRing(p) PROVE RxInv'
    BY <1>3, <1>6 DEF RxSetRing
  <1>7. CASE RxClose
    BY <1>1, <1>7, ShutdownInv DEF RxClose
  <1>8. CASE RxSuspend
    BY <1>1, <1>8, ShutdownInv DEF RxSuspend, RxQuiet
  <1>9. ASSUME NEW cold \in BOOLEAN, RxOpen(cold) PROVE RxInv'
    BY <1>4, <1>9 DEF RxOpen
  <1>10. ASSUME NEW cold \in BOOLEAN, RxResume(cold) PROVE RxInv'
    BY <1>4, <1>10 DEF RxResume
  <1>11. CASE RxOthers
    BY <1>1, <1>11, RxIdleInv DEF RxOthers, LockTaken, IrqUnlocks
  <1>12. CASE UNCHANGED <<rxvars, chipvars>>
    BY <1>1, <1>12, RxIdleInv DEF chipvars
  <1> QED
    BY <1>5, <1>6, <1>7, <1>8, <1>9, <1>10, <1>11, <1>12, RxBeginInv, RxPacketInv,
       RxEndInv, HwRxInv
    DEF RxNext

(***************************************************************************)
(* b44_rx never follows a null pointer: on one processor, and if every     *)
(* resume finds the core up, each slot the chip reports filled holds a     *)
(* buffer, also when b44_init_rings ran out of memory half way.            *)
(***************************************************************************)
THEOREM RxOopsUnreachable ==
  ASSUME "cold" \notin Env, "smp" \notin Env
  PROVE  RxSpec => []RxNoOops
  <1>1. RxInv => RxNoOops
    BY DEF RxInv
  <1> QED
    BY <1>1, RxInitInv, RxStepInv, PTL DEF RxSpec

LEMMA RxInvExact ==
  ASSUME RxInv
  PROVE  RxRingExact
  <1>1. /\ RxFirst \in RxSlot /\ rx_prod \in RxSlot
        /\ \A i, j \in RxSlot : rx_buffers[i] = rx_buffers[j] /\ rx_buffers[i] # NULL => i = j
    BY RxFirstIn DEF RxInv, RxBasic, RxTypeOK, RxDistinct
  <1>2. /\ RxBetween(RxFirst, rx_prod) \subseteq RxSlot
        /\ \A i \in RxSlot : i \in RxBetween(RxFirst, rx_prod) <=> RxTo(i) < RxTo(rx_prod)
    BY <1>1, InRxBetween DEF RxTo
  <1>3. CASE RxEmpty
    <2>1. \A i \in RxSlot : ~(RxTo(i) < RxTo(rx_prod))
      BY <1>1, <1>3, RxDistMod DEF RxEmpty, RxTo
    <2> QED
      BY <1>1, <1>2, <1>3, <2>1 DEF RxEmpty, RxPostedExactly, RxRingExact
  <1>4. CASE RxFull
    <2>1. RxPostedExactly
      BY <1>2, <1>4 DEF RxFull, RxPostedExactly
    <2> QED
      BY <1>1, <2>1 DEF RxRingExact
  <1>5. CASE RxShort
    <2>1. "nomem" \in Env /\ RxHoleAhead
      BY <1>5 DEF RxShort, RxHoleAhead
    <2> QED
      BY <1>1, <2>1 DEF RxRingExact
  <1> QED
    BY <1>3, <1>4, <1>5 DEF RxInv

(***************************************************************************)
(* The ring is exact in every state: the slots from the one b44_rx looks   *)
(* at next up to rx_prod hold a buffer each, the one their descriptor      *)
(* points to, and no other slot holds one; for every ring size and every   *)
(* limit below it, across every reset.  If memory ran out when the ring    *)
(* was set up, this is so up to the hole, where the chip stops.            *)
(***************************************************************************)
THEOREM RxRingCorrect ==
  ASSUME "cold" \notin Env, "smp" \notin Env
  PROVE  RxSpec => []RxRingExact
  BY RxInitInv, RxStepInv, RxInvExact, PTL DEF RxSpec

LEMMA RxInvWithin ==
  ASSUME RxInv
  PROVE  RxPostedWithin /\ RxFilled = RxTo(dmarx_cur)
  <1>1. /\ RxFirst \in RxSlot /\ dmarx_cur \in RxSlot
        /\ rx_pending \in Nat /\ rx_pending < RxRingSize
    BY RxFirstIn, RxPendingInRange, RxSlotInt DEF RxInv, RxBasic, RxTypeOK
  <1>2. RxFilled = RxTo(dmarx_cur)
    BY <1>1, RxDistMod DEF RxFilled, RxTo
  <1>3. SUFFICES ASSUME dma_on, rx_ring[dmarx_cur].addr # NULL, RxTo(dmarx_cur) < rx_pending
                 PROVE  rx_buffers[dmarx_cur] = rx_ring[dmarx_cur].addr
    BY <1>2 DEF RxPostedWithin, RxNextIsPosted, RxMayFill
  <1>4. CASE RxEmpty
    BY <1>1, <1>3, <1>4 DEF RxEmpty
  <1>5. CASE RxFull
    BY <1>1, <1>3, <1>5 DEF RxFull
  <1>6. CASE RxShort
    <2>1. PICK h \in 0 .. (rx_pending - 1) :
            /\ rx_ring[h].addr = NULL
            /\ RxFirst <= dmarx_cur /\ dmarx_cur <= h
            /\ \A i \in RxSlot : RxFirst <= i /\ i < h =>
                 rx_buffers[i] # NULL /\ rx_ring[i].addr = rx_buffers[i]
      BY <1>6 DEF RxShort
    <2>2. dmarx_cur < h
      BY <1>1, <1>3, <2>1, RxSlotInt
    <2> QED
      BY <1>1, <2>1, <2>2
  <1> QED
    BY <1>4, <1>5, <1>6 DEF RxInv

(***************************************************************************)
(* For every limit ethtool may set, the driver's default among them: a     *)
(* frame goes to a posted buffer as long as fewer than rx_pending frames   *)
(* wait for b44_rx.  The pointer b44_rx writes does not keep the chip      *)
(* within that limit (RxChipWritesPosted), so that is the most to be had.  *)
(***************************************************************************)
THEOREM RxWritesPostedWithin ==
  ASSUME "cold" \notin Env, "smp" \notin Env
  PROVE  RxSpec => []RxPostedWithin
  BY RxInitInv, RxStepInv, RxInvWithin, PTL DEF RxSpec

-----------------------------------------------------------------------------
(***************************************************************************)
(* The filled slots as a queue.                                            *)
(***************************************************************************)
\* The k-th slot from the first.
RxAt(k) == (RxFirst + k - 1) % RxRingSize

LEMMA RxSlotAt ==
  ASSUME NEW a \in RxSlot, NEW k \in 1 .. RxRingSize
  PROVE  /\ (a + k - 1) % RxRingSize \in RxSlot
         /\ RxDist(a, (a + k - 1) % RxRingSize) = k - 1
  <1>1. a \in Nat /\ a < RxRingSize /\ RxRingSize \in Nat /\ RxRingSize > 0 /\ k \in Nat
        /\ 1 <= k /\ k <= RxRingSize
    BY RxSlotInt
  <1>2. CASE a + k - 1 < RxRingSize
    BY <1>1, <1>2 DEF RxSlot, RxDist
  <1>3. CASE ~(a + k - 1 < RxRingSize)
    <2>1. (a + k - 1) % RxRingSize = a + k - 1 - RxRingSize
      BY <1>1, <1>3
    <2> QED
      BY <1>1, <1>3, <2>1 DEF RxSlot, RxDist
  <1> QED
    BY <1>2, <1>3

\* The slots the chip has filled hold buffers, within the limit.
LEMMA RxFilledHolds ==
  ASSUME RxInv, RxTo(dmarx_cur) <= rx_pending,
         NEW i \in RxSlot, RxTo(i) < RxTo(dmarx_cur)
  PROVE  rx_buffers[i] \in Bufs /\ rx_buffers[i] # NULL
  <1>1. /\ RxFirst \in RxSlot /\ dmarx_cur \in RxSlot /\ RxTo(i) \in Nat /\ RxTo(dmarx_cur) \in Nat
        /\ rx_pending \in Nat /\ rx_pending < RxRingSize
    <2>1. RxFirst \in RxSlot /\ dmarx_cur \in RxSlot
      BY RxFirstIn DEF RxInv, RxBasic, RxTypeOK
    <2>2. RxTo(i) \in Nat /\ RxTo(dmarx_cur) \in Nat
      BY <2>1, RxDistMod DEF RxTo
    <2>3. rx_pending \in Nat /\ rx_pending < RxRingSize
      BY RxPendingInRange, RxSlotInt DEF RxInv, RxBasic, RxTypeOK
    <2> QED
      BY <2>1, <2>2, <2>3
  <1>2. rx_buffers[i] \in Bufs \cup {NULL}
    BY DEF RxInv, RxBasic, RxTypeOK
  <1>3. CASE RxEmpty
    <2>1. RxTo(dmarx_cur) = 0
      BY <1>1, <1>3, RxDistMod DEF RxEmpty, RxTo
    <2> QED
      BY <1>1, <2>1
  <1>4. CASE RxFull
    BY <1>1, <1>2, <1>4 DEF RxFull
  <1>5. CASE RxShort
    <2>1. PICK h \in 0 .. (rx_pending - 1) :
            /\ RxFirst <= dmarx_cur /\ dmarx_cur <= h
            /\ \A j \in RxSlot : RxFirst <= j /\ j < h =>
                 rx_buffers[j] # NULL /\ rx_ring[j].addr = rx_buffers[j]
      BY <1>5 DEF RxShort
    <2>2. RxFirst <= i /\ i < h
      BY <1>1, <2>1, RxSlotInt DEF RxTo, RxDist
    <2> QED
      BY <1>2, <2>1, <2>2
  <1> QED
    BY <1>3, <1>4, <1>5 DEF RxInv

RxQueueShape ==
  /\ RxFilled = RxTo(dmarx_cur) /\ RxFilled \in 0 .. (RxRingSize - 1)
  /\ RxFilled <= rx_pending
  /\ RxQueueOf \in [1 .. RxFilled -> Bufs]
  /\ \A k \in 1 .. RxFilled :
       /\ RxQueueOf[k] = rx_buffers[RxAt(k)] /\ RxQueueOf[k] # NULL
       /\ RxAt(k) \in RxSlot /\ RxTo(RxAt(k)) = k - 1
  /\ Len(RxQueueOf) = RxFilled

LEMMA RxQueueIs ==
  ASSUME RxInTime, RxInv
  PROVE  RxQueueShape
  <1>1. /\ RxFirst \in RxSlot /\ dmarx_cur \in RxSlot /\ RxFilled <= rx_pending
        /\ RxRingSize \in Nat /\ RxRingSize > 0
    BY RxFirstIn, RxAssumption DEF RxInv, RxBasic, RxTypeOK, RxInTime
  <1>2. RxFilled = RxTo(dmarx_cur) /\ RxFilled \in 0 .. (RxRingSize - 1)
    BY <1>1, RxDistMod DEF RxFilled, RxTo
  <1>3. \A k \in 1 .. RxFilled : RxAt(k) \in RxSlot /\ RxTo(RxAt(k)) = k - 1
    <2>1. \A k \in 1 .. RxFilled : k \in 1 .. RxRingSize
      BY <1>1, <1>2
    <2> QED
      BY <1>1, <2>1, RxSlotAt DEF RxAt, RxTo
  <1>4. \A k \in 1 .. RxFilled : rx_buffers[RxAt(k)] \in Bufs /\ rx_buffers[RxAt(k)] # NULL
    <2>1. ASSUME NEW k \in 1 .. RxFilled
          PROVE  rx_buffers[RxAt(k)] \in Bufs /\ rx_buffers[RxAt(k)] # NULL
      <3>1. RxAt(k) \in RxSlot /\ RxTo(RxAt(k)) < RxTo(dmarx_cur) /\ RxTo(dmarx_cur) <= rx_pending
        BY <1>1, <1>2, <1>3
      <3> QED
        BY <3>1, RxFilledHolds
    <2> QED
      BY <2>1
  <1>5. RxQueueOf = [k \in 1 .. RxFilled |-> rx_buffers[RxAt(k)]]
    BY DEF RxQueueOf, RxAt
  <1>6. RxQueueOf \in [1 .. RxFilled -> Bufs]
    BY <1>4, <1>5
  <1>7. Len(RxQueueOf) = RxFilled
    BY <1>2, <1>6, FunSeq
  <1> QED
    BY <1>1, <1>2, <1>3, <1>4, <1>5, <1>6, <1>7 DEF RxQueueShape

LEMMA RxEmptyQueue ==
  ASSUME RxFilled = 0
  PROVE  RxQueueOf = <<>>
  BY DEF RxQueueOf

\* The chip adds a frame at the end.
LEMMA HwRxTakes ==
  ASSUME RxInv, RxInTime, RxInTime', NEW kind \in FrameKinds, HwRx(kind)
  PROVE  \E p \in Bufs : RxQueue!Take(p)
  <1>1. RxQueueShape /\ RxQueueShape'
    BY HwRxInv, RxQueueIs, PTL
  <1>2. /\ RxFirst' = RxFirst /\ UNCHANGED <<rx_buffers, rx_pending>>
        /\ dmarx_cur' = NextRx(dmarx_cur)
        /\ rx_ring[dmarx_cur].addr # NULL /\ RxMayFill
    BY RxAfterNext DEF HwRx, RxFirst, InLoop, RxInv
  <1>3. /\ RxFirst \in RxSlot /\ dmarx_cur \in RxSlot /\ RxRingSize \in Nat
        /\ rx_buffers \in [RxSlot -> Bufs \cup {NULL}] /\ rx_ring \in [RxSlot -> Desc]
    BY RxFirstIn, RxAssumption DEF RxInv, RxBasic, RxTypeOK
  <1>4. RxFilled' = RxFilled + 1
    <2>1. RxTo(dmarx_cur)' = IF RxTo(dmarx_cur) + 1 = RxRingSize THEN 0 ELSE RxTo(dmarx_cur) + 1
      BY <1>2, <1>3, RxDistNext DEF RxTo
    <2>2. RxTo(dmarx_cur)' # 0
      <3>1. NextRx(dmarx_cur) # RxFirst
        <4>1. CASE dmarx_ptr = RxFirst
          BY <1>2, <4>1, RxAfterNext DEF RxMayFill, RxInv
        <4>2. CASE dmarx_ptr # RxFirst
          <5>1. /\ RxTo(dmarx_cur) < RxTo(dmarx_ptr) /\ RxTo(dmarx_ptr) \in 0 .. (RxRingSize - 1)
                /\ RxTo(dmarx_cur) \in 0 .. (RxRingSize - 1)
            BY <1>3, <4>2, RxDistMod DEF RxInv, RxOrder, RxRoom, RxTo, RxBasic, RxTypeOK
          <5>2. RxDist(RxFirst, NextRx(dmarx_cur)) # 0
            BY <1>3, <5>1, RxDistNext DEF RxTo
          <5> QED
            BY <1>3, <5>2, NextRxWraps, RxDistMod
        <4> QED
          BY <4>1, <4>2
      <3> QED
        BY <1>2, <1>3, <3>1, NextRxWraps, RxDistMod DEF RxTo
    <2>3. RxFilled = RxTo(dmarx_cur) /\ RxFilled' = RxTo(dmarx_cur)'
      BY <1>1 DEF RxQueueShape
    <2> QED
      BY <2>1, <2>2, <2>3
  <1>5. rx_buffers[dmarx_cur] = rx_ring[dmarx_cur].addr
    <2>1. RxFilled < rx_pending
      <3>1. RxFilled \in Nat
        BY <1>1, <1>3 DEF RxQueueShape
      <3>2. rx_pending \in Nat
        BY RxPendingInRange, RxSlotInt DEF RxInv, RxBasic, RxTypeOK
      <3> QED
        BY <1>2, <1>4, <3>1, <3>2 DEF RxInTime
    <2> QED
      BY <1>2, <2>1, RxInvWithin DEF RxPostedWithin, RxNextIsPosted
  <1>6. rx_buffers[dmarx_cur] \in Bufs /\ rx_buffers[dmarx_cur] # NULL
    BY <1>2, <1>3, <1>5
  <1>7. /\ RxFilled \in Nat /\ RxFilled + 1 <= RxRingSize - 1
        /\ RxQueueOf \in [1 .. RxFilled -> Bufs] /\ Len(RxQueueOf) = RxFilled
        /\ RxQueueOf' \in [1 .. (RxFilled + 1) -> Bufs]
    <2>1. /\ RxFilled' \in 0 .. (RxRingSize - 1) /\ RxQueueOf' \in [1 .. RxFilled' -> Bufs]
      BY <1>1 DEF RxQueueShape
    <2> QED
      BY <1>3, <1>4, <2>1, <1>1 DEF RxQueueShape
  <1>8. \A k : RxAt(k)' = RxAt(k)
    BY <1>2 DEF RxAt
  <1>9. \A k \in 1 .. RxFilled : RxQueueOf'[k] = RxQueueOf[k]
    <2>1. \A k \in 1 .. RxFilled : k \in 1 .. RxFilled'
      BY <1>4, <1>7
    <2>2. \A k \in 1 .. RxFilled' : RxQueueOf'[k] = rx_buffers'[RxAt(k)']
      BY <1>1 DEF RxQueueShape
    <2> QED
      BY <1>2, <1>8, <2>1, <2>2, <1>1 DEF RxQueueShape
  <1>10. RxQueueOf'[RxFilled + 1] = rx_buffers[dmarx_cur]
    <2>1. PICK k \in 1 .. RxRingSize : k = RxFilled + 1
      BY <1>3, <1>7
    <2>2. k \in 1 .. RxFilled' /\ k - 1 = RxTo(dmarx_cur)
      BY <1>1, <1>4, <1>7, <2>1 DEF RxQueueShape
    <2>3. RxQueueOf'[k] = rx_buffers'[RxAt(k)]
      BY <1>1, <1>8, <2>2 DEF RxQueueShape
    <2>4. RxAt(k) \in RxSlot /\ RxTo(RxAt(k)) = k - 1
      BY <1>3, RxSlotAt DEF RxAt, RxTo
    <2>5. RxAt(k) = dmarx_cur
      BY <1>3, <2>2, <2>4, RxDistInjective DEF RxTo
    <2> QED
      BY <1>2, <2>1, <2>3, <2>5
  <1>11. RxQueueOf' = Append(RxQueueOf, rx_buffers[dmarx_cur])
    BY <1>7, <1>9, <1>10, FunAppend
  <1>12. \A k \in 1 .. Len(RxQueueOf) : RxQueueOf[k] # rx_buffers[dmarx_cur]
    <2>1. ASSUME NEW k \in 1 .. RxFilled, RxQueueOf[k] = rx_buffers[dmarx_cur] PROVE FALSE
      <3>1. RxAt(k) \in RxSlot /\ RxTo(RxAt(k)) = k - 1 /\ RxTo(dmarx_cur) = RxFilled
            /\ rx_buffers[RxAt(k)] = rx_buffers[dmarx_cur]
        BY <2>1, <1>1 DEF RxQueueShape
      <3>2. RxAt(k) = dmarx_cur
        BY <1>3, <1>6, <3>1 DEF RxInv, RxBasic, RxDistinct
      <3> QED
        BY <1>7, <3>1, <3>2
    <2> QED
      BY <1>7, <2>1
  <1>13. Len(RxQueueOf) < RxRingSize - 1
    BY <1>3, <1>7
  <1> QED
    BY <1>6, <1>11, <1>12, <1>13 DEF RxQueue!Take

\* b44_rx takes a frame from the front.
LEMMA RxPacketCompletes ==
  ASSUME RxInv, RxInTime, RxInTime', RxPacket
  PROVE  \E n \in 1 .. Len(RxQueueOf) : RxQueue!Complete(n)
  <1>1. RxQueueShape /\ RxQueueShape'
    BY RxPacketInv, RxQueueIs, PTL
  <1>2. PICK b \in Bufs : RxTurn(b)
    BY RxTurnEffect
  <1>3. InLoop /\ rx_call.cons # rx_call.prod
    BY DEF RxPacket
  <1>4. /\ RxFirst \in RxSlot /\ dmarx_cur \in RxSlot /\ rx_prod \in RxSlot
        /\ rx_buffers \in [RxSlot -> Bufs \cup {NULL}]
        /\ RxRingSize \in Nat /\ RxRingSize > 0
    BY RxFirstIn, RxAssumption DEF RxInv, RxBasic, RxTypeOK
  <1>5. RxTo(dmarx_cur) \in 1 .. (RxRingSize - 1) /\ RxTo(RxFirst) = 0 /\ ~RxEmpty
    BY <1>3, RxTurnFinds
  <1>6. RxFilled' = RxFilled - 1 /\ RxFilled \in Nat \ {0} /\ Len(RxQueueOf) = RxFilled
    <2>1. dmarx_cur # RxFirst
      BY <1>5
    <2>2. RxTo(dmarx_cur)' = RxTo(dmarx_cur) - 1
      BY <1>2, <1>4, <2>1, RxDistNext DEF RxTurn, RxTo
    <2> QED
      BY <1>1, <1>5, <2>2 DEF RxQueueShape
  <1>7. RxTo(rx_prod) = rx_pending /\ rx_pending \in Nat
    BY <1>5, RxPendingInRange, RxSlotInt DEF RxInv, RxBasic, RxTypeOK, RxFull, RxShort
  <1>8. ASSUME NEW k \in 1 .. (RxFilled - 1)
        PROVE  RxQueueOf'[k] = RxQueueOf[k + 1]
    <2>1. k \in 1 .. RxFilled' /\ k + 1 \in 1 .. RxFilled /\ k \in Nat /\ k + 1 - 1 = k
      BY <1>6
    <2>2. /\ RxQueueOf'[k] = rx_buffers'[RxAt(k)'] /\ RxAt(k)' \in RxSlot
          /\ RxTo(RxAt(k))' = k - 1
      BY <1>1, <2>1 DEF RxQueueShape
    <2>3. /\ RxQueueOf[k + 1] = rx_buffers[RxAt(k + 1)] /\ RxAt(k + 1) \in RxSlot
          /\ RxTo(RxAt(k + 1)) = k
      BY <1>1, <2>1 DEF RxQueueShape
    <2>4. RxAt(k)' = RxAt(k + 1)
      <3>1. RxAt(k + 1) # RxFirst
        BY <1>5, <2>1, <2>3
      <3>2. RxDist(NextRx(RxFirst), RxAt(k + 1)) = k - 1
        BY <1>4, <2>3, <3>1, RxDistNext DEF RxTo
      <3>3. RxDist(NextRx(RxFirst), RxAt(k)') = k - 1
        BY <1>2, <2>2 DEF RxTurn, RxTo
      <3>4. NextRx(RxFirst) \in RxSlot
        BY <1>4, NextRxWraps
      <3> QED
        BY <2>2, <2>3, <3>2, <3>3, <3>4, RxDistInjective
    <2>5. RxAt(k + 1) # rx_prod /\ RxAt(k + 1) # RxFirst
      <3>1. RxFilled <= rx_pending
        BY <1>1 DEF RxQueueShape
      <3>2. k < rx_pending /\ k > 0
        BY <1>6, <1>7, <2>1, <3>1
      <3> QED
        BY <1>5, <1>7, <2>1, <2>3, <3>2
    <2>6. rx_buffers'[RxAt(k + 1)] = rx_buffers[RxAt(k + 1)]
      BY <1>2, <1>4, <2>3, <2>5 DEF RxTurn
    <2> QED
      BY <2>2, <2>3, <2>4, <2>6
  <1>9. RxQueueOf \in [1 .. RxFilled -> Bufs] /\ RxQueueOf' \in [1 .. (RxFilled - 1) -> Bufs]
    BY <1>1, <1>6 DEF RxQueueShape
  <1>10. RxQueueOf' = SubSeq(RxQueueOf, 1 + 1, Len(RxQueueOf))
    BY <1>6, <1>8, <1>9, FunSubSeq
  <1>11. 1 \in 1 .. Len(RxQueueOf)
    BY <1>6
  <1> QED
    BY <1>10, <1>11 DEF RxQueue!Complete

\* A reset empties the queue.
LEMMA RxResetFlushes ==
  ASSUME RxBasic, RxBasic', ~InLoop, UNCHANGED rx_call, rx_cons' = 0, dmarx_cur' = 0
  PROVE  RxQueue!Flush
  <1>1. RxFirst' = 0
    BY DEF RxFirst, InLoop
  <1>2. 0 % RxRingSize = 0
    BY RxAssumption
  <1>3. RxFilled' = 0
    BY <1>1, <1>2 DEF RxFilled
  <1>4. RxQueueOf' = <<>>
    BY <1>3 DEF RxQueueOf
  <1> QED
    BY <1>4 DEF RxQueue!Flush

\* Every other step leaves the queue alone.
LEMMA RxQueueKept ==
  ASSUME RxFirst' = RxFirst, UNCHANGED <<dmarx_cur, rx_buffers>>
  PROVE  UNCHANGED RxQueueOf
  <1>1. RxFilled' = RxFilled
    BY DEF RxFilled
  <1> QED
    BY <1>1 DEF RxQueueOf

LEMMA RxStepFifo ==
  ASSUME "cold" \notin Env, "smp" \notin Env, RxInv, [RxNext]_<<rxvars, chipvars>>
  PROVE  [RxInTime /\ RxInTime' => RxQueue!Next]_RxQueueOf
  <1> SUFFICES ASSUME RxInTime, RxInTime' PROVE [RxQueue!Next]_RxQueueOf
    OBVIOUS
  <1>1. RxBasic /\ RxBasic'
    BY RxStepInv DEF RxInv
  <1>2. ASSUME NEW budget \in RxBudgets, RxBegin(budget) PROVE UNCHANGED RxQueueOf
    BY <1>2, RxQueueKept DEF RxBegin, RxFirst, InLoop, rxring
  <1>3. CASE RxPacket
    BY <1>3, RxPacketCompletes DEF RxQueue!Next
  <1>4. CASE RxEnd
    <2>1. RxFirst' = RxFirst
      BY <1>4, NoCallIdle DEF RxEnd, RxFirst, InLoop
    <2> QED
      BY <1>4, <2>1, RxQueueKept DEF RxEnd
  <1>5. ASSUME NEW kind \in FrameKinds, HwRx(kind) PROVE RxQueue!Next
    BY <1>5, HwRxTakes DEF RxQueue!Next
  <1>6. ASSUME NEW pending, RestartRx(pending) PROVE RxQueue!Flush
    BY <1>1, <1>6, RxResetFlushes DEF RestartRx, InitHwRx, RxQuiet
  <1>7. CASE RxRestart \/ \E p \in RxPendings : RxSetRing(p)
    BY <1>6, <1>7 DEF RxRestart, RxSetRing, RxQueue!Next
  <1>8. CASE RxClose \/ RxSuspend
    BY <1>1, <1>8, RxResetFlushes DEF RxClose, RxSuspend, RxQuiet, ShutdownRx, RxQueue!Next
  <1>9. ASSUME NEW cold \in BOOLEAN, InitRx(cold) PROVE RxQueue!Flush
    BY <1>1, <1>9, RxResetFlushes DEF InitRx, InitHwRx, RxQuiet
  <1>10. CASE \E cold \in BOOLEAN : RxOpen(cold) \/ RxResume(cold)
    BY <1>9, <1>10 DEF RxOpen, RxResume, RxQueue!Next
  <1>11. CASE RxOthers \/ UNCHANGED <<rxvars, chipvars>>
    BY <1>11, RxQueueKept DEF RxOthers, rxvars, rxring, RxFirst, InLoop
  <1> QED
    BY <1>2, <1>3, <1>4, <1>5, <1>7, <1>8, <1>10, <1>11 DEF RxNext

(***************************************************************************)
(* For every ring size and every limit below it, the driver's 200 of 512   *)
(* among them: while b44_rx keeps up, every step of the receive ring is a  *)
(* step of the bounded first-in first-out queue of PacketQueue, from the   *)
(* chip to b44_rx.  A frame is looked at once and in the order of arrival, *)
(* or thrown away with all others by a reset.                              *)
(***************************************************************************)
THEOREM RxRingImplementsQueue ==
  ASSUME "cold" \notin Env, "smp" \notin Env
  PROVE  RxSpec => RxFifo
  <1>1. RxInit => RxQueue!Init
    <2> SUFFICES ASSUME RxInit PROVE RxQueueOf = <<>>
      BY DEF RxQueue!Init
    <2>1. RxFirst = 0 /\ dmarx_cur = 0
      BY NoCallIdle DEF RxInit, RxFirst, InLoop
    <2>2. RxFilled = 0
      BY <2>1, RxAssumption DEF RxFilled
    <2> QED
      BY <2>2, RxEmptyQueue
  <1> QED
    BY <1>1, RxInitInv, RxStepInv, RxStepFifo, PTL DEF RxSpec, RxFifo
=============================================================================
