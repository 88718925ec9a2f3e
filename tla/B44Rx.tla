------------------------------- MODULE B44Rx -------------------------------
(***************************************************************************)
(* The receive ring of the b44 driver: the chip fills posted buffers,      *)
(* b44_rx hands them (or copies of them) to the stack and posts others,    *)
(* and the reset paths empty and refill the ring.                          *)
(*                                                                         *)
(* b44_rx does not take bp->lock, so a call of it is a sequence of steps:  *)
(* RxBegin, one step per packet, RxEnd.  On one processor it runs in a     *)
(* softirq that only the chip and the interrupt handler can overlap; with  *)
(* "smp" in Env the resets of other processors may come in between.        *)
(***************************************************************************)
EXTENDS B44Chip, Integers, FiniteSets

CONSTANTS
  RxRingSize,     \* B44_RX_RING_SIZE, a power of two (512 in the driver)
  RxDefPending,   \* B44_DEF_RX_RING_PENDING
  RxPendings,     \* the values ethtool may set bp->rx_pending to
  RxBudgets,      \* the budgets b44_rx may be called with
  Bufs            \* the memory receive buffers are allocated from

ASSUME RxAssumption ==
  /\ RxRingSize \in Nat \ {0}
  /\ RxDefPending \in 0 .. (RxRingSize - 1)
  /\ RxPendings \subseteq 0 .. (RxRingSize - 1)
  /\ RxBudgets \subseteq Nat \ {0}
  /\ NULL \notin Bufs

VARIABLES
  rx_prod,        \* bp->rx_prod: next slot to post
  rx_cons,        \* bp->rx_cons: next slot to look at
  rx_pending,     \* bp->rx_pending: how many slots are kept posted
  rx_buffers,     \* bp->rx_buffers[].skb
  rx_ring,        \* bp->rx_ring[]: the descriptors the chip reads
  rx_header,      \* the rx_header the chip wrote at the start of a buffer
  dmarx_ptr,      \* B44_DMARX_PTR, in descriptors
  dmarx_cur,      \* current descriptor in B44_DMARX_STAT
  rx_call         \* the call of b44_rx in progress: its local variables

rxring == <<rx_prod, rx_cons, rx_pending, rx_buffers, rx_ring, rx_header,
            dmarx_ptr, dmarx_cur>>
rxvars == <<rxring, rx_call>>

RxSlot == 0 .. (RxRingSize - 1)

NextRx(n) == (n + 1) % RxRingSize

RxBetween(a, b) ==
  IF a <= b THEN a .. (b - 1) ELSE RxSlot \ (b .. (a - 1))

(***************************************************************************)
(* What the driver tells apart in an rx_header: a frame short enough to be *)
(* copied (RX_COPY_THRESHOLD), a longer one, a length or a flag that says  *)
(* the frame is bad, and a length that is (still) zero.                    *)
(***************************************************************************)
FrameKinds == {"short", "long", "bad", "zero"}

\* A descriptor: the buffer it points to, and the end-of-table mark.
Desc == [addr : Bufs \cup {NULL}, eot : BOOLEAN]
ZeroDesc == [addr |-> NULL, eot |-> FALSE]

\* The descriptor of slot i for buffer b: DESC_CTRL_EOT marks the last slot.
Posted(b, i) == [addr |-> b, eot |-> i = RxRingSize - 1]

NoCall == [pc |-> "idle"]
InLoop == rx_call.pc = "loop"

\* The driver's buffers; the others belong to the rest of the kernel.
RxOwned == {rx_buffers[i] : i \in RxSlot} \ {NULL}

-----------------------------------------------------------------------------
\* b44_alloc_rx_skb(bp, src, rx_prod), which got buffer b.
AllocRxSkb(src, b) ==
  /\ rx_buffers' = [rx_buffers EXCEPT ![rx_prod] = b, ![src] = NULL]
  /\ rx_ring' = [rx_ring EXCEPT ![rx_prod] = Posted(b, rx_prod)]
  /\ rx_header' = [rx_header EXCEPT ![rx_buffers[src]] = "zero", ![b] = "zero"]

\* (the source slot keeps its pointer to the buffer)
MutRecycleRx(src) ==
  /\ rx_buffers' = [rx_buffers EXCEPT ![rx_prod] = rx_buffers[src]]
  /\ rx_ring' = [rx_ring EXCEPT ![rx_prod] = Posted(rx_ring[src].addr, rx_prod)]
  /\ rx_header' = [rx_header EXCEPT ![rx_buffers[src]] = "zero"]

\* b44_recycle_rx(bp, src, rx_prod): the buffer of slot src is posted again.
RecycleRx(src) ==
  /\ rx_buffers' = [rx_buffers EXCEPT ![rx_prod] = rx_buffers[src], ![src] = NULL]
  /\ rx_ring' = [rx_ring EXCEPT ![rx_prod] = Posted(rx_ring[src].addr, rx_prod)]
  /\ rx_header' = [rx_header EXCEPT ![rx_buffers[src]] = "zero"]

\* b44_rx reads how far the chip is, and where it stopped itself.
RxBegin(budget) ==
  /\ init_complete
  /\ ~InLoop
  /\ rx_call' = [pc |-> "loop", cons |-> rx_cons, prod |-> dmarx_cur, budget |-> budget]
  /\ UNCHANGED <<rxring, chipvars>>

\* next_pkt: both indices move on, a delivered packet uses up budget.
NextPkt(delivered) ==
  /\ rx_prod' = NextRx(rx_prod)
  /\ rx_call' = [rx_call EXCEPT !.cons = NextRx(@), !.budget = @ - delivered]
  /\ UNCHANGED <<rx_cons, rx_pending, dmarx_ptr, dmarx_cur, chipvars>>

\* An erroneous frame, or one whose length stays zero: post its buffer again.
RxDrop(kind) ==
  /\ kind \in {"bad", "zero"}
  /\ RecycleRx(rx_call.cons)
  /\ NextPkt(0)

\* A long frame goes to the stack in its own buffer, and b is posted instead.
RxDeliver(kind, b) ==
  /\ kind = "long"
  /\ b \in Bufs \ RxOwned
  /\ AllocRxSkb(rx_call.cons, b)
  /\ NextPkt(1)

\* A short frame goes to the stack in a copy, its buffer is posted again.
RxCopy(kind) ==
  /\ kind = "short"
  /\ RecycleRx(rx_call.cons)
  /\ NextPkt(1)

\* No memory for the new buffer or the copy: the frame is dropped.
RxNoMem(kind) ==
  /\ "nomem" \in Env
  /\ kind \in {"short", "long"}
  /\ RecycleRx(rx_call.cons)
  /\ NextPkt(0)

\* One turn of the loop of b44_rx.  A slot without a buffer makes it read
\* skb->data through a null pointer.
RxPacket ==
  LET skb == rx_buffers[rx_call.cons] IN
  /\ InLoop
  /\ rx_call.cons # rx_call.prod
  /\ rx_call.budget > 0
  /\ IF skb = NULL
     THEN /\ rx_call' = [rx_call EXCEPT !.pc = "oops"]
          /\ UNCHANGED <<rxring, chipvars>>
     ELSE \/ RxDrop(rx_header[skb])
          \/ \E b \in Bufs : RxDeliver(rx_header[skb], b)
          \/ RxCopy(rx_header[skb])
          \/ RxNoMem(rx_header[skb])

\* The end of b44_rx.
RxEnd ==
  /\ InLoop
  /\ rx_call.cons = rx_call.prod \/ rx_call.budget = 0
  /\ rx_cons' = rx_call.cons
  /\ dmarx_ptr' = rx_call.cons
  /\ rx_call' = NoCall
  /\ UNCHANGED <<rx_prod, rx_pending, rx_buffers, rx_ring, rx_header, dmarx_cur, chipvars>>

-----------------------------------------------------------------------------
\* The chip.  It walks the descriptors up to their end-of-table mark, and never
\* moves its current descriptor onto the posted pointer: b44_rx writes the
\* pointer it has read the current descriptor up to, so that the two are equal
\* when every slot is available.  A zeroed descriptor stops it.

RxAfter == IF rx_ring[dmarx_cur].eot THEN 0 ELSE dmarx_cur + 1

\* The chip has a frame and may use the current descriptor.
RxMayFill == dma_on /\ RxAfter # dmarx_ptr

HwRx(kind) ==
  /\ RxMayFill
  /\ rx_ring[dmarx_cur].addr # NULL
  /\ rx_header' = [rx_header EXCEPT ![rx_ring[dmarx_cur].addr] = kind]
  /\ dmarx_cur' = RxAfter
  /\ UNCHANGED <<rx_prod, rx_cons, rx_pending, rx_buffers, rx_ring, dmarx_ptr, rx_call, chipvars>>

-----------------------------------------------------------------------------
\* Resets.  On one processor none of them overlaps a call of b44_rx.
RxQuiet == ~InLoop \/ "smp" \in Env

\* b44_free_rings.
FreeRxRing == rx_buffers' = [i \in RxSlot |-> NULL]

\* The ways b44_init_rings can refill n slots of the ring.
RxFills(n) == {f \in [0 .. (n - 1) -> Bufs] : \A i, j \in DOMAIN f : f[i] = f[j] => i = j}

\* (the descriptors are not zeroed first)
MutFillRxRing(pending) ==
  \E n \in (IF "nomem" \in Env THEN 0 .. pending ELSE {pending}) : \E f \in RxFills(n) :
    /\ rx_buffers' = [i \in RxSlot |-> IF i < n THEN f[i] ELSE NULL]
    /\ rx_ring' = [i \in RxSlot |-> IF i < n THEN Posted(f[i], i) ELSE rx_ring[i]]
    /\ rx_header' = [b \in Bufs |-> "zero"]

\* b44_init_rings: free all, zero the descriptors, post rx_pending buffers or
\* as many as there is memory for.
FillRxRing(pending) ==
  \E n \in (IF "nomem" \in Env THEN 0 .. pending ELSE {pending}) : \E f \in RxFills(n) :
    /\ rx_buffers' = [i \in RxSlot |-> IF i < n THEN f[i] ELSE NULL]
    /\ rx_ring' = [i \in RxSlot |-> IF i < n THEN Posted(f[i], i) ELSE ZeroDesc]
    /\ rx_header' = [b \in Bufs |-> "zero"]

\* b44_init_hw: the receive index follows rx_pending, whatever was posted; the
\* pointer register counts bytes, a descriptor has 8 of them.
InitHwRx(pending) ==
  /\ rx_pending' = pending
  /\ rx_prod' = pending
  /\ dmarx_ptr' = pending \div 8
  /\ dmarx_cur' = 0
  /\ dma_on' = TRUE

\* (rx_cons keeps its value over the reset)
MutRestartRx(pending) ==
  /\ LockFree
  /\ init_complete
  /\ RxQuiet
  /\ FillRxRing(pending)
  /\ InitHwRx(pending)
  /\ UNCHANGED <<rx_cons, rx_call, lock, init_complete>>

\* b44_halt; b44_init_rings; b44_init_hw.
RestartRx(pending) ==
  /\ LockFree
  /\ init_complete
  /\ RxQuiet
  /\ FillRxRing(pending)
  /\ InitHwRx(pending)
  /\ rx_cons' = 0
  /\ UNCHANGED <<rx_call, lock, init_complete>>

\* b44_poll on an error, b44_tx_timeout, b44_change_mtu, b44_set_pauseparam.
RxRestart == RestartRx(rx_pending)

\* b44_set_ringparam.
RxSetRing(p) ==
  /\ "resize" \in Env
  /\ p \in RxPendings
  /\ RestartRx(p)

\* b44_halt; b44_free_rings: the descriptors stay as they are.
ShutdownRx ==
  /\ LockFree
  /\ init_complete
  /\ FreeRxRing
  /\ rx_prod' = 0 /\ rx_cons' = 0
  /\ dmarx_ptr' = 0 /\ dmarx_cur' = 0
  /\ dma_on' = FALSE
  /\ UNCHANGED <<rx_pending, rx_ring, rx_header, rx_call, lock>>

\* b44_close: the stack has waited for the poll to end.
RxClose ==
  /\ "close" \in Env
  /\ ~InLoop
  /\ ShutdownRx
  /\ init_complete' = FALSE

RxSuspend ==
  /\ "sleep" \in Env
  /\ RxQuiet
  /\ ShutdownRx
  /\ UNCHANGED init_complete

\* b44_open and b44_resume: no b44_halt before b44_init_hw, and rx_cons is only
\* cleared if the core was found up.
InitRx(cold) ==
  /\ LockFree
  /\ cold => "cold" \in Env
  /\ RxQuiet
  /\ FillRxRing(rx_pending)
  /\ InitHwRx(rx_pending)
  /\ rx_cons' = (IF cold THEN rx_cons ELSE 0)
  /\ init_complete' = TRUE
  /\ UNCHANGED <<rx_call, lock>>

RxOpen(cold) == ~init_complete /\ InitRx(cold)

RxResume(cold) == "sleep" \in Env /\ init_complete /\ InitRx(cold)

-----------------------------------------------------------------------------
RxInit ==
  /\ ChipInit
  /\ rx_prod = 0 /\ rx_cons = 0
  /\ rx_pending = RxDefPending
  /\ rx_buffers = [i \in RxSlot |-> NULL]
  /\ rx_ring = [i \in RxSlot |-> ZeroDesc]
  /\ rx_header = [b \in Bufs |-> "zero"]
  /\ dmarx_ptr = 0 /\ dmarx_cur = 0
  /\ rx_call = NoCall

\* Steps of the rest of the driver: the transmit half leaks the lock if a packet
\* lies too high, and dies with it if the chip restarted from other indices.
RxOthers ==
  /\ \/ LockTaken({"irq"})
     \/ "highmem" \in Env /\ LockTaken({"leaked"})
     \/ "cold" \in Env /\ LockTaken({"dead"})
     \/ IrqUnlocks
  /\ UNCHANGED rxvars

RxNext ==
  \/ \E budget \in RxBudgets : RxBegin(budget)
  \/ RxPacket
  \/ RxEnd
  \/ \E kind \in FrameKinds : HwRx(kind)
  \/ RxRestart
  \/ \E p \in RxPendings : RxSetRing(p)
  \/ RxClose
  \/ RxSuspend
  \/ \E cold \in BOOLEAN : RxOpen(cold)
  \/ \E cold \in BOOLEAN : RxResume(cold)
  \/ RxOthers

RxSpec == RxInit /\ [][RxNext]_<<rxvars, chipvars>>

-----------------------------------------------------------------------------
RxTypeOK ==
  /\ ChipTypeOK
  /\ rx_prod \in RxSlot /\ rx_cons \in RxSlot
  /\ rx_pending \in RxPendings \cup {RxDefPending}
  /\ rx_buffers \in [RxSlot -> Bufs \cup {NULL}]
  /\ rx_ring \in [RxSlot -> Desc]
  /\ rx_header \in [Bufs -> FrameKinds]
  /\ dmarx_ptr \in RxSlot /\ dmarx_cur \in RxSlot
  /\ \/ rx_call = NoCall
     \/ rx_call \in [pc : {"loop", "oops"}, cons : RxSlot, prod : RxSlot, budget : Nat]

\* The first slot the driver has not yet dealt with.
RxFirst == IF InLoop THEN rx_call.cons ELSE rx_cons

\* Exactly the slots from the one b44_rx looks at next up to rx_prod hold a
\* buffer, and their descriptors point to it.
RxPostedExactly ==
  /\ \A i \in RxSlot : rx_buffers[i] # NULL <=> i \in RxBetween(RxFirst, rx_prod)
  /\ \A i \in RxBetween(RxFirst, rx_prod) : rx_ring[i].addr = rx_buffers[i]

\* b44_init_rings ran out of memory at slot h: the slots before it are exact,
\* and the chip, which has not passed h, stops there.
RxHoleAhead ==
  \E h \in 0 .. (rx_pending - 1) :
    /\ rx_ring[h].addr = NULL
    /\ RxFirst <= dmarx_cur /\ dmarx_cur <= h
    /\ \A i \in RxSlot : RxFirst <= i /\ i < h =>
         rx_buffers[i] # NULL /\ rx_ring[i].addr = rx_buffers[i]

(***************************************************************************)
(* No buffer is in two slots, and the slots posted are exactly those the   *)
(* driver's indices say, each descriptor pointing to the slot's buffer:    *)
(* refilling by index (b44_rx) and by count (b44_init_rings, b44_init_hw)  *)
(* agree, across every reset.  Only an allocation that fails at start-up   *)
(* leaves a hole, and then everything up to the hole is exact.             *)
(***************************************************************************)
RxRingExact ==
  /\ \A i, j \in RxSlot : rx_buffers[i] # NULL /\ rx_buffers[i] = rx_buffers[j] => i = j
  /\ RxPostedExactly \/ ("nomem" \in Env /\ RxHoleAhead)

\* b44_rx never meets a slot without a buffer among those the chip reports
\* filled, even when allocations fail: no null pointer is followed.
RxNoOops == rx_call.pc # "oops"

\* The slots filled by the chip and not yet dealt with.
RxFilled == (dmarx_cur - RxFirst) % RxRingSize

\* The descriptor the chip uses next is one posted for it.
RxNextIsPosted ==
  rx_ring[dmarx_cur].addr # NULL => rx_buffers[dmarx_cur] = rx_ring[dmarx_cur].addr

(***************************************************************************)
(* As long as fewer than rx_pending frames wait for b44_rx, the chip only  *)
(* writes into a buffer the driver holds for it: the descriptor it may use *)
(* next is not one left behind by a buffer that has moved on or gone to    *)
(* the stack.                                                              *)
(***************************************************************************)
RxPostedWithin == RxMayFill /\ RxFilled < rx_pending => RxNextIsPosted

(***************************************************************************)
(* b44.h calls B44_DMARX_PTR the last posted descriptor: the chip stays    *)
(* within what is posted however many frames wait.  b44_rx writes the      *)
(* index it has read up to instead, and the chip runs past rx_prod.        *)
(***************************************************************************)
RxChipWritesPosted == RxMayFill => RxNextIsPosted

RxQueueOf ==
  [k \in 1 .. RxFilled |-> rx_buffers[(RxFirst + k - 1) % RxRingSize]]

RxQueue == INSTANCE PacketQueue WITH
  Packets <- Bufs, Capacity <- RxRingSize - 1, q <- RxQueueOf

\* b44_rx keeps up: no more frames wait than buffers were posted.
RxInTime == RxFilled <= rx_pending

\* While b44_rx keeps up, the chip and b44_rx share the filled slots as a
\* first-in first-out queue, whatever the limit and across its changes: frames
\* are looked at once each and in the order they came in.
RxFifo == RxQueue!Init /\ [][RxInTime /\ RxInTime' => RxQueue!Next]_RxQueueOf

\* No frame waits in the ring for ever: over and over the ring is empty, or
\* b44_rx moves on to the next slot, and slots are dealt with in order (RxFifo).
RxFrameConsumed == []<>(RxFilled = 0) \/ []<><<RxFirst' # RxFirst>>_<<rxvars, chipvars>>
=============================================================================
