------------------------------- MODULE B44Tx -------------------------------
(***************************************************************************)
(* The transmit ring of the b44 driver: b44_start_xmit posts packets,      *)
(* the chip sends them, b44_tx reclaims them, and the reset paths throw    *)
(* them away.  Who calls these operations, and when, is the business of    *)
(* module B44; here each may be called whenever bp->lock is free.          *)
(***************************************************************************)
EXTENDS B44Chip, Integers, FiniteSets

CONSTANTS
  TxRingSize,     \* B44_TX_RING_SIZE, a power of two (512 in the driver)
  U32,            \* one more than the largest u32; only its size relative
                  \* to the ring matters
  TxPendings,     \* the values ethtool may set bp->tx_pending to
  Skbs            \* the packets the network stack owns or hands over

ASSUME TxAssumption ==
  /\ TxRingSize \in Nat \ {0}
  /\ U32 \in Nat /\ TxRingSize < U32
  /\ TxPendings \subseteq 0 .. (TxRingSize - 1)
  /\ NULL \notin Skbs

VARIABLES
  tx_prod,        \* bp->tx_prod: next slot to post
  tx_cons,        \* bp->tx_cons: oldest slot not yet reclaimed
  tx_pending,     \* bp->tx_pending: how many slots may be in use
  tx_buffers,     \* bp->tx_buffers[].skb
  tx_owned,       \* the packets the driver took and has not yet freed
  queue_stopped,  \* netif_queue_stopped(dev)
  waking,         \* b44_tx_timeout has unlocked and not yet woken the queue
  dmatx_ptr,      \* B44_DMATX_PTR, in descriptors
  dmatx_cur       \* current descriptor in B44_DMATX_STAT

txring == <<tx_prod, tx_cons, tx_pending, tx_buffers, tx_owned, dmatx_ptr, dmatx_cur>>
txvars == <<txring, queue_stopped, waking>>

TxSlot == 0 .. (TxRingSize - 1)

\* (A definition whose name begins with "Mut" is a mutation of the definition
\* that follows it: what a plausible slip in that code would have written.)
MutNEXT_TX(n) == n + 1

NEXT_TX(n) == (n + 1) % TxRingSize

MutTX_RING_GAP == TxRingSize - tx_pending - 1

TX_RING_GAP == TxRingSize - tx_pending

TX_BUFFS_AVAIL ==
  (IF tx_cons <= tx_prod
   THEN tx_cons + tx_pending - tx_prod
   ELSE tx_cons - tx_prod - TX_RING_GAP) % U32

MutB44_TX_WAKEUP_THRESH == TxRingSize \div 2

B44_TX_WAKEUP_THRESH == TxRingSize \div 4

\* The slots a loop "for (i = a; i != b; i = NEXT_TX(i))" visits.
TxBetween(a, b) ==
  IF a <= b THEN a .. (b - 1) ELSE TxSlot \ (b .. (a - 1))

-----------------------------------------------------------------------------
\* b44_start_xmit.  The stack calls it with dev->xmit_lock held, which the
\* watchdog also holds around b44_tx_timeout, and only while the queue is awake.

XmitCalled(s) ==
  /\ LockFree
  /\ init_complete
  /\ ~queue_stopped
  /\ ~waking
  /\ s \in Skbs \ tx_owned

\* "BUG! Tx Ring full when queue awake!": stop the queue, refuse the packet.
StartXmitFull(s) ==
  /\ XmitCalled(s)
  /\ TX_BUFFS_AVAIL < 1
  /\ queue_stopped' = TRUE
  /\ UNCHANGED <<txring, waking, chipvars>>

\* Post packet p: store it, advance tx_prod, tell the chip, and stop the
\* queue if that was the last free slot.
\* (no stop when the ring fills; no write of DMATX_PTR)
MutPostTx_NoStop(p) ==
  /\ tx_buffers' = [tx_buffers EXCEPT ![tx_prod] = p]
  /\ tx_owned' = tx_owned \cup {p}
  /\ tx_prod' = NEXT_TX(tx_prod)
  /\ dmatx_ptr' = NEXT_TX(tx_prod)
  /\ UNCHANGED <<tx_cons, tx_pending, dmatx_cur, queue_stopped, waking, chipvars>>

PostTx(p) ==
  /\ tx_buffers' = [tx_buffers EXCEPT ![tx_prod] = p]
  /\ tx_owned' = tx_owned \cup {p}
  /\ tx_prod' = NEXT_TX(tx_prod)
  /\ dmatx_ptr' = NEXT_TX(tx_prod)
  /\ UNCHANGED <<tx_cons, tx_pending, dmatx_cur>>
  /\ queue_stopped' = (TX_BUFFS_AVAIL' < 1)
  /\ UNCHANGED <<waking, chipvars>>

StartXmit(s) ==
  /\ XmitCalled(s)
  /\ TX_BUFFS_AVAIL >= 1
  /\ PostTx(s)

\* The packet lies above 1GB: a bounce buffer b takes its place and the
\* original is freed.
StartXmitBounce(s, b) ==
  /\ "highmem" \in Env
  /\ XmitCalled(s)
  /\ TX_BUFFS_AVAIL >= 1
  /\ b \in Skbs \ (tx_owned \cup {s})
  /\ PostTx(b)

\* No usable bounce buffer: return NETDEV_TX_BUSY, with bp->lock still held.
StartXmitNoBounce(s) ==
  /\ "highmem" \in Env
  /\ XmitCalled(s)
  /\ TX_BUFFS_AVAIL >= 1
  /\ lock' = "leaked"
  /\ UNCHANGED <<init_complete, dma_on, txvars>>

-----------------------------------------------------------------------------
\* b44_tx: free every packet the chip is done with, and wake the queue once
\* enough slots are free.  An empty slot among them is a BUG(), which kills
\* the caller while it holds bp->lock.

b44_tx ==
  LET done == TxBetween(tx_cons, dmatx_cur) IN
  /\ LockFree
  /\ init_complete
  /\ IF \E i \in done : tx_buffers[i] = NULL
     THEN /\ lock' = "dead"
          /\ UNCHANGED <<init_complete, dma_on, txvars>>
     ELSE /\ tx_buffers' = [i \in TxSlot |-> IF i \in done THEN NULL ELSE tx_buffers[i]]
          /\ tx_owned' = tx_owned \ {tx_buffers[i] : i \in done}
          /\ tx_cons' = dmatx_cur
          /\ UNCHANGED <<tx_prod, tx_pending, dmatx_ptr, dmatx_cur>>
          /\ queue_stopped' = (queue_stopped /\ ~(TX_BUFFS_AVAIL' > B44_TX_WAKEUP_THRESH))
          /\ UNCHANGED <<waking, chipvars>>

\* The chip sends the packet of the current descriptor and moves on, up to
\* the posted pointer.
HwTx ==
  /\ dma_on
  /\ dmatx_cur # dmatx_ptr
  /\ dmatx_cur' = NEXT_TX(dmatx_cur)
  /\ UNCHANGED <<tx_prod, tx_cons, tx_pending, tx_buffers, tx_owned, dmatx_ptr>>
  /\ UNCHANGED <<queue_stopped, waking, chipvars>>

-----------------------------------------------------------------------------
\* Resets.

\* b44_free_rings: every packet in the ring is freed.
\* (the slots keep their dangling pointers)
MutFreeTxRing ==
  /\ tx_owned' = tx_owned \ {tx_buffers[i] : i \in TxSlot}
  /\ UNCHANGED tx_buffers

FreeTxRing ==
  /\ tx_buffers' = [i \in TxSlot |-> NULL]
  /\ tx_owned' = tx_owned \ {tx_buffers[i] : i \in TxSlot}

\* b44_chip_reset: the core restarts with its DMA registers cleared, the
\* indices are only cleared if the core was found up.
\* (tx_cons keeps its value over the reset)
MutChipResetTx(up) ==
  /\ tx_prod' = 0
  /\ dmatx_ptr' = 0
  /\ dmatx_cur' = 0
  /\ UNCHANGED tx_cons

ChipResetTx(up) ==
  /\ IF up THEN tx_prod' = 0 /\ tx_cons' = 0 ELSE UNCHANGED <<tx_prod, tx_cons>>
  /\ dmatx_ptr' = 0
  /\ dmatx_cur' = 0

\* b44_halt; b44_init_rings; b44_init_hw.
RestartTx ==
  /\ LockFree
  /\ init_complete
  /\ ChipResetTx(TRUE)
  /\ FreeTxRing
  /\ dma_on' = TRUE
  /\ UNCHANGED <<lock, init_complete>>

\* The error path of b44_poll: restart and wake the queue.
TxErrorRestart ==
  /\ RestartTx
  /\ queue_stopped' = FALSE
  /\ UNCHANGED <<tx_pending, waking>>

\* b44_set_ringparam: take the new limit, restart and wake the queue.
TxSetRing(p) ==
  /\ "resize" \in Env
  /\ p \in TxPendings
  /\ RestartTx
  /\ tx_pending' = p
  /\ queue_stopped' = FALSE
  /\ UNCHANGED waking

\* b44_change_mtu and, with autonegotiated pause, b44_set_pauseparam:
\* restart and leave the queue as it is.
TxSilentRestart ==
  /\ "mtu" \in Env
  /\ RestartTx
  /\ UNCHANGED <<tx_pending, queue_stopped, waking>>

\* b44_tx_timeout up to its unlock, and its netif_wake_queue.
TxTimeout ==
  /\ "timeout" \in Env
  /\ ~waking
  /\ RestartTx
  /\ waking' = TRUE
  /\ UNCHANGED <<tx_pending, queue_stopped>>

TxTimeoutWake ==
  /\ waking
  /\ waking' = FALSE
  /\ queue_stopped' = FALSE
  /\ UNCHANGED <<txring, chipvars>>

\* The first statement of b44_close, and b44_close under the lock: b44_halt,
\* b44_free_rings, and the device is no longer open.
TxStopQueue ==
  /\ "close" \in Env
  /\ init_complete
  /\ queue_stopped' = TRUE
  /\ UNCHANGED <<txring, waking, chipvars>>

TxClose ==
  /\ "close" \in Env
  /\ LockFree
  /\ init_complete
  /\ ChipResetTx(TRUE)
  /\ FreeTxRing
  /\ init_complete' = FALSE
  /\ dma_on' = FALSE
  /\ UNCHANGED <<tx_pending, queue_stopped, waking, lock>>

\* b44_suspend: b44_halt, stop the queue (netif_device_detach), b44_free_rings.
TxSuspend ==
  /\ "sleep" \in Env
  /\ LockFree
  /\ init_complete
  /\ ChipResetTx(TRUE)
  /\ FreeTxRing
  /\ dma_on' = FALSE
  /\ queue_stopped' = TRUE
  /\ UNCHANGED <<tx_pending, waking, lock, init_complete>>

\* b44_open and b44_resume: b44_init_rings and b44_init_hw without b44_halt
\* before them, which may find the core down.  Only b44_resume wakes the queue
\* (netif_device_attach).
InitTx(cold) ==
  /\ LockFree
  /\ cold => "cold" \in Env
  /\ ChipResetTx(~cold)
  /\ FreeTxRing
  /\ dma_on' = TRUE
  /\ init_complete' = TRUE
  /\ UNCHANGED <<tx_pending, waking, lock>>

TxOpen(cold) ==
  /\ ~init_complete
  /\ InitTx(cold)
  /\ UNCHANGED queue_stopped

TxResume(cold) ==
  /\ "sleep" \in Env
  /\ init_complete
  /\ InitTx(cold)
  /\ queue_stopped' = FALSE

-----------------------------------------------------------------------------
\* b44_init_one leaves the device closed, its queue awake, and tx_pending at
\* B44_DEF_TX_RING_PENDING.
TxInit ==
  /\ ChipInit
  /\ tx_prod = 0 /\ tx_cons = 0
  /\ tx_pending = TxRingSize - 1
  /\ tx_buffers = [i \in TxSlot |-> NULL]
  /\ tx_owned = {}
  /\ queue_stopped = FALSE
  /\ waking = FALSE
  /\ dmatx_ptr = 0 /\ dmatx_cur = 0

TxXmit ==
  \E s \in Skbs :
    \/ StartXmit(s)
    \/ StartXmitFull(s)
    \/ StartXmitNoBounce(s)
    \/ \E b \in Skbs : StartXmitBounce(s, b)

\* Steps of the rest of the driver.
TxOthers == (LockTaken({"irq"}) \/ IrqUnlocks) /\ UNCHANGED txvars

TxNext ==
  \/ TxXmit
  \/ b44_tx
  \/ HwTx
  \/ TxErrorRestart
  \/ \E p \in TxPendings : TxSetRing(p)
  \/ TxSilentRestart
  \/ TxTimeout
  \/ TxTimeoutWake
  \/ TxStopQueue
  \/ TxClose
  \/ TxSuspend
  \/ \E cold \in BOOLEAN : TxResume(cold)
  \/ \E cold \in BOOLEAN : TxOpen(cold)
  \/ TxOthers

TxSpec == TxInit /\ [][TxNext]_<<txvars, chipvars>>

\* The chip works through what it is given; its interrupts lead to b44_tx as
\* long as there is something to reclaim, and the interrupt handler, which masks
\* its own source, does not keep the lock from it for ever; b44_tx_timeout runs
\* to its end.
TxFairSpec ==
  /\ TxSpec
  /\ WF_txvars(HwTx)
  /\ SF_txvars(dmatx_cur # tx_cons /\ b44_tx)
  /\ WF_txvars(TxTimeoutWake)
  /\ WF_chipvars(TxOthers /\ IrqUnlocks)

-----------------------------------------------------------------------------
TxTypeOK ==
  /\ ChipTypeOK
  /\ tx_prod \in TxSlot /\ tx_cons \in TxSlot
  /\ tx_pending \in TxPendings \cup {TxRingSize - 1}
  /\ tx_buffers \in [TxSlot -> Skbs \cup {NULL}]
  /\ tx_owned \subseteq Skbs
  /\ queue_stopped \in BOOLEAN /\ waking \in BOOLEAN
  /\ dmatx_ptr \in TxSlot /\ dmatx_cur \in TxSlot

\* How many slots hold a packet.
TxInFlight == (tx_prod - tx_cons) % TxRingSize

(***************************************************************************)
(* No slot leaks or dangles: exactly the slots from tx_cons up to tx_prod  *)
(* hold a packet, no packet is in two of them, the driver owes the stack   *)
(* exactly those packets, and the chip stays between the two indices.      *)
(* This is what b44_tx (which frees by index) and b44_free_rings (which    *)
(* frees by content) must agree on, across every reset.                    *)
(***************************************************************************)
TxRingExact ==
  /\ \A i \in TxSlot : tx_buffers[i] # NULL <=> i \in TxBetween(tx_cons, tx_prod)
  /\ \A i, j \in TxBetween(tx_cons, tx_prod) : tx_buffers[i] = tx_buffers[j] => i = j
  /\ tx_owned = {tx_buffers[i] : i \in TxBetween(tx_cons, tx_prod)}
  /\ dmatx_ptr = tx_prod
  /\ dmatx_cur \in TxBetween(tx_cons, tx_prod) \cup {tx_prod}

(***************************************************************************)
(* The TX_BUFFS_AVAIL macro never underflows its u32: no more than         *)
(* tx_pending slots are in use, also after ethtool lowers the limit.       *)
(***************************************************************************)
TxBounded ==
  /\ TxInFlight <= tx_pending
  /\ TX_BUFFS_AVAIL = tx_pending - TxInFlight

\* The BUG() of b44_tx, on an empty slot the chip claims to have sent, is
\* never reached.
TxNoBug == lock # "dead"

\* b44_start_xmit never logs "BUG! Tx Ring full when queue awake!".
TxAwakeHasRoom == ~queue_stopped => TX_BUFFS_AVAIL >= 1

\* A stopped queue of a running device has a packet in flight, whose
\* completion will wake it: nobody has to wait for the watchdog.
TxStoppedHasWork == dma_on /\ queue_stopped /\ ~waking => tx_cons # tx_prod

\* Flow control: the flag of the queue, which the driver sets and clears in four
\* places, and the state of the ring never contradict each other.
TxFlowControl == TxAwakeHasRoom /\ TxStoppedHasWork

\* b44_start_xmit gives bp->lock back on every return path.
TxLockReturned == lock # "leaked"

\* A stopped queue is woken again while the device runs, without the
\* watchdog's help: fairness is assumed of the chip and of b44_tx alone.
TxQueueWoken == (dma_on /\ queue_stopped) ~> (~queue_stopped \/ ~dma_on)

(***************************************************************************)
(* The ring implements a bounded first-in first-out queue.                 *)
(***************************************************************************)
TxQueueOf ==
  [k \in 1 .. TxInFlight |-> tx_buffers[(tx_cons + k - 1) % TxRingSize]]

TxQueue == INSTANCE PacketQueue WITH
  Packets <- Skbs, Capacity <- TxRingSize - 1, q <- TxQueueOf

\* b44_start_xmit, b44_tx and the resets act on the packets in flight as
\* Take, Complete and Flush do on a queue.
TxFifo == TxQueue!Spec
=============================================================================
