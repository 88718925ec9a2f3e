------------------------------ MODULE B44Chip ------------------------------
(***************************************************************************)
(* State that the transmit half and the receive half of the b44 Ethernet   *)
(* driver (drivers/net/b44.c) share: the driver's spinlock, whether the    *)
(* device is open, and whether the DMA engines of the chip run.            *)
(*                                                                         *)
(* Every handler that takes bp->lock for its whole body is one atomic      *)
(* step of the model, guarded by LockFree.  The lock is nevertheless a     *)
(* variable: one handler holds it over two steps, and some error paths end *)
(* without giving it back.                                                 *)
(***************************************************************************)
CONSTANTS
  NULL,           \* the C null pointer: an empty slot, a zeroed descriptor
  Env             \* what the machine and its administrator may do

(***************************************************************************)
(* "highmem"  packets may lie above 1GB, out of the chip's reach           *)
(* "close"    the device may be closed, and opened again                   *)
(* "mtu"      a new MTU or a new pause setting may be set while it is open *)
(* "cold"     the chip may lose power while the machine sleeps             *)
(* "timeout"  the watchdog may find the queue stopped for too long         *)
(* "resize"   ethtool may change the ring limits of an open device         *)
(* "sleep"    the machine may be suspended and resumed                     *)
(* "closed"   ethtool may be used on a device that is not open             *)
(* "nomem"    an allocation of a receive buffer may fail                   *)
(* "smp"      more than one processor runs the driver                      *)
(***************************************************************************)
EnvOptions ==
  {"highmem", "close", "mtu", "cold", "timeout", "resize", "sleep", "closed", "nomem",
   "smp"}

ASSUME EnvAssumption == Env \subseteq EnvOptions

VARIABLES
  lock,           \* bp->lock
  init_complete,  \* B44_FLAG_INIT_COMPLETE: b44_open done, b44_close not yet
  dma_on          \* DMATX_CTRL_ENABLE, DMARX_CTRL_ENABLE and ENET_CTRL_ENABLE

chipvars == <<lock, init_complete, dma_on>>

(***************************************************************************)
(* "free"    nobody holds bp->lock                                         *)
(* "irq"     b44_interrupt holds it                                        *)
(* "leaked"  b44_start_xmit returned NETDEV_TX_BUSY without unlocking      *)
(* "dead"    the holder died in BUG() or on a null pointer                 *)
(***************************************************************************)
LockStates == {"free", "irq", "leaked", "dead"}

LockFree == lock = "free"

ChipTypeOK ==
  /\ lock \in LockStates
  /\ init_complete \in BOOLEAN
  /\ dma_on \in BOOLEAN

(***************************************************************************)
(* What one half of the driver sees of the rest of it: the lock is taken,  *)
(* with one of these outcomes, and given back by the interrupt handler.    *)
(***************************************************************************)
LockTaken(outcomes) ==
  /\ LockFree
  /\ lock' \in outcomes
  /\ UNCHANGED <<init_complete, dma_on>>

IrqUnlocks ==
  /\ lock = "irq"
  /\ lock' = "free"
  /\ UNCHANGED <<init_complete, dma_on>>

ChipInit == lock = "free" /\ init_complete = FALSE /\ dma_on = FALSE
=============================================================================
