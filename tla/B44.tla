-------------------------------- MODULE B44 --------------------------------
(***************************************************************************)
(* The b44 driver as a whole: the transmit ring (B44Tx) and the receive    *)
(* ring (B44Rx) under their real callers, the interrupt handler, the NAPI  *)
(* poll, the transmit watchdog, the link timer, and the administrator who  *)
(* opens, closes, reconfigures, suspends and resumes the device.           *)
(*                                                                         *)
(* An operation that takes bp->lock is one step up to its unlock; what it  *)
(* does afterwards (b44_enable_ints, mostly) is a step of its own, since   *)
(* that is where the other actors get in.                                  *)
(***************************************************************************)
EXTENDS B44Tx, B44Rx

VARIABLES
  istat,        \* B44_ISTAT, the events the chip has raised
  imask,        \* B44_IMASK # 0
  bp_istat,     \* bp->istat, the events the scheduled poll is for
  irq_istat,    \* what b44_interrupt read, until it acknowledges it
  irq_on,       \* request_irq done, free_irq not yet
  running,      \* netif_running(dev), __LINK_STATE_START
  present,      \* netif_device_present(dev)
  rx_sched,     \* __LINK_STATE_RX_SCHED: b44_poll is on the poll list
  poll,         \* where the call of b44_poll is
  poll_done,    \* its local variable done
  poll_tail,    \* b44_poll has called netif_rx_complete, not yet b44_enable_ints
  wd,           \* where the call of b44_tx_timeout is
  timer,        \* bp->timer
  adm           \* where the administrator's operation is

irqvars == <<istat, imask, bp_istat, irq_istat, irq_on>>
netvars == <<running, present>>
pollvars == <<rx_sched, poll, poll_done, poll_tail>>
ctxvars == <<wd, timer, adm>>
ringvars == <<txvars, rxvars, chipvars>>
vars == <<ringvars, irqvars, netvars, pollvars, ctxvars>>

(***************************************************************************)
(* The interrupt sources of IMASK_DEF: ISTAT_TX (with ISTAT_TO, which      *)
(* b44_poll treats alike), ISTAT_RX, and ISTAT_ERRORS.                     *)
(***************************************************************************)
Events == {"TX", "RX", "ERR"}

SMP == "smp" \in Env

\* On one processor the interrupt handler runs to its end before anything else
\* of the driver, and a softirq (poll, watchdog, timer) before other softirqs
\* and process context.
CpuFree == SMP \/ lock # "irq"
SoftirqBusy == poll # "idle" \/ poll_tail \/ wd # "idle" \/ timer = "running"
MayStart == SMP \/ (lock # "irq" /\ ~SoftirqBusy)

-----------------------------------------------------------------------------
\* The chip.
Raise(e) == istat' = istat \cup {e} /\ UNCHANGED <<imask, bp_istat, irq_istat, irq_on>>

ChipTx ==
  /\ HwTx
  /\ Raise("TX")
  /\ UNCHANGED <<rxvars, netvars, pollvars, ctxvars>>

ChipRx(kind) ==
  /\ HwRx(kind)
  /\ Raise("RX")
  /\ UNCHANGED <<txvars, netvars, pollvars, ctxvars>>

ChipError ==
  /\ dma_on
  /\ Raise("ERR")
  /\ UNCHANGED <<ringvars, netvars, pollvars, ctxvars>>

-----------------------------------------------------------------------------
\* b44_interrupt, up to the acknowledgement and from there on.  (The netpoll
\* entry b44_poll_controller calls it with the interrupt line disabled.)

\* (the interrupts are left enabled)
MutIrqEnter ==
  /\ irq_on
  /\ imask
  /\ istat # {}
  /\ LockTaken({"irq"})
  /\ irq_istat' = istat
  /\ IF running /\ ~rx_sched
     THEN bp_istat' = istat /\ rx_sched' = TRUE
     ELSE UNCHANGED <<bp_istat, rx_sched>>
  /\ UNCHANGED <<imask, istat, irq_on, poll, poll_done, poll_tail, txvars, rxvars, netvars, ctxvars>>

IrqEnter ==
  /\ irq_on
  /\ imask
  /\ istat # {}
  /\ LockTaken({"irq"})
  /\ irq_istat' = istat
  /\ IF running /\ ~rx_sched
     THEN bp_istat' = istat /\ imask' = FALSE /\ rx_sched' = TRUE
     ELSE UNCHANGED <<bp_istat, imask, rx_sched>>
  /\ UNCHANGED <<istat, irq_on, poll, poll_done, poll_tail, txvars, rxvars, netvars, ctxvars>>

\* (every event is acknowledged, not only those that were read)
MutIrqAck ==
  /\ IrqUnlocks
  /\ istat' = {}
  /\ irq_istat' = {}
  /\ UNCHANGED <<imask, bp_istat, irq_on, txvars, rxvars, netvars, pollvars, ctxvars>>

IrqAck ==
  /\ IrqUnlocks
  /\ istat' = istat \ irq_istat
  /\ irq_istat' = {}
  /\ UNCHANGED <<imask, bp_istat, irq_on, txvars, rxvars, netvars, pollvars, ctxvars>>

-----------------------------------------------------------------------------
\* What b44_halt (b44_disable_ints; b44_chip_reset) and the b44_chip_reset of
\* b44_init_hw do to the interrupt registers: a reset core has its interrupts
\* masked and has forgotten the events it had raised.
ResetIrq ==
  /\ imask' = FALSE
  /\ istat' = {}
  /\ UNCHANGED <<bp_istat, irq_istat, irq_on>>

EnableInts ==
  /\ imask' = TRUE
  /\ UNCHANGED <<istat, bp_istat, irq_istat, irq_on>>

-----------------------------------------------------------------------------
\* b44_poll.

PollTx ==
  /\ MayStart
  /\ LockFree
  /\ rx_sched
  /\ poll = "idle"
  /\ IF "TX" \in bp_istat THEN b44_tx ELSE UNCHANGED <<txvars, chipvars>>
  /\ poll' = "rx"
  /\ poll_done' = TRUE
  /\ UNCHANGED <<rx_sched, poll_tail, rxvars, irqvars, netvars, ctxvars>>

PollRx ==
  /\ CpuFree
  /\ poll = "rx"
  /\ IF "RX" \in bp_istat
     THEN /\ \E budget \in RxBudgets : RxBegin(budget)
          /\ poll' = "loop"
     ELSE /\ poll' = "err"
          /\ UNCHANGED <<rxvars, chipvars>>
  /\ UNCHANGED <<rx_sched, poll_done, poll_tail, txvars, irqvars, netvars, ctxvars>>

PollRxPacket ==
  /\ CpuFree
  /\ poll = "loop"
  /\ RxPacket
  /\ UNCHANGED <<txvars, irqvars, netvars, pollvars, ctxvars>>

\* A used-up budget means there may be more to do.
PollRxEnd ==
  /\ CpuFree
  /\ poll = "loop"
  /\ RxEnd
  /\ poll' = "err"
  /\ poll_done' = (rx_call.budget > 0)
  /\ UNCHANGED <<rx_sched, poll_tail, txvars, irqvars, netvars, ctxvars>>

\* No error: either the poll is over, or it stays on the poll list.
PollNoErr ==
  /\ CpuFree
  /\ poll = "err"
  /\ "ERR" \notin bp_istat
  /\ poll' = (IF poll_done THEN "complete" ELSE "idle")
  /\ UNCHANGED <<rx_sched, poll_done, poll_tail, ringvars, irqvars, netvars, ctxvars>>

\* An error: restart the chip with empty rings.
PollErr ==
  /\ poll = "err"
  /\ "ERR" \in bp_istat
  /\ TxErrorRestart
  /\ RxRestart
  /\ ResetIrq
  /\ poll' = "complete"
  /\ poll_done' = TRUE
  /\ UNCHANGED <<rx_sched, poll_tail, netvars, ctxvars>>

\* (netif_rx_complete is not called)
MutPollComplete ==
  /\ CpuFree
  /\ poll = "complete"
  /\ ~poll_tail
  /\ poll' = "idle"
  /\ poll_tail' = TRUE
  /\ UNCHANGED <<rx_sched, poll_done, ringvars, irqvars, netvars, ctxvars>>

\* netif_rx_complete, then b44_enable_ints.
PollComplete ==
  /\ CpuFree
  /\ poll = "complete"
  /\ ~poll_tail
  /\ rx_sched' = FALSE
  /\ poll' = "idle"
  /\ poll_tail' = TRUE
  /\ UNCHANGED <<poll_done, ringvars, irqvars, netvars, ctxvars>>

\* (b44_enable_ints is not called)
MutPollEnable ==
  /\ CpuFree
  /\ poll_tail
  /\ poll_tail' = FALSE
  /\ UNCHANGED <<rx_sched, poll, poll_done, ringvars, irqvars, netvars, ctxvars>>

PollEnable ==
  /\ CpuFree
  /\ poll_tail
  /\ EnableInts
  /\ poll_tail' = FALSE
  /\ UNCHANGED <<rx_sched, poll, poll_done, ringvars, netvars, ctxvars>>

-----------------------------------------------------------------------------
\* The stack sends a packet.  dev_activate and dev_deactivate see to it that it
\* only does so between the end of b44_open and the beginning of b44_close.
Xmit ==
  /\ MayStart
  /\ running
  /\ adm \notin {"open", "open_timer", "open_enable"}
  /\ TxXmit
  /\ UNCHANGED <<rxvars, irqvars, netvars, pollvars, ctxvars>>

\* dev_watchdog finds the queue of a running device stopped for too long:
\* b44_tx_timeout up to its unlock, its b44_enable_ints, its netif_wake_queue.
Watchdog ==
  /\ MayStart
  /\ running /\ present /\ queue_stopped
  /\ adm \notin {"open", "open_timer", "open_enable"}
  /\ wd = "idle"
  /\ TxTimeout
  /\ RxRestart
  /\ ResetIrq
  /\ wd' = "enable"
  /\ UNCHANGED <<netvars, pollvars, timer, adm>>

WatchdogEnable ==
  /\ CpuFree
  /\ wd = "enable"
  /\ EnableInts
  /\ wd' = "wake"
  /\ UNCHANGED <<ringvars, netvars, pollvars, timer, adm>>

WatchdogWake ==
  /\ CpuFree
  /\ wd = "wake"
  /\ TxTimeoutWake
  /\ wd' = "idle"
  /\ UNCHANGED <<rxvars, irqvars, netvars, pollvars, timer, adm>>

\* b44_timer: look at the link and the counters under the lock, then set the
\* timer again.
Timer ==
  /\ MayStart
  /\ LockFree
  /\ timer = "armed"
  /\ timer' = "running"
  /\ UNCHANGED <<ringvars, irqvars, netvars, pollvars, wd, adm>>

TimerRearm ==
  /\ CpuFree
  /\ timer = "running"
  /\ timer' = "armed"
  /\ UNCHANGED <<ringvars, irqvars, netvars, pollvars, wd, adm>>

-----------------------------------------------------------------------------
\* The administrator: one operation at a time (rtnl_lock).

AdmStep(from, to) ==
  /\ MayStart
  /\ adm = from
  /\ adm' = to

\* dev_open; b44_open: the interrupt is requested before the chip is set up.
Open ==
  /\ AdmStep("idle", "open")
  /\ ~running
  /\ running' = TRUE
  /\ irq_on' = TRUE
  /\ UNCHANGED <<present, istat, imask, bp_istat, irq_istat, ringvars, pollvars, wd, timer>>

\* No memory for the rings, or no interrupt line.
OpenFails ==
  /\ AdmStep("open", "idle")
  /\ running' = FALSE
  /\ irq_on' = FALSE
  /\ UNCHANGED <<present, istat, imask, bp_istat, irq_istat, ringvars, pollvars, wd, timer>>

OpenLocked(cold) ==
  /\ AdmStep("open", "open_timer")
  /\ TxOpen(cold)
  /\ RxOpen(cold)
  /\ ResetIrq
  /\ UNCHANGED <<netvars, pollvars, wd, timer>>

OpenTimer ==
  /\ AdmStep("open_timer", "open_enable")
  /\ timer' = "armed"
  /\ UNCHANGED <<ringvars, irqvars, netvars, pollvars, wd>>

\* The b44_enable_ints at the end of b44_open, b44_resume, b44_change_mtu,
\* b44_set_ringparam and b44_set_pauseparam.
AdmEnable ==
  /\ \/ AdmStep("open_enable", "idle")
     \/ AdmStep("enable", "idle")
  /\ EnableInts
  /\ UNCHANGED <<ringvars, netvars, pollvars, wd, timer>>

\* dev_close waits for senders and the watchdog, and clears netif_running...
Close ==
  /\ "close" \in Env
  /\ AdmStep("idle", "close")
  /\ running
  /\ wd = "idle"
  /\ running' = FALSE
  /\ UNCHANGED <<present, ringvars, irqvars, pollvars, wd, timer>>

\* (the poll is not waited for)
MutCloseStop ==
  /\ AdmStep("close", "close_timer")
  /\ TxStopQueue
  /\ UNCHANGED <<rxvars, irqvars, netvars, pollvars, wd, timer>>

\* ... waits for the poll, and calls b44_close.
CloseStop ==
  /\ AdmStep("close", "close_timer")
  /\ ~rx_sched
  /\ TxStopQueue
  /\ UNCHANGED <<rxvars, irqvars, netvars, pollvars, wd, timer>>

\* (the handler is waited for, but the timer is left armed)
MutDelTimerSync ==
  /\ timer # "running"
  /\ timer' = timer

\* del_timer_sync waits for the handler.
DelTimerSync ==
  /\ timer # "running"
  /\ timer' = "off"

CloseTimer ==
  /\ AdmStep("close_timer", "close_lock")
  /\ DelTimerSync
  /\ UNCHANGED <<ringvars, irqvars, netvars, pollvars, wd>>

\* (one of the two rings is not emptied)
MutCloseLocked_NoTx ==
  /\ AdmStep("close_lock", "close_irq")
  /\ RxClose
  /\ ResetIrq
  /\ UNCHANGED <<txvars, netvars, pollvars, wd, timer>>

MutCloseLocked_NoRx ==
  /\ AdmStep("close_lock", "close_irq")
  /\ TxClose
  /\ ResetIrq
  /\ UNCHANGED <<rxvars, netvars, pollvars, wd, timer>>

CloseLocked ==
  /\ AdmStep("close_lock", "close_irq")
  /\ TxClose
  /\ RxClose
  /\ ResetIrq
  /\ UNCHANGED <<netvars, pollvars, wd, timer>>

\* free_irq waits for the handler; then the rings are freed.
CloseIrq ==
  /\ AdmStep("close_irq", "idle")
  /\ lock # "irq"
  /\ irq_on' = FALSE
  /\ UNCHANGED <<istat, imask, bp_istat, irq_istat, ringvars, netvars, pollvars, wd, timer>>

\* b44_set_ringparam on an open device.
SetRingparam(tx, rx) ==
  /\ AdmStep("idle", "enable")
  /\ TxSetRing(tx)
  /\ RxSetRing(rx)
  /\ ResetIrq
  /\ UNCHANGED <<netvars, pollvars, wd, timer>>

\* b44_change_mtu on a running device; b44_set_pauseparam with autonegotiation.
ChangeMtu ==
  /\ AdmStep("idle", "enable")
  /\ running
  /\ TxSilentRestart
  /\ RxRestart
  /\ ResetIrq
  /\ UNCHANGED <<netvars, pollvars, wd, timer>>

\* b44_set_pauseparam without autonegotiation only sets the flow control; it does
\* not ask whether the device is open before it enables the interrupts.
SetPauseparam ==
  /\ IF init_complete THEN "mtu" \in Env ELSE "closed" \in Env
  /\ AdmStep("idle", "enable")
  /\ LockFree
  /\ UNCHANGED <<ringvars, irqvars, netvars, pollvars, wd, timer>>

\* b44_set_ringparam, or b44_set_pauseparam with autonegotiation, on a device
\* that is not open: b44_free_rings walks rings that do not exist, and its caller
\* dies holding bp->lock and rtnl_lock.
EthtoolClosed ==
  /\ "closed" \in Env
  /\ AdmStep("idle", "dead")
  /\ ~init_complete
  /\ LockTaken({"dead"})
  /\ ResetIrq
  /\ UNCHANGED <<txvars, rxvars, netvars, pollvars, wd, timer>>

\* b44_suspend.
Suspend ==
  /\ "sleep" \in Env
  /\ AdmStep("idle", "suspend")
  /\ running
  /\ DelTimerSync
  /\ UNCHANGED <<ringvars, irqvars, netvars, pollvars, wd>>

SuspendLocked ==
  /\ AdmStep("suspend", "suspended")
  /\ TxSuspend
  /\ RxSuspend
  /\ ResetIrq
  /\ present' = FALSE
  /\ UNCHANGED <<running, pollvars, wd, timer>>

\* b44_resume.
ResumeLocked(cold) ==
  /\ AdmStep("suspended", "resume")
  /\ TxResume(cold)
  /\ RxResume(cold)
  /\ ResetIrq
  /\ present' = TRUE
  /\ UNCHANGED <<running, pollvars, wd, timer>>

ResumeTimer ==
  /\ AdmStep("resume", "enable")
  /\ timer' = "armed"
  /\ UNCHANGED <<ringvars, irqvars, netvars, pollvars, wd>>

-----------------------------------------------------------------------------
Init ==
  /\ TxInit
  /\ RxInit
  /\ istat = {} /\ imask = FALSE /\ bp_istat = {} /\ irq_istat = {}
  /\ irq_on = FALSE
  /\ running = FALSE /\ present = TRUE
  /\ rx_sched = FALSE /\ poll = "idle" /\ poll_done = TRUE /\ poll_tail = FALSE
  /\ wd = "idle" /\ timer = "off" /\ adm = "idle"

Chip ==
  \/ ChipTx
  \/ \E kind \in FrameKinds : ChipRx(kind)
  \/ ChipError

Poll ==
  \/ PollTx
  \/ PollRx
  \/ PollRxPacket
  \/ PollRxEnd
  \/ PollNoErr
  \/ PollErr
  \/ PollComplete
  \/ PollEnable

\* The steps of an operation the administrator has begun.
AdmContinue ==
  \/ \E cold \in BOOLEAN : OpenLocked(cold)
  \/ OpenTimer
  \/ AdmEnable
  \/ CloseStop
  \/ CloseTimer
  \/ CloseLocked
  \/ CloseIrq
  \/ SuspendLocked
  \/ ResumeTimer

AdmBegin ==
  \/ Open
  \/ OpenFails
  \/ Close
  \/ \E tx \in TxPendings, rx \in RxPendings : SetRingparam(tx, rx)
  \/ ChangeMtu
  \/ SetPauseparam
  \/ EthtoolClosed
  \/ Suspend
  \/ \E cold \in BOOLEAN : ResumeLocked(cold)

Softirq ==
  \/ Poll
  \/ WatchdogEnable
  \/ WatchdogWake
  \/ Timer
  \/ TimerRearm

Next ==
  \/ Chip
  \/ IrqEnter
  \/ IrqAck
  \/ Softirq
  \/ Watchdog
  \/ Xmit
  \/ AdmContinue
  \/ AdmBegin

Spec == Init /\ [][Next]_vars

(***************************************************************************)
(* Fairness.  The chip sends what it is given; interrupts are delivered;   *)
(* softirqs and begun operations go on, and are not kept from it for ever  *)
(* by the timer (once a second) or by the interrupts that come in between. *)
(* Nobody has to send, receive, open or close anything, and the watchdog   *)
(* need not fire.                                                          *)
(***************************************************************************)
Fairness ==
  /\ WF_vars(ChipTx)
  /\ WF_vars(IrqEnter)
  /\ WF_vars(IrqAck)
  /\ SF_vars(Poll)
  /\ SF_vars(WatchdogEnable)
  /\ SF_vars(WatchdogWake)
  /\ SF_vars(TimerRearm)
  /\ SF_vars(AdmContinue)

FairSpec == Spec /\ Fairness

-----------------------------------------------------------------------------
TypeOK ==
  /\ TxTypeOK
  /\ RxTypeOK
  /\ istat \subseteq Events /\ bp_istat \subseteq Events /\ irq_istat \subseteq Events
  /\ imask \in BOOLEAN /\ irq_on \in BOOLEAN
  /\ running \in BOOLEAN /\ present \in BOOLEAN
  /\ rx_sched \in BOOLEAN /\ poll_done \in BOOLEAN /\ poll_tail \in BOOLEAN
  /\ poll \in {"idle", "rx", "loop", "err", "complete"}
  /\ wd \in {"idle", "enable", "wake"}
  /\ timer \in {"off", "armed", "running"}
  /\ adm \in {"idle", "open", "open_timer", "open_enable", "enable", "close",
              "close_timer", "close_lock", "close_irq", "suspend", "suspended", "resume", "dead"}

\* While a poll is scheduled or runs the chip's interrupts are masked, so that
\* b44_interrupt never logs "Error, poll already scheduled".
PollMasked == rx_sched => ~imask

\* A packet the chip has sent is reclaimed by a poll that is still to come: its
\* event is either raised or what the scheduled poll is for.  The interrupt
\* handler acknowledges what it read, not what came in since, and the poll that
\* missed a packet leaves its event behind.
TxEventKept ==
  running /\ dma_on /\ dmatx_cur # tx_cons =>
    \/ "TX" \in istat
    \/ rx_sched /\ "TX" \in bp_istat /\ poll = "idle"

\* The same of a frame the chip has received and b44_rx has not looked at.
RxEventKept ==
  running /\ dma_on /\ dmarx_cur # RxFirst =>
    \/ "RX" \in istat
    \/ /\ rx_sched /\ "RX" \in bp_istat
       /\ poll \in {"idle", "rx", "loop"} \/ ~poll_done \/ "ERR" \in bp_istat

\* No event of the chip is lost between the interrupt handler and the poll.
EventsKept == TxEventKept /\ RxEventKept

\* A closed device is quiet: b44_close leaves no timer, no interrupt source, no
\* poll and no buffer behind, whatever was going on when it was called.
ClosedQuiet ==
  ~running /\ adm = "idle" =>
    /\ timer = "off" /\ ~imask /\ ~rx_sched /\ ~SoftirqBusy
    /\ ~dma_on /\ ~init_complete
    /\ tx_owned = {} /\ RxOwned = {}

\* b44_open and b44_resume only ever arm a timer that is not armed
\* (add_timer is a BUG() otherwise).
TimerArmedOnce == adm \in {"open_timer", "resume"} => timer = "off"

\* The driver is only told to stop when its poll is no longer running.
StopAfterPoll ==
  adm \in {"close_timer", "close_lock", "close_irq"} =>
    ~rx_sched /\ poll = "idle" /\ ~poll_tail

\* Each packet the running driver has taken is given back, by the chip sending
\* it and the poll reclaiming it, or by a reset: not only if the watchdog fires.
\* (driver.txt: "it is your driver's responsibility to free up the SKB and in
\* some finite amount of time".)
SkbsFreed == \A s \in Skbs : (dma_on /\ s \in tx_owned) ~> (s \notin tx_owned)

\* That is so if the polls now and then find fewer frames than their budget and
\* leave the poll list.  A poll that stays on it goes by the events its first
\* call was for, and b44_tx is only called for the event of a sent packet.
PacketsReturn == ([]<>~rx_sched) => SkbsFreed

\* From some moment on no frame comes in.
FramesStop == <>[][\A kind \in FrameKinds : ~ChipRx(kind)]_vars

\* Closing the device ends once frames no longer come in: until then every poll
\* may use up its budget, and dev_close waits for one that does not.
CloseEnds == FramesStop => ((adm = "close") ~> (adm = "idle"))
=============================================================================
