----------------------------- MODULE B44Proofs -----------------------------
(***************************************************************************)
(* Proofs about the driver as a whole.                                     *)
(*                                                                         *)
(* It treats its two rings as modules B44Tx and B44Rx say: whatever the    *)
(* interrupt handler, the poll, the watchdog, the timer and the            *)
(* administrator do, on any number of processors, each of their steps is a *)
(* step of TxNext (RxNext) or leaves that half alone.  What B44TxProofs    *)
(* and B44RxProofs prove of every caller then holds under the real ones.   *)
(*                                                                         *)
(* The rest is about what only the whole driver has: the timer, closing,   *)
(* and the way the interrupt handler and the poll hand events over.        *)
(***************************************************************************)
EXTENDS B44, B44TxProofs, B44RxProofs

TxAndChip == <<txvars, chipvars>>

\* The chip and the interrupt handler.
LEMMA ChipIrqImplTx ==
  ASSUME Chip \/ IrqEnter \/ IrqAck
  PROVE  [TxNext]_TxAndChip
  <1>1. CASE ChipTx
    BY <1>1 DEF ChipTx, TxNext
  <1>2. ASSUME NEW kind \in FrameKinds, ChipRx(kind) PROVE UNCHANGED TxAndChip
    BY <1>2 DEF ChipRx, HwRx, TxAndChip
  <1>3. CASE ChipError
    BY <1>3 DEF ChipError, ringvars, TxAndChip
  <1>4. CASE IrqEnter
    BY <1>4 DEF IrqEnter, TxNext, TxOthers
  <1>5. CASE IrqAck
    BY <1>5 DEF IrqAck, TxNext, TxOthers
  <1> QED
    BY <1>1, <1>2, <1>3, <1>4, <1>5 DEF Chip

\* The poll, the watchdog and the timer.
LEMMA SoftirqImplTx ==
  ASSUME Softirq \/ Watchdog
  PROVE  [TxNext]_TxAndChip
  <1>1. CASE PollTx
    BY <1>1 DEF PollTx, TxNext, TxAndChip
  <1>2. CASE PollRx
    BY <1>2 DEF PollRx, RxBegin, TxAndChip
  <1>3. CASE PollRxPacket
    <2>1. RxPacket /\ UNCHANGED txvars
      BY <1>3 DEF PollRxPacket
    <2>2. UNCHANGED chipvars
      BY <2>1 DEF RxPacket, RxDrop, RxDeliver, RxCopy, RxNoMem, NextPkt
    <2> QED
      BY <2>1, <2>2 DEF TxAndChip
  <1>4. CASE PollRxEnd
    BY <1>4 DEF PollRxEnd, RxEnd, TxAndChip
  <1>5. CASE PollNoErr \/ PollComplete \/ PollEnable
    BY <1>5 DEF PollNoErr, PollComplete, PollEnable, ringvars, TxAndChip
  <1>6. CASE PollErr
    BY <1>6 DEF PollErr, TxNext
  <1>7. CASE Watchdog
    BY <1>7 DEF Watchdog, TxNext
  <1>8. CASE WatchdogWake
    BY <1>8 DEF WatchdogWake, TxNext
  <1>9. CASE WatchdogEnable \/ Timer \/ TimerRearm
    BY <1>9 DEF WatchdogEnable, Timer, TimerRearm, ringvars, TxAndChip
  <1> QED
    BY <1>1, <1>2, <1>3, <1>4, <1>5, <1>6, <1>7, <1>8, <1>9 DEF Softirq, Poll

\* The step that is none of the transmit half's: b44_set_ringparam dies.
LEMMA StepTx ==
  ASSUME [Next]_vars
  PROVE  [TxNext]_<<txvars, chipvars>> \/ EthtoolClosed
  <1>1. CASE AdmBegin /\ ~EthtoolClosed
    <2>1. CASE \E tx \in TxPendings, rx \in RxPendings : SetRingparam(tx, rx)
      BY <2>1 DEF SetRingparam, TxNext
    <2>2. CASE ChangeMtu
      BY <2>2 DEF ChangeMtu, TxNext
    <2>3. CASE \E cold \in BOOLEAN : ResumeLocked(cold)
      BY <2>3 DEF ResumeLocked, TxNext
    <2>4. CASE Open \/ OpenFails \/ Close \/ SetPauseparam \/ Suspend
      BY <2>4 DEF Open, OpenFails, Close, SetPauseparam, Suspend, ringvars
    <2> QED
      BY <1>1, <2>1, <2>2, <2>3, <2>4 DEF AdmBegin
  <1>2. CASE AdmContinue
    <2>1. CASE \E cold \in BOOLEAN : OpenLocked(cold)
      BY <2>1 DEF OpenLocked, TxNext
    <2>2. CASE CloseStop \/ CloseLocked \/ SuspendLocked
      BY <2>2 DEF CloseStop, CloseLocked, SuspendLocked, TxNext
    <2>3. CASE OpenTimer \/ AdmEnable \/ CloseTimer \/ CloseIrq \/ ResumeTimer
      BY <2>3 DEF OpenTimer, AdmEnable, CloseTimer, CloseIrq, ResumeTimer, ringvars
    <2> QED
      BY <1>2, <2>1, <2>2, <2>3 DEF AdmContinue
  <1>3. CASE Xmit
    BY <1>3 DEF Xmit, TxNext
  <1>4. CASE UNCHANGED vars
    BY <1>4 DEF vars, ringvars
  <1> QED
    BY <1>1, <1>2, <1>3, <1>4, ChipIrqImplTx, SoftirqImplTx DEF Next, TxAndChip

LEMMA StepImplTx ==
  ASSUME "closed" \notin Env, [Next]_vars
  PROVE  [TxNext]_<<txvars, chipvars>>
  BY StepTx DEF EthtoolClosed

(***************************************************************************)
(* The composed driver implements the specification of its transmit half,  *)
(* also with several processors, unless ethtool is used on a closed device *)
(* (b44_set_ringparam then dies with bp->lock held).                       *)
(***************************************************************************)
THEOREM DriverImplementsTx ==
  ASSUME "closed" \notin Env
  PROVE  Spec => TxSpec
  <1>1. Init => TxInit
    BY DEF Init
  <1> QED
    BY <1>1, StepImplTx, PTL DEF Spec, TxSpec

(***************************************************************************)
(* Hence the transmit ring is exact in every state of the driver: no       *)
(* interleaving of interrupt, poll, watchdog, timer and reconfiguration    *)
(* leaks a packet or frees it twice.                                       *)
(***************************************************************************)
THEOREM DriverTxRingCorrect ==
  ASSUME "closed" \notin Env, "cold" \notin Env
  PROVE  Spec => []TxRingExact
  BY DriverImplementsTx, TxRingCorrect, PTL

(***************************************************************************)
(* And the whole driver hands packets to the chip as a bounded first-in    *)
(* first-out queue does (PacketQueue): whatever interrupts, polls, resets, *)
(* suspends and reconfigurations come in between, a packet b44_start_xmit  *)
(* took is sent in its turn or dropped with all others by a reset.         *)
(***************************************************************************)
THEOREM DriverImplementsTxQueue ==
  ASSUME "closed" \notin Env, "cold" \notin Env
  PROVE  Spec => TxFifo
  BY DriverImplementsTx, TxRingImplementsQueue, PTL

-----------------------------------------------------------------------------
(***************************************************************************)
(* The receive half.                                                       *)
(***************************************************************************)
RxAndChip == <<rxvars, chipvars>>

\* Steps of the transmit half: all the receive half sees of them is that the
\* lock is taken, or that a packet out of reach leaks it; only b44_tx dies.
LEMMA TxHalfSeen ==
  ASSUME TxTypeOK, UNCHANGED rxvars, TxXmit \/ b44_tx, lock' # "dead"
  PROVE  [RxNext]_RxAndChip
  <1>1. CASE b44_tx
    BY <1>1 DEF b44_tx, RxAndChip
  <1>2. ASSUME NEW s \in Skbs, StartXmit(s) \/ StartXmitFull(s) PROVE UNCHANGED RxAndChip
    BY <1>2 DEF StartXmit, StartXmitFull, PostTx, RxAndChip
  <1>3. ASSUME NEW s \in Skbs, NEW b \in Skbs, StartXmitBounce(s, b) PROVE UNCHANGED RxAndChip
    BY <1>3 DEF StartXmitBounce, PostTx, RxAndChip
  <1>4. ASSUME NEW s \in Skbs, StartXmitNoBounce(s) PROVE RxNext
    BY <1>4 DEF StartXmitNoBounce, XmitCalled, RxNext, RxOthers, LockTaken
  <1> QED
    BY <1>1, <1>2, <1>3, <1>4 DEF TxXmit

LEMMA StepRx ==
  ASSUME TxTypeOK, [Next]_vars
  PROVE  [RxNext]_<<rxvars, chipvars>> \/ (LockTaken({"dead"}) /\ UNCHANGED rxvars)
  <1>1. CASE ChipTx
    BY <1>1 DEF ChipTx, HwTx
  <1>2. ASSUME NEW kind \in FrameKinds, ChipRx(kind) PROVE RxNext
    BY <1>2 DEF ChipRx, RxNext
  <1>3. CASE ChipError \/ PollNoErr \/ PollComplete \/ PollEnable \/ WatchdogEnable \/ Timer \/ TimerRearm
    BY <1>3 DEF ChipError, PollNoErr, PollComplete, PollEnable, WatchdogEnable, Timer, TimerRearm,
                ringvars
  <1>4. CASE IrqEnter \/ IrqAck
    BY <1>4 DEF IrqEnter, IrqAck, RxNext, RxOthers
  <1>5. CASE PollTx
    <2>1. CASE lock' = "dead"
      <3>1. b44_tx /\ UNCHANGED rxvars
        BY <1>5, <2>1 DEF PollTx, LockFree, chipvars
      <3> QED
        BY <2>1, <3>1 DEF b44_tx, LockTaken, LockFree, chipvars
    <2>2. CASE lock' # "dead"
      BY <1>5, <2>2, TxHalfSeen DEF PollTx, RxAndChip
    <2> QED
      BY <2>1, <2>2
  <1>6. CASE PollRx
    BY <1>6 DEF PollRx, RxNext
  <1>7. CASE PollRxPacket \/ PollRxEnd
    BY <1>7 DEF PollRxPacket, PollRxEnd, RxNext
  <1>8. CASE PollErr \/ Watchdog \/ ChangeMtu
    BY <1>8 DEF PollErr, Watchdog, ChangeMtu, RxNext
  <1>9. CASE Xmit
    <2>1. TxXmit /\ UNCHANGED rxvars
      BY <1>9 DEF Xmit
    <2>2. lock' # "dead"
      BY <2>1 DEF TxXmit, StartXmit, StartXmitFull, StartXmitBounce, StartXmitNoBounce, XmitCalled,
                  PostTx, LockFree, chipvars
    <2> QED
      BY <2>1, <2>2, TxHalfSeen DEF RxAndChip
  <1>10. CASE WatchdogWake \/ CloseStop
    BY <1>10 DEF WatchdogWake, TxTimeoutWake, CloseStop, TxStopQueue
  <1>11. ASSUME NEW cold \in BOOLEAN, OpenLocked(cold) \/ ResumeLocked(cold) PROVE RxNext
    BY <1>11 DEF OpenLocked, ResumeLocked, RxNext
  <1>12. CASE CloseLocked \/ SuspendLocked
    BY <1>12 DEF CloseLocked, SuspendLocked, RxNext
  <1>13. ASSUME NEW tx \in TxPendings, NEW rx \in RxPendings, SetRingparam(tx, rx)
        PROVE  RxNext
    BY <1>13 DEF SetRingparam, RxNext
  <1>14. CASE OpenTimer \/ AdmEnable \/ CloseTimer \/ CloseIrq \/ ResumeTimer
    BY <1>14 DEF OpenTimer, AdmEnable, CloseTimer, CloseIrq, ResumeTimer, ringvars
  <1>15. CASE Open \/ OpenFails \/ Close \/ SetPauseparam \/ Suspend
    BY <1>15 DEF Open, OpenFails, Close, SetPauseparam, Suspend, ringvars
  <1>16. CASE EthtoolClosed
    BY <1>16 DEF EthtoolClosed
  <1>17. CASE UNCHANGED vars
    BY <1>17 DEF vars, ringvars
  <1> QED
    BY <1>1, <1>2, <1>3, <1>4, <1>5, <1>6, <1>7, <1>8, <1>9, <1>10, <1>11, <1>12, <1>13,
       <1>14, <1>15, <1>16, <1>17
    DEF Next, Chip, Softirq, Poll, AdmContinue, AdmBegin

LEMMA StepImplRx ==
  ASSUME TxTypeOK, [Next]_vars, "cold" \in Env \/ lock' # "dead"
  PROVE  [RxNext]_<<rxvars, chipvars>>
  BY StepRx DEF RxNext, RxOthers, LockTaken

(***************************************************************************)
(* The composed driver implements the specification of its receive half,   *)
(* also with several processors, unless ethtool is used on a closed        *)
(* device.  That b44_tx does not die in between, which B44Rx allows it     *)
(* only if the chip may restart cold, is a fact about the transmit ring.   *)
(***************************************************************************)
THEOREM DriverImplementsRx ==
  ASSUME "closed" \notin Env
  PROVE  Spec => RxSpec
  <1>1. Init => RxInit /\ TxTypeOK /\ TxInv
    BY TxInitType, TxInitInv DEF Init
  <1>2. TxTypeOK /\ [Next]_vars => TxTypeOK'
    BY StepImplTx, TxStepType
  <1>3. CASE "cold" \in Env
    <2>1. TxTypeOK /\ [Next]_vars => [RxNext]_<<rxvars, chipvars>>
      BY <1>3, StepImplRx
    <2> QED
      BY <1>1, <1>2, <2>1, PTL DEF Spec, RxSpec
  <1>4. CASE "cold" \notin Env
    <2>1. TxInv /\ [Next]_vars => TxInv'
      BY <1>4, StepImplTx, TxStepInv
    <2>2. TxInv /\ TxInv' /\ [Next]_vars => [RxNext]_<<rxvars, chipvars>>
      BY StepImplRx DEF TxInv, TxNoBug
    <2> QED
      BY <1>1, <2>1, <2>2, PTL DEF Spec, RxSpec
  <1> QED
    BY <1>3, <1>4

(***************************************************************************)
(* Hence, on one processor and with a chip that keeps its power, b44_rx    *)
(* follows no null pointer and the receive ring is exact under the real    *)
(* callers: interrupt, poll, watchdog, reconfiguration, suspend.           *)
(***************************************************************************)
THEOREM DriverRxRingCorrect ==
  ASSUME "closed" \notin Env, "cold" \notin Env, "smp" \notin Env
  PROVE  Spec => [](RxNoOops /\ RxRingExact)
  BY DriverImplementsRx, RxOopsUnreachable, RxRingCorrect, PTL

(***************************************************************************)
(* Likewise the frames the chip received reach b44_rx in the order of      *)
(* arrival, each once, under the real callers: for every limit, while      *)
(* b44_rx keeps up with the chip.                                          *)
(***************************************************************************)
THEOREM DriverImplementsRxQueue ==
  ASSUME "closed" \notin Env, "cold" \notin Env, "smp" \notin Env
  PROVE  Spec => RxFifo
  BY DriverImplementsRx, RxRingImplementsQueue, PTL

-----------------------------------------------------------------------------
(***************************************************************************)
(* Type correctness of the whole.                                          *)
(***************************************************************************)
CtlTypeOK ==
  /\ istat \subseteq Events /\ bp_istat \subseteq Events /\ irq_istat \subseteq Events
  /\ imask \in BOOLEAN /\ irq_on \in BOOLEAN
  /\ running \in BOOLEAN /\ present \in BOOLEAN
  /\ rx_sched \in BOOLEAN /\ poll_done \in BOOLEAN /\ poll_tail \in BOOLEAN
  /\ poll \in {"idle", "rx", "loop", "err", "complete"}
  /\ wd \in {"idle", "enable", "wake"}
  /\ timer \in {"off", "armed", "running"}
  /\ adm \in {"idle", "open", "open_timer", "open_enable", "enable", "close",
              "close_timer", "close_lock", "close_irq", "suspend", "suspended", "resume", "dead"}

\* What a step of the administrator may do to the control variables.
AdmMoves(to) ==
  /\ adm' = to
  /\ \/ ResetIrq
     \/ EnableInts
     \/ irq_on' \in {irq_on, TRUE, FALSE} /\ UNCHANGED <<istat, imask, bp_istat, irq_istat>>
  /\ running' \in {running, TRUE, FALSE} /\ present' \in {present, TRUE, FALSE}
  /\ timer' \in {timer, "off", "armed"}
  /\ UNCHANGED <<pollvars, wd>>

LEMMA AdmMovesType ==
  ASSUME CtlTypeOK, NEW to, AdmMoves(to),
         to \in {"idle", "open", "open_timer", "open_enable", "enable", "close", "close_timer",
                "close_lock", "close_irq", "suspend", "suspended", "resume", "dead"}
  PROVE  CtlTypeOK'
  <1>1. istat' \subseteq Events /\ bp_istat' \subseteq Events /\ irq_istat' \subseteq Events
    BY DEF AdmMoves, ResetIrq, EnableInts, CtlTypeOK
  <1>2. imask' \in BOOLEAN /\ irq_on' \in BOOLEAN
    <2>1. CASE ResetIrq
      BY <2>1 DEF ResetIrq, CtlTypeOK
    <2>2. CASE EnableInts
      BY <2>2 DEF EnableInts, CtlTypeOK
    <2>3. CASE irq_on' \in {irq_on, TRUE, FALSE} /\ imask' = imask
      BY <2>3 DEF CtlTypeOK
    <2> QED
      BY <2>1, <2>2, <2>3 DEF AdmMoves
  <1>3. running' \in BOOLEAN /\ present' \in BOOLEAN
    BY DEF AdmMoves, CtlTypeOK
  <1>4. UNCHANGED <<rx_sched, poll, poll_done, poll_tail, wd>>
    BY DEF AdmMoves, pollvars
  <1>5. timer' \in {"off", "armed", "running"} /\ adm' = to
    BY DEF AdmMoves, CtlTypeOK
  <1> QED
    BY <1>1, <1>2, <1>3, <1>4, <1>5 DEF CtlTypeOK

LEMMA StepCtlType ==
  ASSUME CtlTypeOK, [Next]_vars
  PROVE  CtlTypeOK'
  <1> USE DEF irqvars, netvars, pollvars, ctxvars
  <1>1. CASE ChipTx
    BY <1>1 DEF ChipTx, Raise, Events, CtlTypeOK
  <1>2. ASSUME NEW kind \in FrameKinds, ChipRx(kind) PROVE CtlTypeOK'
    BY <1>2 DEF ChipRx, Raise, Events, CtlTypeOK
  <1>3. CASE ChipError
    BY <1>3 DEF ChipError, Raise, Events, CtlTypeOK
  <1>4. CASE IrqEnter
    <2>1. imask' \in BOOLEAN /\ rx_sched' \in BOOLEAN /\ bp_istat' \subseteq Events
      BY <1>4 DEF IrqEnter, CtlTypeOK
    <2> QED
      BY <1>4, <2>1 DEF IrqEnter, CtlTypeOK
  <1>5. CASE IrqAck
    BY <1>5 DEF IrqAck, CtlTypeOK
  <1>6. CASE PollTx
    BY <1>6 DEF PollTx, CtlTypeOK
  <1>7. CASE PollRx
    BY <1>7 DEF PollRx, CtlTypeOK
  <1>8. CASE PollRxPacket
    BY <1>8 DEF PollRxPacket, CtlTypeOK
  <1>9. CASE PollRxEnd
    <2>1. poll_done' \in BOOLEAN
      BY <1>9 DEF PollRxEnd
    <2> QED
      BY <1>9, <2>1 DEF PollRxEnd, CtlTypeOK
  <1>10. CASE PollNoErr
    BY <1>10 DEF PollNoErr, CtlTypeOK
  <1>11. CASE PollErr
    <2>1. /\ imask' = FALSE /\ istat' = {} /\ poll' = "complete" /\ poll_done' = TRUE
          /\ UNCHANGED <<bp_istat, irq_istat, irq_on, rx_sched, poll_tail, running, present,
                        wd, timer, adm>>
      BY <1>11 DEF PollErr, ResetIrq
    <2>2. imask' \in BOOLEAN /\ poll_done' \in BOOLEAN
      BY <2>1
    <2> QED
      BY <2>1, <2>2 DEF CtlTypeOK
  <1>12. CASE PollComplete
    <2>1. /\ rx_sched' = FALSE /\ poll' = "idle" /\ poll_tail' = TRUE
          /\ UNCHANGED <<istat, imask, bp_istat, irq_istat, irq_on, poll_done, running, present,
                        wd, timer, adm>>
      BY <1>12 DEF PollComplete
    <2>2. rx_sched' \in BOOLEAN /\ poll_tail' \in BOOLEAN
      BY <2>1
    <2> QED
      BY <2>1, <2>2 DEF CtlTypeOK
  <1>13. CASE PollEnable
    <2>1. EnableInts /\ poll_tail' = FALSE /\ UNCHANGED <<rx_sched, poll, poll_done, netvars, ctxvars>>
      BY <1>13 DEF PollEnable
    <2>2. imask' \in BOOLEAN /\ poll_tail' \in BOOLEAN /\ UNCHANGED <<istat, bp_istat, irq_istat, irq_on>>
      BY <2>1 DEF EnableInts
    <2> QED
      BY <2>1, <2>2 DEF CtlTypeOK
  <1>14. CASE Watchdog \/ WatchdogEnable \/ WatchdogWake
    <2>1. UNCHANGED <<netvars, pollvars, timer, adm>> /\ wd' \in {"idle", "enable", "wake"}
      BY <1>14 DEF Watchdog, WatchdogEnable, WatchdogWake
    <2>2. ResetIrq \/ EnableInts \/ UNCHANGED irqvars
      BY <1>14 DEF Watchdog, WatchdogEnable, WatchdogWake
    <2>3. istat' \subseteq Events /\ bp_istat' \subseteq Events /\ irq_istat' \subseteq Events
      BY <2>2 DEF ResetIrq, EnableInts, CtlTypeOK
    <2>4. imask' \in BOOLEAN /\ irq_on' \in BOOLEAN
      BY <2>2 DEF ResetIrq, EnableInts, CtlTypeOK
    <2> QED
      BY <2>1, <2>3, <2>4 DEF CtlTypeOK
  <1>15. CASE Timer \/ TimerRearm \/ Xmit
    BY <1>15 DEF Timer, TimerRearm, Xmit, CtlTypeOK
  <1>16. CASE Open \/ OpenFails \/ OpenTimer \/ AdmEnable \/ Close
              \/ CloseStop \/ CloseTimer \/ CloseLocked \/ CloseIrq \/ ChangeMtu
              \/ SetPauseparam \/ EthtoolClosed \/ Suspend \/ SuspendLocked \/ ResumeTimer
    <2>1. CASE Open
      <3>1. AdmMoves("open")
        BY <2>1 DEF Open, AdmStep, AdmMoves
      <3> QED
        BY <3>1, AdmMovesType
    <2>2. CASE OpenFails
      <3>1. AdmMoves("idle")
        BY <2>2 DEF OpenFails, AdmStep, AdmMoves
      <3> QED
        BY <3>1, AdmMovesType
    <2>3. CASE OpenTimer
      <3>1. AdmMoves("open_enable")
        BY <2>3 DEF OpenTimer, AdmStep, AdmMoves
      <3> QED
        BY <3>1, AdmMovesType
    <2>4. CASE AdmEnable
      <3>1. AdmMoves("idle")
        BY <2>4 DEF AdmEnable, AdmStep, AdmMoves
      <3> QED
        BY <3>1, AdmMovesType
    <2>5. CASE Close
      <3>1. AdmMoves("close")
        BY <2>5 DEF Close, AdmStep, AdmMoves
      <3> QED
        BY <3>1, AdmMovesType
    <2>6. CASE CloseStop
      <3>1. AdmMoves("close_timer")
        BY <2>6 DEF CloseStop, AdmStep, AdmMoves
      <3> QED
        BY <3>1, AdmMovesType
    <2>7. CASE CloseTimer
      <3>1. AdmMoves("close_lock")
        BY <2>7 DEF CloseTimer, AdmStep, AdmMoves, DelTimerSync
      <3> QED
        BY <3>1, AdmMovesType
    <2>8. CASE CloseLocked
      <3>1. AdmMoves("close_irq")
        BY <2>8 DEF CloseLocked, AdmStep, AdmMoves
      <3> QED
        BY <3>1, AdmMovesType
    <2>9. CASE CloseIrq
      <3>1. AdmMoves("idle")
        BY <2>9 DEF CloseIrq, AdmStep, AdmMoves
      <3> QED
        BY <3>1, AdmMovesType
    <2>10. CASE ChangeMtu
      <3>1. AdmMoves("enable")
        BY <2>10 DEF ChangeMtu, AdmStep, AdmMoves
      <3> QED
        BY <3>1, AdmMovesType
    <2>11. CASE SetPauseparam
      <3>1. AdmMoves("enable")
        BY <2>11 DEF SetPauseparam, AdmStep, AdmMoves
      <3> QED
        BY <3>1, AdmMovesType
    <2>12. CASE EthtoolClosed
      <3>1. AdmMoves("dead")
        BY <2>12 DEF EthtoolClosed, AdmStep, AdmMoves
      <3> QED
        BY <3>1, AdmMovesType
    <2>13. CASE Suspend
      <3>1. AdmMoves("suspend")
        BY <2>13 DEF Suspend, AdmStep, AdmMoves, DelTimerSync
      <3> QED
        BY <3>1, AdmMovesType
    <2>14. CASE SuspendLocked
      <3>1. AdmMoves("suspended")
        BY <2>14 DEF SuspendLocked, AdmStep, AdmMoves
      <3> QED
        BY <3>1, AdmMovesType
    <2>15. CASE ResumeTimer
      <3>1. AdmMoves("enable")
        BY <2>15 DEF ResumeTimer, AdmStep, AdmMoves
      <3> QED
        BY <3>1, AdmMovesType
    <2> QED
      BY <1>16, <2>1, <2>2, <2>3, <2>4, <2>5, <2>6, <2>7, <2>8,
         <2>9, <2>10, <2>11, <2>12, <2>13, <2>14, <2>15
  <1>17. ASSUME NEW cold \in BOOLEAN, OpenLocked(cold) PROVE CtlTypeOK'
    <2>1. AdmMoves("open_timer")
      BY <1>17 DEF OpenLocked, AdmStep, AdmMoves
    <2> QED
      BY <2>1, AdmMovesType
  <1>18. ASSUME NEW cold \in BOOLEAN, ResumeLocked(cold) PROVE CtlTypeOK'
    <2>1. AdmMoves("resume")
      BY <1>18 DEF ResumeLocked, AdmStep, AdmMoves
    <2> QED
      BY <2>1, AdmMovesType
  <1>19. ASSUME NEW tx \in TxPendings, NEW rx \in RxPendings, SetRingparam(tx, rx)
         PROVE  CtlTypeOK'
    <2>1. AdmMoves("enable")
      BY <1>19 DEF SetRingparam, AdmStep, AdmMoves
    <2> QED
      BY <2>1, AdmMovesType
  <1>20. CASE UNCHANGED vars
    BY <1>20 DEF vars, CtlTypeOK
  <1> QED
    BY <1>1, <1>2, <1>3, <1>4, <1>5, <1>6, <1>7, <1>8, <1>9, <1>10, <1>11, <1>12, <1>13,
       <1>14, <1>15, <1>16, <1>17, <1>18, <1>19, <1>20
    DEF Next, Chip, Softirq, Poll, AdmContinue, AdmBegin

TypeInv == TxTypeOK /\ RxBasic /\ CtlTypeOK

LEMMA InitTypeInv == Init => TypeInv
  <1> SUFFICES ASSUME Init PROVE TypeInv
    OBVIOUS
  <1>1. TxTypeOK /\ RxBasic
    BY TxInitType, RxInitBasic DEF Init
  <1>2. CtlTypeOK
    BY DEF Init, CtlTypeOK
  <1> QED
    BY <1>1, <1>2 DEF TypeInv

LEMMA StepTypeInv ==
  ASSUME TypeInv, [Next]_vars
  PROVE  TypeInv'
  <1>1. CtlTypeOK'
    BY StepCtlType DEF TypeInv
  <1>2. TxTypeOK'
    <2>1. CASE EthtoolClosed
      <3>1. UNCHANGED txvars /\ LockTaken({"dead"}) /\ TxTypeOK
        BY <2>1 DEF EthtoolClosed, TypeInv
      <3>2. ChipTypeOK'
        BY <3>1 DEF LockTaken, TxTypeOK, ChipTypeOK, LockStates
      <3> QED
        BY <3>1, <3>2 DEF TxTypeOK, txvars, txring
    <2> QED
      BY <2>1, StepTx, TxStepType DEF TypeInv
  <1>3. RxBasic'
    <2>1. CASE LockTaken({"dead"}) /\ UNCHANGED rxvars
      <3>1. ChipTypeOK'
        BY <2>1 DEF LockTaken, TypeInv, RxBasic, RxTypeOK, ChipTypeOK, LockStates
      <3> QED
        BY <2>1, <3>1 DEF TypeInv, rxvars, rxring, RxBasic, RxTypeOK, RxMarked, RxDistinct
    <2> QED
      BY <2>1, StepRx, RxStepBasic DEF TypeInv
  <1> QED
    BY <1>1, <1>2, <1>3 DEF TypeInv

(***************************************************************************)
(* Type correctness of the composed driver, whatever the machine and its   *)
(* administrator do.  That the chip stays in the receive ring is not       *)
(* obvious from its actions: it follows the end-of-table marks.            *)
(***************************************************************************)
THEOREM DriverTypeCorrect == Spec => []TypeOK
  <1>1. TypeInv => TypeOK
    BY DEF TypeInv, RxBasic, CtlTypeOK, TypeOK
  <1> QED
    BY <1>1, InitTypeInv, StepTypeInv, PTL DEF Spec

-----------------------------------------------------------------------------
(***************************************************************************)
(* The link timer.  It is off from the moment it is deleted (b44_close,    *)
(* b44_suspend) to the moment it is added (b44_open, b44_resume), and only *)
(* a running device has it: b44_timer itself can only set it again.        *)
(***************************************************************************)
TimerInv ==
  /\ adm \in {"open", "open_timer", "close_lock", "close_irq", "suspend", "suspended", "resume"}
       => timer = "off"
  /\ adm \in {"idle", "enable"} /\ ~running => timer = "off"
  /\ adm \in {"open", "open_timer", "open_enable", "suspend", "suspended", "resume"} => running

LEMMA StepTimer ==
  ASSUME TimerInv, [Next]_vars
  PROVE  TimerInv'
  <1>1. CASE Chip \/ IrqEnter \/ IrqAck \/ Poll
    BY <1>1 DEF Chip, ChipTx, ChipRx, ChipError, IrqEnter, IrqAck, Poll, PollTx, PollRx,
       PollRxPacket, PollRxEnd, PollNoErr, PollErr, PollComplete, PollEnable, netvars, ctxvars,
       TimerInv
  <1>2. CASE Xmit \/ Watchdog \/ WatchdogEnable \/ WatchdogWake
    BY <1>2 DEF Xmit, Watchdog, WatchdogEnable, WatchdogWake, netvars, ctxvars, TimerInv
  <1>3. CASE Timer \/ TimerRearm
    BY <1>3 DEF Timer, TimerRearm, netvars, TimerInv
  <1>4. CASE Open \/ OpenFails \/ OpenTimer
    BY <1>4 DEF Open, OpenFails, OpenTimer, AdmStep, netvars, TimerInv
  <1>5. ASSUME NEW cold \in BOOLEAN, OpenLocked(cold) \/ ResumeLocked(cold) PROVE TimerInv'
    BY <1>5 DEF OpenLocked, ResumeLocked, AdmStep, netvars, TimerInv
  <1>6. CASE AdmEnable
    BY <1>6 DEF AdmEnable, AdmStep, netvars, TimerInv
  <1>7. CASE Close \/ CloseStop \/ CloseTimer \/ CloseIrq
    BY <1>7 DEF Close, CloseStop, CloseTimer, CloseIrq, DelTimerSync, AdmStep, netvars, TimerInv
  <1>8. CASE CloseLocked
    BY <1>8 DEF CloseLocked, AdmStep, netvars, TimerInv
  <1>9. CASE Suspend \/ SuspendLocked \/ ResumeTimer
    BY <1>9 DEF Suspend, SuspendLocked, ResumeTimer, DelTimerSync, AdmStep, netvars, TimerInv
  <1>10. ASSUME NEW tx \in TxPendings, NEW rx \in RxPendings, SetRingparam(tx, rx)
         PROVE  TimerInv'
    BY <1>10 DEF SetRingparam, AdmStep, netvars, TimerInv
  <1>11. CASE ChangeMtu \/ SetPauseparam \/ EthtoolClosed
    BY <1>11 DEF ChangeMtu, SetPauseparam, EthtoolClosed, AdmStep, netvars, TimerInv
  <1>12. CASE UNCHANGED vars
    BY <1>12 DEF vars, netvars, ctxvars, TimerInv
  <1> QED
    BY <1>1, <1>2, <1>3, <1>4, <1>5, <1>6, <1>7, <1>8, <1>9, <1>10, <1>11, <1>12
    DEF Next, Softirq, AdmContinue, AdmBegin

(***************************************************************************)
(* b44_open and b44_resume never add a timer that is armed or running, on  *)
(* any number of processors and however ethtool is used in between.        *)
(***************************************************************************)
THEOREM DriverTimerArmedOnce == Spec => []TimerArmedOnce
  <1>1. Init => TimerInv
    BY DEF Init, TimerInv
  <1>2. TimerInv => TimerArmedOnce
    BY DEF TimerInv, TimerArmedOnce
  <1> QED
    BY <1>1, <1>2, StepTimer, PTL DEF Spec

-----------------------------------------------------------------------------
(***************************************************************************)
(* Closing.  On one processor an operation of the administrator only goes  *)
(* on when no softirq is half-way, and once netif_running is cleared the   *)
(* interrupt handler schedules no poll.                                    *)
(***************************************************************************)
Closing == {"close", "close_timer", "close_lock", "close_irq"}

StopInv == (adm \in Closing => ~running /\ wd = "idle") /\ StopAfterPoll

LEMMA StepStop ==
  ASSUME "smp" \notin Env, StopInv, [Next]_vars
  PROVE  StopInv'
  <1> USE DEF StopInv, StopAfterPoll, Closing, netvars, pollvars, ctxvars
  <1>1. CASE Chip \/ IrqAck \/ Xmit \/ Timer \/ TimerRearm
    BY <1>1 DEF Chip, ChipTx, ChipRx, ChipError, IrqAck, Xmit, Timer, TimerRearm
  <1>2. CASE IrqEnter
    BY <1>2 DEF IrqEnter
  <1>3. CASE PollTx \/ PollRx \/ PollRxPacket \/ PollRxEnd
    BY <1>3 DEF PollTx, PollRx, PollRxPacket, PollRxEnd
  <1>4. CASE PollNoErr \/ PollErr \/ PollComplete \/ PollEnable
    BY <1>4 DEF PollNoErr, PollErr, PollComplete, PollEnable
  <1>5. CASE Watchdog \/ WatchdogEnable \/ WatchdogWake
    BY <1>5 DEF Watchdog, WatchdogEnable, WatchdogWake
  <1>6. CASE Open \/ OpenFails \/ OpenTimer \/ AdmEnable
    BY <1>6 DEF Open, OpenFails, OpenTimer, AdmEnable, AdmStep
  <1>7. ASSUME NEW cold \in BOOLEAN, OpenLocked(cold) \/ ResumeLocked(cold) PROVE StopInv'
    BY <1>7 DEF OpenLocked, ResumeLocked, AdmStep
  <1>8. CASE Close
    BY <1>8 DEF Close, AdmStep
  <1>9. CASE CloseStop
    BY <1>9 DEF CloseStop, AdmStep, MayStart, SMP, SoftirqBusy
  <1>10. CASE CloseTimer \/ CloseLocked \/ CloseIrq
    BY <1>10 DEF CloseTimer, CloseLocked, CloseIrq, AdmStep
  <1>11. CASE Suspend \/ SuspendLocked \/ ResumeTimer
    BY <1>11 DEF Suspend, SuspendLocked, ResumeTimer, AdmStep
  <1>12. ASSUME NEW tx \in TxPendings, NEW rx \in RxPendings, SetRingparam(tx, rx)
         PROVE  StopInv'
    BY <1>12 DEF SetRingparam, AdmStep
  <1>13. CASE ChangeMtu \/ SetPauseparam \/ EthtoolClosed
    BY <1>13 DEF ChangeMtu, SetPauseparam, EthtoolClosed, AdmStep
  <1>14. CASE UNCHANGED vars
    BY <1>14 DEF vars
  <1> QED
    BY <1>1, <1>2, <1>3, <1>4, <1>5, <1>6, <1>7, <1>8, <1>9, <1>10, <1>11, <1>12, <1>13, <1>14
    DEF Next, Softirq, Poll, AdmContinue, AdmBegin

(***************************************************************************)
(* On one processor b44_close never runs beside b44_poll, and no poll      *)
(* starts behind its back.  (With several processors b44_poll may still be *)
(* before its b44_enable_ints, see the README.)                            *)
(***************************************************************************)
THEOREM DriverStopAfterPoll ==
  ASSUME "smp" \notin Env
  PROVE  Spec => []StopAfterPoll
  <1>1. Init => StopInv
    BY DEF Init, StopInv, StopAfterPoll, Closing
  <1>2. StopInv => StopAfterPoll
    BY DEF StopInv
  <1> QED
    BY <1>1, <1>2, StepStop, PTL DEF Spec

\* What b44_close leaves behind, and b44_open finds.
Quiet ==
  /\ timer = "off" /\ ~imask /\ ~rx_sched /\ ~SoftirqBusy
  /\ ~dma_on /\ ~init_complete
  /\ tx_owned = {} /\ RxOwned = {}

MustBeQuiet == (~running /\ adm = "idle") \/ adm \in {"open", "close_irq"}

QuietInv == (MustBeQuiet => Quiet) /\ (adm = "enable" => running)

\* A step that leaves alone what a closed device must keep quiet.
LEMMA QuietKept ==
  ASSUME Quiet, UNCHANGED <<timer, imask, rx_sched, poll, poll_tail, wd, dma_on, init_complete,
                            tx_owned, rx_buffers>>
  PROVE  Quiet'
  BY DEF Quiet, SoftirqBusy, RxOwned

\* b44_close under the lock.
LEMMA CloseQuiets ==
  ASSUME TxInv, TimerInv, StopInv, CloseLocked
  PROVE  Quiet'
  <1>1. timer' = "off" /\ ~imask' /\ ~rx_sched' /\ poll' = "idle" /\ ~poll_tail' /\ wd' = "idle"
    BY DEF TimerInv, StopInv, StopAfterPoll, Closing, CloseLocked, AdmStep, ResetIrq, pollvars
  <1>2. ~dma_on' /\ ~init_complete'
    BY DEF CloseLocked, TxClose
  <1>3. tx_owned' = {}
    BY FreeTxRingEmpties DEF CloseLocked, TxClose
  <1>4. RxOwned' = {}
    BY DEF CloseLocked, RxClose, ShutdownRx, FreeRxRing, RxOwned
  <1> QED
    BY <1>1, <1>2, <1>3, <1>4 DEF Quiet, SoftirqBusy

LEMMA StepQuiet ==
  ASSUME "smp" \notin Env, "closed" \notin Env,
         TxInv, TimerInv, StopInv, QuietInv, [Next]_vars
  PROVE  QuietInv'
  <1> USE DEF QuietInv, MustBeQuiet, netvars, ctxvars
  \* Nothing of the driver stirs while it is quiet.
  <1>1. CASE Chip
    BY <1>1 DEF Chip, ChipTx, ChipRx, ChipError, HwTx, HwRx, RxMayFill, Quiet
  <1>2. CASE IrqEnter
    BY <1>2 DEF IrqEnter, Quiet
  <1>3. CASE IrqAck
    <2>1. UNCHANGED <<running, adm, timer, imask, rx_sched, poll, poll_tail, wd, dma_on,
                      init_complete, tx_owned, rx_buffers>>
      BY <1>3 DEF IrqAck, IrqUnlocks, txvars, txring, rxvars, rxring, pollvars
    <2> QED
      BY <2>1, QuietKept
  <1>4. CASE PollTx \/ PollRx \/ PollRxPacket \/ PollRxEnd
    BY <1>4 DEF PollTx, PollRx, PollRxPacket, PollRxEnd, Quiet, SoftirqBusy
  <1>5. CASE PollNoErr \/ PollErr \/ PollComplete \/ PollEnable
    BY <1>5 DEF PollNoErr, PollErr, PollComplete, PollEnable, Quiet, SoftirqBusy
  <1>6. CASE Watchdog
    BY <1>6 DEF Watchdog, TxTimeout, RestartTx, Quiet
  <1>7. CASE WatchdogEnable \/ WatchdogWake
    BY <1>7 DEF WatchdogEnable, WatchdogWake, Quiet, SoftirqBusy
  <1>8. CASE Timer \/ TimerRearm
    BY <1>8 DEF Timer, TimerRearm, Quiet
  <1>9. CASE Xmit
    <2>1. init_complete /\ UNCHANGED <<running, adm>>
      BY <1>9 DEF Xmit, TxXmit, StartXmit, StartXmitFull, StartXmitBounce, StartXmitNoBounce,
                  XmitCalled
    <2> QED
      BY <2>1 DEF Quiet
  \* Opening, and giving up.
  <1>10. CASE Open \/ OpenFails
    <2>1. UNCHANGED <<timer, imask, rx_sched, poll, poll_tail, wd, dma_on, init_complete,
                      tx_owned, rx_buffers>>
      BY <1>10 DEF Open, OpenFails, ringvars, txvars, txring, rxvars, rxring, chipvars, pollvars
    <2>2. MustBeQuiet /\ adm' # "enable"
      BY <1>10 DEF Open, OpenFails, AdmStep
    <2> QED
      BY <2>1, <2>2, QuietKept
  <1>11. ASSUME NEW cold \in BOOLEAN, OpenLocked(cold) \/ ResumeLocked(cold) PROVE QuietInv'
    <2>1. adm' \in {"open_timer", "resume"}
      BY <1>11 DEF OpenLocked, ResumeLocked, AdmStep
    <2> QED
      BY <2>1
  <1>12. CASE OpenTimer \/ ResumeTimer
    BY <1>12 DEF OpenTimer, ResumeTimer, AdmStep, TimerInv
  <1>13. CASE AdmEnable
    BY <1>13 DEF AdmEnable, AdmStep, TimerInv
  \* Closing.
  <1>14. CASE Close \/ CloseStop \/ CloseTimer
    BY <1>14 DEF Close, CloseStop, CloseTimer, AdmStep
  <1>15. CASE CloseLocked
    <2>1. adm' = "close_irq"
      BY <1>15 DEF CloseLocked, AdmStep
    <2> QED
      BY <1>15, <2>1, CloseQuiets
  <1>16. CASE CloseIrq
    <2>1. UNCHANGED <<timer, imask, rx_sched, poll, poll_tail, wd, dma_on, init_complete,
                      tx_owned, rx_buffers>>
      BY <1>16 DEF CloseIrq, ringvars, txvars, txring, rxvars, rxring, chipvars, pollvars
    <2>2. MustBeQuiet /\ adm' # "enable"
      BY <1>16 DEF CloseIrq, AdmStep
    <2> QED
      BY <2>1, <2>2, QuietKept
  \* The operations of a device that is open.
  <1>17. ASSUME NEW tx \in TxPendings, NEW rx \in RxPendings, SetRingparam(tx, rx)
         PROVE  QuietInv'
    <2>1. adm = "idle" /\ adm' = "enable" /\ init_complete /\ running' = running
      BY <1>17 DEF SetRingparam, AdmStep, TxSetRing, RestartTx
    <2> QED
      BY <2>1 DEF Quiet
  <1>18. CASE ChangeMtu \/ SetPauseparam
    <2>1. adm = "idle" /\ adm' = "enable" /\ init_complete /\ running' = running
      BY <1>18 DEF ChangeMtu, SetPauseparam, AdmStep, TxSilentRestart, RestartTx
    <2> QED
      BY <2>1 DEF Quiet
  <1>19. CASE Suspend \/ SuspendLocked
    BY <1>19 DEF Suspend, SuspendLocked, AdmStep
  <1>20. ~EthtoolClosed
    BY DEF EthtoolClosed
  <1>21. CASE UNCHANGED vars
    <2>1. UNCHANGED <<running, adm, timer, imask, rx_sched, poll, poll_tail, wd, dma_on,
                      init_complete, tx_owned, rx_buffers>>
      BY <1>21 DEF vars, ringvars, irqvars, txvars, txring, rxvars, rxring, chipvars, pollvars
    <2> QED
      BY <2>1, QuietKept
  <1> QED
    BY <1>1, <1>2, <1>3, <1>4, <1>5, <1>6, <1>7, <1>8, <1>9, <1>10, <1>11, <1>12, <1>13, <1>14,
       <1>15, <1>16, <1>17, <1>18, <1>19, <1>20, <1>21
    DEF Next, Softirq, Poll, AdmContinue, AdmBegin

(***************************************************************************)
(* Whatever was going on when b44_close was called, on one processor it    *)
(* leaves no timer, no interrupt source, no poll, no half-done watchdog,   *)
(* and every buffer of both rings is freed; b44_open finds it so.          *)
(***************************************************************************)
THEOREM DriverClosedQuiet ==
  ASSUME "smp" \notin Env, "closed" \notin Env, "cold" \notin Env
  PROVE  Spec => []ClosedQuiet
  <1> DEFINE Inv == TxInv /\ TimerInv /\ StopInv /\ QuietInv
  <1>1. Init => Inv
    <2> SUFFICES ASSUME Init PROVE Inv
      OBVIOUS
    <2>1. TxInv
      BY TxInitInv DEF Init
    <2>2. TimerInv /\ StopInv
      BY DEF Init, TimerInv, StopInv, StopAfterPoll, Closing
    <2>3. RxOwned = {}
      BY DEF Init, RxInit, RxOwned
    <2>4. QuietInv
      BY <2>3 DEF Init, TxInit, ChipInit, QuietInv, Quiet, SoftirqBusy
    <2> QED
      BY <2>1, <2>2, <2>4
  <1>2. Inv /\ [Next]_vars => Inv'
    <2> SUFFICES ASSUME Inv, [Next]_vars PROVE Inv'
      OBVIOUS
    <2>1. TxInv'
      BY StepImplTx, TxStepInv
    <2> QED
      BY <2>1, StepTimer, StepStop, StepQuiet
  <1>3. Inv => ClosedQuiet
    BY DEF QuietInv, MustBeQuiet, Quiet, ClosedQuiet
  <1> QED
    BY <1>1, <1>2, <1>3, PTL DEF Spec

-----------------------------------------------------------------------------
(***************************************************************************)
(* The interrupt handler and the poll.  As long as nobody but b44_poll     *)
(* restarts the open device they hand the interrupt mask to each other:    *)
(* b44_enable_ints is called by b44_poll when it has taken itself off the  *)
(* poll list, by b44_open on a chip that has just been reset, and by       *)
(* ethtool on a device that is not open and whose chip raises nothing.     *)
(***************************************************************************)
Undisturbed == Env \cap {"timeout", "close", "mtu", "resize", "sleep"} = {}

MaskInv ==
  /\ rx_sched => ~imask
  /\ poll # "idle" => rx_sched
  /\ poll_tail => ~imask /\ ~rx_sched
  /\ wd = "idle"
  /\ ~init_complete => ~dma_on /\ istat = {} /\ ~rx_sched /\ ~poll_tail
  /\ ~running => ~init_complete
  /\ adm \in {"open_timer", "open_enable"} => ~imask /\ ~rx_sched /\ ~poll_tail /\ init_complete
  /\ adm \in {"open", "enable"} => ~init_complete
  /\ adm \in {"idle", "open", "open_timer", "open_enable", "enable", "dead"}

\* The steps that are left.
LEMMA UndisturbedSteps ==
  ASSUME Undisturbed, MaskInv, [Next]_vars
  PROVE  \/ Chip \/ IrqEnter \/ IrqAck \/ Poll \/ Timer \/ TimerRearm \/ Xmit
         \/ Open \/ OpenFails \/ (\E cold \in BOOLEAN : OpenLocked(cold)) \/ OpenTimer \/ AdmEnable
         \/ (SetPauseparam /\ ~init_complete) \/ EthtoolClosed \/ UNCHANGED vars
  <1>1. ~Watchdog
    BY DEF Watchdog, TxTimeout, Undisturbed
  <1>2. ~WatchdogEnable /\ ~WatchdogWake
    BY DEF WatchdogEnable, WatchdogWake, MaskInv
  <1>3. ~Close /\ ~CloseStop /\ ~CloseTimer /\ ~CloseIrq
    BY DEF Close, CloseStop, CloseTimer, CloseIrq, AdmStep, MaskInv, Undisturbed
  <1>4. ~CloseLocked
    BY DEF CloseLocked, AdmStep, MaskInv
  <1>5. ~Suspend /\ ~ResumeTimer
    BY DEF Suspend, ResumeTimer, AdmStep, MaskInv, Undisturbed
  <1>6. ~SuspendLocked
    BY DEF SuspendLocked, AdmStep, MaskInv
  <1>7. ~ (\E cold \in BOOLEAN : ResumeLocked(cold))
    BY DEF ResumeLocked, AdmStep, MaskInv
  <1>8. ~ (\E tx \in TxPendings, rx \in RxPendings : SetRingparam(tx, rx))
    BY DEF SetRingparam, TxSetRing, Undisturbed
  <1>9. ~ChangeMtu
    BY DEF ChangeMtu, TxSilentRestart, Undisturbed
  <1>10. SetPauseparam => ~init_complete
    BY DEF SetPauseparam, Undisturbed
  <1> QED
    BY <1>1, <1>2, <1>3, <1>4, <1>5, <1>6, <1>7, <1>8, <1>9, <1>10
    DEF Next, Softirq, AdmContinue, AdmBegin

\* Sending and the parts of b44_poll that do not restart the chip leave it open
\* and running.
LEMMA StaysOpen ==
  ASSUME Xmit \/ PollTx \/ PollRx \/ PollRxPacket \/ PollRxEnd
  PROVE  UNCHANGED <<init_complete, dma_on>>
  <1>1. CASE Xmit
    <2>1. TxXmit
      BY <1>1 DEF Xmit
    <2> QED
      BY <2>1 DEF TxXmit, StartXmit, StartXmitFull, StartXmitBounce, StartXmitNoBounce, PostTx,
                  chipvars
  <1>2. CASE PollTx
    BY <1>2 DEF PollTx, b44_tx, chipvars
  <1>3. CASE PollRx
    BY <1>3 DEF PollRx, RxBegin, chipvars
  <1>4. CASE PollRxPacket
    <2>1. RxPacket
      BY <1>4 DEF PollRxPacket
    <2> QED
      BY <2>1 DEF RxPacket, RxDrop, RxDeliver, RxCopy, RxNoMem, NextPkt, chipvars
  <1>5. CASE PollRxEnd
    BY <1>5 DEF PollRxEnd, RxEnd, chipvars
  <1> QED
    BY <1>1, <1>2, <1>3, <1>4, <1>5

LEMMA StepMask ==
  ASSUME Undisturbed, TimerInv, MaskInv, [Next]_vars
  PROVE  MaskInv'
  <1> USE DEF MaskInv, irqvars, netvars, pollvars, ctxvars
  <1>1. CASE ChipTx
    BY <1>1 DEF ChipTx, HwTx, Raise, chipvars
  <1>2. ASSUME NEW kind \in FrameKinds, ChipRx(kind) PROVE MaskInv'
    BY <1>2 DEF ChipRx, HwRx, RxMayFill, Raise, chipvars
  <1>3. CASE ChipError
    BY <1>3 DEF ChipError, Raise, ringvars, chipvars
  <1>4. CASE IrqEnter
    BY <1>4 DEF IrqEnter, LockTaken
  <1>5. CASE IrqAck
    BY <1>5 DEF IrqAck, IrqUnlocks
  <1>6. CASE PollTx
    BY <1>6, StaysOpen DEF PollTx
  <1>7. CASE PollRx
    BY <1>7, StaysOpen DEF PollRx
  <1>8. CASE PollRxPacket
    BY <1>8, StaysOpen DEF PollRxPacket
  <1>9. CASE PollRxEnd
    <2>1. /\ poll = "loop" /\ poll' = "err"
          /\ UNCHANGED <<rx_sched, poll_tail, irqvars, netvars, ctxvars>>
      BY <1>9 DEF PollRxEnd
    <2> QED
      BY <1>9, <2>1, StaysOpen
  <1>10. CASE PollNoErr
    BY <1>10 DEF PollNoErr, ringvars, chipvars
  <1>11. CASE PollErr
    BY <1>11 DEF PollErr, TxErrorRestart, RestartTx, ResetIrq
  <1>12. CASE PollComplete
    BY <1>12 DEF PollComplete, ringvars, chipvars
  <1>13. CASE PollEnable
    BY <1>13 DEF PollEnable, EnableInts, ringvars, chipvars
  <1>14. CASE Timer \/ TimerRearm
    BY <1>14 DEF Timer, TimerRearm, ringvars, chipvars
  <1>15. CASE Xmit
    BY <1>15, StaysOpen DEF Xmit
  <1>16. CASE Open \/ OpenFails
    BY <1>16 DEF Open, OpenFails, AdmStep, ringvars, chipvars
  <1>17. ASSUME NEW cold \in BOOLEAN, OpenLocked(cold) PROVE MaskInv'
    <2>1. /\ adm = "open" /\ adm' = "open_timer" /\ init_complete' = TRUE /\ ResetIrq
          /\ UNCHANGED <<netvars, pollvars, wd>>
      BY <1>17 DEF OpenLocked, AdmStep, TxOpen, InitTx
    <2>2. running
      BY <2>1 DEF TimerInv
    <2> QED
      BY <2>1, <2>2 DEF ResetIrq
  <1>18. CASE OpenTimer
    BY <1>18 DEF OpenTimer, AdmStep, ringvars, chipvars
  <1>19. CASE AdmEnable
    BY <1>19 DEF AdmEnable, EnableInts, AdmStep, ringvars, chipvars
  <1>20. CASE SetPauseparam /\ ~init_complete
    BY <1>20 DEF SetPauseparam, AdmStep, ringvars, chipvars
  <1>21. CASE EthtoolClosed
    BY <1>21 DEF EthtoolClosed, LockTaken, ResetIrq, AdmStep
  <1>22. CASE UNCHANGED vars
    BY <1>22 DEF vars, ringvars, chipvars
  <1> QED
    BY <1>1, <1>2, <1>3, <1>4, <1>5, <1>6, <1>7, <1>8, <1>9, <1>10, <1>11, <1>12, <1>13,
       <1>14, <1>15, <1>16, <1>17, <1>18, <1>19, <1>20, <1>21, <1>22, UndisturbedSteps
    DEF Chip, Poll

(***************************************************************************)
(* As long as nobody else restarts the open device, b44_interrupt never    *)
(* finds the poll already scheduled: on any number of processors, with an  *)
(* error interrupt that makes b44_poll restart the chip, and with ethtool  *)
(* used before the device is opened.                                       *)
(***************************************************************************)
THEOREM DriverPollMasked ==
  ASSUME Undisturbed
  PROVE  Spec => []PollMasked
  <1>1. Init => TimerInv /\ MaskInv
    BY DEF Init, TxInit, ChipInit, TimerInv, MaskInv
  <1>2. MaskInv => PollMasked
    BY DEF MaskInv, PollMasked
  <1> QED
    BY <1>1, <1>2, StepTimer, StepMask, PTL DEF Spec

(***************************************************************************)
(* No event is lost.  The events the handler is about to acknowledge are   *)
(* those of the poll it has scheduled; b44_rx runs only inside a poll that *)
(* is for received frames, and a frame that comes in after it has read the *)
(* chip's position has its event raised anew.                              *)
(***************************************************************************)
KeptInv ==
  /\ lock = "irq" => rx_sched /\ poll = "idle" /\ irq_istat = bp_istat
  /\ InLoop => poll = "loop"
  /\ poll = "loop" => "RX" \in bp_istat
  /\ InLoop /\ rx_call.prod # dmarx_cur => "RX" \in istat
  /\ poll = "complete" /\ running /\ dma_on /\ dmarx_cur # RxFirst => "RX" \in istat
  /\ EventsKept

\* A step that touches none of it.
LEMMA KeptKept ==
  ASSUME KeptInv, lock' = lock \/ lock' # "irq",
         UNCHANGED <<dma_on, istat, bp_istat, irq_istat, running, rx_sched, poll, poll_done,
                     dmatx_cur, tx_cons, dmarx_cur, rx_cons, rx_call>>
  PROVE  KeptInv'
  BY DEF KeptInv, EventsKept, TxEventKept, RxEventKept, RxFirst, InLoop

\* After a reset of a chip that was found up nothing is outstanding.
LEMMA ResetKept ==
  ASSUME dmatx_cur' = tx_cons', dmarx_cur' = rx_cons', ~InLoop', lock' # "irq", poll' # "loop"
  PROVE  KeptInv'
  BY DEF KeptInv, EventsKept, TxEventKept, RxEventKept, RxFirst

\* The chip raises the event of what it has done; the handler takes the events
\* over and acknowledges those it took.
LEMMA ChipKept ==
  ASSUME KeptInv, Chip
  PROVE  KeptInv'
  <1> USE DEF KeptInv, EventsKept, TxEventKept, RxEventKept, netvars, pollvars, chipvars
  <1>1. CASE ChipTx
    <2>1. /\ istat' = istat \cup {"TX"}
          /\ UNCHANGED <<lock, dma_on, bp_istat, irq_istat, running, rx_sched, poll, poll_done,
                         dmarx_cur, rx_cons, rx_call>>
      BY <1>1 DEF ChipTx, HwTx, Raise, rxvars, rxring
    <2> QED
      BY <2>1 DEF RxFirst, InLoop
  <1>2. ASSUME NEW kind \in FrameKinds, ChipRx(kind) PROVE KeptInv'
    <2>1. /\ istat' = istat \cup {"RX"}
          /\ UNCHANGED <<lock, dma_on, bp_istat, irq_istat, running, rx_sched, poll, poll_done,
                         dmatx_cur, tx_cons, rx_cons, rx_call>>
      BY <1>2 DEF ChipRx, HwRx, Raise, txvars, txring
    <2> QED
      BY <2>1 DEF RxFirst, InLoop
  <1>3. CASE ChipError
    <2>1. /\ istat' = istat \cup {"ERR"}
          /\ UNCHANGED <<lock, dma_on, bp_istat, irq_istat, running, rx_sched, poll, poll_done,
                         dmatx_cur, tx_cons, dmarx_cur, rx_cons, rx_call>>
      BY <1>3 DEF ChipError, Raise, ringvars, txvars, txring, rxvars, rxring
    <2> QED
      BY <2>1 DEF RxFirst, InLoop
  <1> QED
    BY <1>1, <1>2, <1>3 DEF Chip

LEMMA IrqKept ==
  ASSUME MaskInv, KeptInv, IrqEnter \/ IrqAck
  PROVE  KeptInv'
  <1>1. CASE IrqEnter
    <2>1. running /\ ~rx_sched /\ poll = "idle" /\ ~InLoop
      BY <1>1 DEF IrqEnter, MaskInv, KeptInv
    <2>2. /\ bp_istat' = istat /\ irq_istat' = istat /\ rx_sched'
          /\ UNCHANGED <<dma_on, istat, running, poll, poll_done, dmatx_cur, tx_cons, dmarx_cur,
                         rx_cons, rx_call>>
      BY <1>1, <2>1 DEF IrqEnter, LockTaken, txvars, txring, rxvars, rxring, netvars
    <2> QED
      BY <2>1, <2>2 DEF KeptInv, EventsKept, TxEventKept, RxEventKept, RxFirst, InLoop
  <1>2. CASE IrqAck
    <2>1. rx_sched /\ poll = "idle" /\ irq_istat = bp_istat /\ ~InLoop
      BY <1>2 DEF IrqAck, IrqUnlocks, KeptInv
    <2>2. /\ istat' = istat \ bp_istat /\ lock' = "free"
          /\ UNCHANGED <<dma_on, bp_istat, running, rx_sched, poll, poll_done, dmatx_cur, tx_cons,
                         dmarx_cur, rx_cons, rx_call>>
      BY <1>2, <2>1 DEF IrqAck, IrqUnlocks, txvars, txring, rxvars, rxring, netvars, pollvars
    <2> QED
      BY <2>1, <2>2 DEF KeptInv, EventsKept, TxEventKept, RxEventKept, RxFirst, InLoop
  <1> QED
    BY <1>1, <1>2

\* b44_poll up to the end of b44_rx.
LEMMA PollRingsKept ==
  ASSUME RxBasic, TxNoBug', MaskInv, KeptInv, PollTx \/ PollRx \/ PollRxPacket \/ PollRxEnd
  PROVE  KeptInv'
  <1> USE DEF KeptInv, EventsKept, TxEventKept, RxEventKept
  <1>1. CASE PollTx
    <2>1. /\ lock = "free" /\ poll = "idle" /\ rx_sched /\ poll' = "rx"
          /\ UNCHANGED <<istat, bp_istat, irq_istat, running, rx_sched, dmarx_cur, rx_cons, rx_call>>
      BY <1>1 DEF PollTx, LockFree, rxvars, rxring, irqvars, netvars
    <2>2. dma_on' = dma_on /\ lock' # "irq"
      BY <1>1, <2>1, StaysOpen DEF PollTx, b44_tx, chipvars
    <2>3. RxEventKept'
      BY <2>1, <2>2 DEF RxFirst, InLoop
    <2>4. CASE "TX" \in bp_istat
      <3>1. tx_cons' = dmatx_cur /\ dmatx_cur' = dmatx_cur
        BY <1>1, <2>4 DEF PollTx, b44_tx, TxNoBug
      <3> QED
        BY <2>1, <2>2, <2>3, <3>1 DEF InLoop
    <2>5. CASE "TX" \notin bp_istat
      <3>1. UNCHANGED <<tx_cons, dmatx_cur>>
        BY <1>1, <2>5 DEF PollTx, txvars, txring
      <3> QED
        BY <2>1, <2>2, <2>3, <2>5, <3>1 DEF InLoop
    <2> QED
      BY <2>4, <2>5
  <1>2. CASE PollRx
    <2>1. /\ poll = "rx" /\ rx_sched /\ ~InLoop /\ lock # "irq"
          /\ UNCHANGED <<istat, bp_istat, irq_istat, running, rx_sched, poll_done, dmatx_cur, tx_cons>>
      BY <1>2 DEF PollRx, txvars, txring, irqvars, netvars, MaskInv
    <2>2. UNCHANGED <<dma_on, lock, dmarx_cur, rx_cons>>
      BY <1>2 DEF PollRx, RxBegin, rxvars, rxring, chipvars
    <2>3. CASE "RX" \in bp_istat
      <3>1. poll' = "loop"
        BY <1>2, <2>3 DEF PollRx
      <3>2. rx_call'.prod = dmarx_cur
        BY <1>2, <2>3 DEF PollRx, RxBegin
      <3> QED
        BY <2>1, <2>2, <2>3, <3>1, <3>2
    <2>4. CASE "RX" \notin bp_istat
      <3>1. poll' = "err" /\ rx_call' = rx_call
        BY <1>2, <2>4 DEF PollRx, rxvars
      <3> QED
        BY <2>1, <2>2, <2>4, <3>1 DEF InLoop, RxFirst
    <2> QED
      BY <2>3, <2>4
  <1>3. CASE PollRxPacket
    <2>1. /\ poll = "loop" /\ rx_sched /\ lock # "irq" /\ RxPacket
          /\ UNCHANGED <<istat, bp_istat, irq_istat, running, rx_sched, poll, poll_done, dmatx_cur,
                         tx_cons>>
      BY <1>3 DEF PollRxPacket, txvars, txring, irqvars, netvars, pollvars, MaskInv
    <2>2. UNCHANGED <<dma_on, lock, dmarx_cur>> /\ InLoop
      BY <2>1 DEF RxPacket, RxDrop, RxDeliver, RxCopy, RxNoMem, NextPkt, rxring, chipvars
    <2>3. rx_call'.prod = rx_call.prod
      <3>1. rx_call \in [pc : {"loop", "oops"}, cons : RxSlot, prod : RxSlot, budget : Nat]
        BY <2>2, NoCallIdle DEF RxBasic, RxTypeOK, InLoop
      <3>2. \/ rx_call' = [rx_call EXCEPT !.pc = "oops"]
            \/ \E d \in {0, 1} : rx_call' = [rx_call EXCEPT !.cons = NextRx(@), !.budget = @ - d]
        BY <2>1 DEF RxPacket, RxDrop, RxDeliver, RxCopy, RxNoMem, NextPkt
      <3> QED
        BY <3>1, <3>2
    <2> QED
      BY <2>1, <2>2, <2>3
  <1>4. CASE PollRxEnd
    <2>1. /\ poll = "loop" /\ poll' = "err" /\ rx_sched /\ lock # "irq" /\ "RX" \in bp_istat
          /\ UNCHANGED <<istat, bp_istat, irq_istat, running, rx_sched, dmatx_cur, tx_cons>>
      BY <1>4 DEF PollRxEnd, txvars, txring, irqvars, netvars, MaskInv
    <2>2. /\ UNCHANGED <<dma_on, lock, dmarx_cur>> /\ InLoop
          /\ rx_cons' = rx_call.cons /\ rx_call' = NoCall
      BY <1>4 DEF PollRxEnd, RxEnd, chipvars
    <2>3. ~InLoop'
      BY <2>2, NoCallIdle DEF InLoop
    <2>4. poll_done' => rx_call.cons = rx_call.prod
      <3>1. poll_done' = (rx_call.budget > 0)
        BY <1>4 DEF PollRxEnd
      <3>2. rx_call.cons = rx_call.prod \/ rx_call.budget = 0
        BY <1>4 DEF PollRxEnd, RxEnd
      <3>3. ~ (0 > 0)
        OBVIOUS
      <3> QED
        BY <3>1, <3>2, <3>3
    <2>5. RxFirst' = rx_call.cons
      BY <2>2, <2>3 DEF RxFirst
    <2> QED
      BY <2>1, <2>2, <2>3, <2>4, <2>5
  <1> QED
    BY <1>1, <1>2, <1>3, <1>4

\* b44_poll from there on.
LEMMA PollEndKept ==
  ASSUME MaskInv, KeptInv, PollNoErr \/ PollErr \/ PollComplete \/ PollEnable
  PROVE  KeptInv'
  <1>1. CASE PollNoErr
    <2>1. /\ poll = "err" /\ "ERR" \notin bp_istat /\ rx_sched /\ lock # "irq" /\ ~InLoop
          /\ poll' = (IF poll_done THEN "complete" ELSE "idle")
          /\ UNCHANGED <<lock, dma_on, istat, bp_istat, irq_istat, running, rx_sched, poll_done,
                         dmatx_cur, tx_cons, dmarx_cur, rx_cons, rx_call>>
      BY <1>1 DEF PollNoErr, ringvars, txvars, txring, rxvars, rxring, chipvars, irqvars, netvars,
                  MaskInv, KeptInv
    <2> QED
      BY <2>1 DEF KeptInv, EventsKept, TxEventKept, RxEventKept, RxFirst, InLoop
  <1>2. CASE PollErr
    <2>1. dmatx_cur' = tx_cons' /\ lock' # "irq"
      BY <1>2 DEF PollErr, TxErrorRestart, RestartTx, ChipResetTx, LockFree
    <2>2. dmarx_cur' = rx_cons' /\ rx_call' = rx_call /\ poll = "err" /\ poll' = "complete"
      BY <1>2 DEF PollErr, RxRestart, RestartRx, InitHwRx
    <2> QED
      BY <2>1, <2>2, ResetKept DEF KeptInv, InLoop
  <1>3. CASE PollComplete
    <2>1. /\ poll = "complete" /\ poll' = "idle" /\ lock # "irq" /\ ~InLoop
          /\ UNCHANGED <<lock, dma_on, istat, bp_istat, irq_istat, running, poll_done,
                         dmatx_cur, tx_cons, dmarx_cur, rx_cons, rx_call>>
      BY <1>3 DEF PollComplete, ringvars, txvars, txring, rxvars, rxring, chipvars, irqvars, netvars,
                  KeptInv
    <2> QED
      BY <2>1 DEF KeptInv, EventsKept, TxEventKept, RxEventKept, RxFirst, InLoop
  <1>4. CASE PollEnable
    <2>1. UNCHANGED <<lock, dma_on, istat, bp_istat, irq_istat, running, rx_sched, poll, poll_done,
                      dmatx_cur, tx_cons, dmarx_cur, rx_cons, rx_call>>
      BY <1>4 DEF PollEnable, EnableInts, ringvars, txvars, txring, rxvars, rxring, chipvars, netvars
    <2> QED
      BY <2>1, KeptKept
  <1> QED
    BY <1>1, <1>2, <1>3, <1>4

LEMMA StepKept ==
  ASSUME Undisturbed, "closed" \notin Env, "cold" \notin Env,
         RxBasic, TxNoBug', MaskInv, KeptInv, [Next]_vars
  PROVE  KeptInv'
  <1> USE DEF netvars, pollvars, chipvars
  <1>1. CASE Timer \/ TimerRearm \/ OpenTimer \/ SetPauseparam \/ AdmEnable
    <2>1. UNCHANGED <<lock, dma_on, istat, bp_istat, irq_istat, running, rx_sched, poll, poll_done,
                      dmatx_cur, tx_cons, dmarx_cur, rx_cons, rx_call>>
      BY <1>1 DEF Timer, TimerRearm, OpenTimer, SetPauseparam, AdmEnable, EnableInts, irqvars,
                  ringvars, txvars, txring, rxvars, rxring
    <2> QED
      BY <2>1, KeptKept
  <1>2. CASE Xmit
    <2>1. UNCHANGED <<istat, bp_istat, irq_istat, running, rx_sched, poll, poll_done, dmarx_cur,
                      rx_cons, rx_call>> /\ TxXmit
      BY <1>2 DEF Xmit, irqvars, rxvars, rxring
    <2>2. UNCHANGED <<dmatx_cur, tx_cons>> /\ (lock' = lock \/ lock' # "irq")
      BY <2>1 DEF TxXmit, StartXmit, StartXmitFull, StartXmitBounce, StartXmitNoBounce, PostTx,
                  txvars, txring
    <2> QED
      BY <1>2, <2>1, <2>2, StaysOpen, KeptKept
  <1>3. CASE Open \/ OpenFails
    <2>1. ~dma_on
      BY <1>3 DEF Open, OpenFails, AdmStep, MaskInv
    <2>2. UNCHANGED <<lock, dma_on, istat, bp_istat, irq_istat, rx_sched, poll, poll_done,
                      dmatx_cur, tx_cons, dmarx_cur, rx_cons, rx_call>>
      BY <1>3 DEF Open, OpenFails, ringvars, txvars, txring, rxvars, rxring
    <2> QED
      BY <2>1, <2>2 DEF KeptInv, EventsKept, TxEventKept, RxEventKept, InLoop
  <1>4. ASSUME NEW cold \in BOOLEAN, OpenLocked(cold) PROVE KeptInv'
    <2>1. /\ adm = "open" /\ poll' = poll /\ TxOpen(cold) /\ RxOpen(cold)
      BY <1>4 DEF OpenLocked, AdmStep
    <2>2. poll = "idle" /\ ~InLoop
      BY <2>1 DEF MaskInv, KeptInv
    <2>3. ~cold
      BY <2>1 DEF TxOpen, InitTx
    <2>4. dmatx_cur' = tx_cons' /\ lock' # "irq"
      BY <2>1, <2>3 DEF TxOpen, InitTx, ChipResetTx, LockFree
    <2>5. dmarx_cur' = rx_cons' /\ rx_call' = rx_call
      BY <2>1, <2>3 DEF RxOpen, InitRx, InitHwRx
    <2> QED
      BY <2>1, <2>2, <2>4, <2>5, ResetKept DEF InLoop
  <1>5. ~EthtoolClosed
    BY DEF EthtoolClosed
  <1>6. CASE UNCHANGED vars
    <2>1. UNCHANGED <<lock, dma_on, istat, bp_istat, irq_istat, running, rx_sched, poll, poll_done,
                      dmatx_cur, tx_cons, dmarx_cur, rx_cons, rx_call>>
      BY <1>6 DEF vars, irqvars, ringvars, txvars, txring, rxvars, rxring
    <2> QED
      BY <2>1, KeptKept
  <1> QED
    BY <1>1, <1>2, <1>3, <1>4, <1>5, <1>6, UndisturbedSteps, ChipKept, IrqKept, PollRingsKept,
       PollEndKept
    DEF Poll

(***************************************************************************)
(* As long as nobody else restarts the open device no completion and no    *)
(* received frame is forgotten between the chip, the interrupt handler and *)
(* the poll, on any number of processors: not when the chip goes on while  *)
(* the handler acknowledges, not when b44_rx ends with its budget used up  *)
(* or with frames that came in behind its back, not when an error restarts *)
(* the chip.                                                               *)
(***************************************************************************)
THEOREM DriverEventsKept ==
  ASSUME Undisturbed, "closed" \notin Env, "cold" \notin Env
  PROVE  Spec => []EventsKept
  <1> DEFINE Inv == TxInv /\ RxBasic /\ TimerInv /\ MaskInv /\ KeptInv
  <1>1. Init => Inv
    <2> SUFFICES ASSUME Init PROVE Inv
      OBVIOUS
    <2>1. TxInv /\ RxBasic
      BY TxInitInv, RxInitBasic DEF Init
    <2>2. TimerInv /\ MaskInv
      BY DEF Init, TxInit, ChipInit, TimerInv, MaskInv
    <2>3. KeptInv
      BY NoCallIdle DEF Init, TxInit, RxInit, ChipInit, KeptInv, InLoop, EventsKept, TxEventKept,
                        RxEventKept
    <2> QED
      BY <2>1, <2>2, <2>3
  <1>2. Inv /\ [Next]_vars => Inv'
    <2> SUFFICES ASSUME Inv, [Next]_vars PROVE Inv'
      OBVIOUS
    <2>1. TxInv'
      BY StepImplTx, TxStepInv
    <2>2. TxNoBug' /\ TxTypeOK
      BY <2>1 DEF TxInv
    <2>3. RxBasic'
      BY <2>2, StepImplRx, RxStepBasic DEF TxNoBug
    <2> QED
      BY <2>1, <2>2, <2>3, StepTimer, StepMask, StepKept
  <1>3. Inv => EventsKept
    BY DEF KeptInv
  <1> QED
    BY <1>1, <1>2, <1>3, PTL DEF Spec
=============================================================================
