------------------------------ MODULE SbUtils ------------------------------
(***************************************************************************)
(* Silicon Backplane core control (sbutils.c).  A driver reaches all cores *)
(* of its chip through one register window, and the library moves that     *)
(* window ("the focus") under the driver's feet: a call switches to        *)
(* another core, works there and switches back, with the driver's          *)
(* interrupt turned off meanwhile, because its handler would find the      *)
(* window on the wrong core.  Calls run step by step here, so that the     *)
(* handler and the hardware may come in between.                           *)
(***************************************************************************)
EXTENDS Integers, Sequences, FiniteSets

CONSTANTS
  Chips,          \* [cores, ccrev, pwrctl, pcirev]: what there may be to attach
  Dev,            \* the id of the core the driver is for
  Buses,          \* how it may be attached: "PCI", "PCMCIA" or "SB"
  Calls           \* <<function, bus>>: the calls the driver makes

\* The functions of the library that move the focus or change the core's state.
Functions ==
  {"sb_corereg", "sb_commit", "sb_core_tofixup", "sb_clock", "sb_pci_setup", "sb_pwrctl_init",
   "sb_pwrctl_fast_pwrup_delay", "CLK_FAST", "CLK_SLOW", "CLK_DYNAMIC", "sb_core_disable",
   "sb_core_reset"}

\* (si->ccrev is 0 unless the scan finds a chipcommon core.)
ASSUME SbAssumption ==
  /\ Buses \subseteq {"PCI", "PCMCIA", "SB"}
  /\ Calls \subseteq Functions \X Buses
  /\ \A c \in Chips : /\ c.cores \in Seq({"CC", "EXTIF", "PCI"} \cup {Dev})
                      /\ Cardinality({i \in 1 .. Len(c.cores) : c.cores[i] = Dev}) = 1
                      /\ c.ccrev \in Nat /\ c.pwrctl \in BOOLEAN /\ c.pcirev \in Nat
                      /\ c.ccrev > 0 => \E i \in 1 .. Len(c.cores) : c.cores[i] = "CC"

VARIABLES
  bus,            \* si->bus, "none" before sb_attach
  chip,           \* the chip, with si->coreid[], si->ccrev and si->pcirev
  curidx,         \* si->curidx, and where the window points
  hooked,         \* si->intrsoff_fn is set, and si->dev_coreid is Dev
  want,           \* the core the driver has left the focus on
  wants_intrs,    \* the driver has its interrupts on
  intmask,        \* they are on in the chip
  dpc,            \* the handler has turned them off and will do its work later
  code,           \* the steps left of the call in progress
  vals,           \* intr_val of the functions that are active, innermost first
  memseg,         \* MEM_SEG: the upper half of the registers is in the window
  tml,            \* the driver's core: its sbtmstatelow
  rejecting,      \* it refuses new backplane transactions
  busy            \* it is in the middle of one

drv == <<want, wants_intrs, dpc>>
core == <<tml, rejecting, busy>>
vars == <<bus, chip, curidx, hooked, intmask, drv, code, vals, memseg, core>>

BADIDX == 17      \* SB_MAXCORES + 1
GOODIDX(i) == i < 16

Idx(c) == 0 .. (Len(c.cores) - 1)

sb_findcoreidx(c, id) ==
  IF \E i \in Idx(c) : c.cores[i + 1] = id
  THEN CHOOSE i \in Idx(c) : c.cores[i + 1] = id /\ \A j \in 0 .. (i - 1) : c.cores[j + 1] # id
  ELSE BADIDX

DevIdx == sb_findcoreidx(chip, Dev)

\* sb_scan: the core that controls the GPIO pins.  (The last test takes "not
\* found" for found, and core 0 for not found.)
GpioIdx(c) ==
  CASE GOODIDX(sb_findcoreidx(c, "CC")) -> sb_findcoreidx(c, "CC")
    [] ~GOODIDX(sb_findcoreidx(c, "CC")) /\ GOODIDX(sb_findcoreidx(c, "PCI")) /\ c.pcirev >= 2 ->
         sb_findcoreidx(c, "PCI")
    [] OTHER -> IF sb_findcoreidx(c, "EXTIF") # 0 THEN sb_findcoreidx(c, "EXTIF") ELSE BADIDX

\* Only a compact flash card has its registers in two halves.
Segmented == bus = "PCMCIA"

-----------------------------------------------------------------------------
\* The steps of a call.

Do(k, i, upper, bits) == [k |-> k, idx |-> i, upper |-> upper, bits |-> bits]

Enter == <<Do("enter", 0, FALSE, {})>>      \* uint intr_val = 0
Leave == <<Do("leave", 0, FALSE, {})>>
IntrOff == <<Do("INTR_OFF", 0, FALSE, {})>>
IntrRestore == <<Do("INTR_RESTORE", 0, FALSE, {})>>
Focus(i) == <<Do("focus", i, FALSE, {})>>
Seg(on) == <<Do("seg", 0, on, {})>>
Await(what) == <<Do("await", 0, FALSE, {what})>>

\* R_REG and W_REG, at core i, of a register in the lower half.
Reg(i) == <<Do("reg", i, FALSE, {})>>

\* sb_read_sbreg and sb_write_sbreg, around one access.  (A definition whose
\* name begins with "Mut" is a mutation of the definition that follows it: what
\* a plausible slip in that code would have written.)
MutSbReg(access) == IF ~Segmented THEN access ELSE Seg(TRUE) \o access \o Seg(FALSE)

SbReg(access) ==
  IF ~Segmented THEN access
  ELSE Enter \o IntrOff \o Seg(TRUE) \o access \o Seg(FALSE) \o IntrRestore \o Leave

\* A register of the configuration block, which lies in the upper half.
R_SBREG(i) == SbReg(<<Do("reg", i, TRUE, {})>>)
SET_SBREG(i) == R_SBREG(i) \o R_SBREG(i)
W_TML(bits) == SbReg(<<Do("tml", curidx, TRUE, bits)>>)

\* sb_gpio*, sb_watchdog: one mask and set, then a readback with R_SBREG,
\* although the register is not one of the configuration block.
sb_corereg(i) ==
  Enter \o IntrOff \o Focus(i) \o Reg(i) \o Reg(i) \o SbReg(Reg(i))
  \o (IF curidx # i THEN Focus(curidx) ELSE <<>>)
  \o IntrRestore \o Leave

sb_commit(orig) ==
  LET i == sb_findcoreidx(chip, "PCI") IN
  Enter \o IntrOff \o Focus(i) \o Reg(i) \o Reg(i) \o Focus(orig) \o IntrRestore \o Leave

sb_core_tofixup == IF chip.pcirev >= 5 THEN <<>> ELSE SET_SBREG(curidx) \o sb_commit(curidx)

sb_clock ==
  LET extif == sb_findcoreidx(chip, "EXTIF")
      cc == sb_findcoreidx(chip, "CC")
      there == {i \in {extif, cc} : GOODIDX(i)}
      i == IF GOODIDX(extif) THEN extif ELSE cc
  IN Enter \o IntrOff
     \o (IF there = {} THEN <<>>
         ELSE Focus(i) \o (IF i = extif THEN <<>> ELSE Reg(i)) \o Reg(i) \o Reg(i) \o Focus(curidx))
     \o IntrRestore \o Leave

sb_pci_setup ==
  LET i == sb_findcoreidx(chip, "PCI") IN
  IF bus # "PCI" THEN <<>>
  ELSE R_SBREG(curidx) \o Focus(i)
       \o (IF chip.pcirev < 6 THEN SET_SBREG(i) ELSE <<>>)
       \o Reg(i) \o Reg(i)
       \o (IF chip.pcirev < 5 THEN SET_SBREG(i) \o sb_commit(i) ELSE <<>>)
       \o Focus(curidx)

\* slowfreq reads two registers of the chipcommon core, which has the focus.
slowfreq(cc) == Focus(cc) \o Reg(cc) \o Reg(cc)

sb_pwrctl_init ==
  LET cc == sb_findcoreidx(chip, "CC") IN
  IF bus = "SB" \/ ~GOODIDX(cc) THEN <<>>
  ELSE Focus(cc) \o Reg(cc)
       \o (IF ~chip.pwrctl THEN <<>>
           ELSE slowfreq(cc) \o Reg(cc) \o Reg(cc)
                \o (IF bus = "PCMCIA" THEN Reg(cc) \o Reg(cc) ELSE <<>>))
       \o Focus(curidx)

\* On a system backplane it goes to its end before it has turned interrupts
\* off, and there restores them from an intr_val that is still 0.
sb_pwrctl_fast_pwrup_delay ==
  LET cc == sb_findcoreidx(chip, "CC") IN
  Enter
  \o (IF bus = "SB" THEN <<>>
      ELSE IntrOff
           \o (IF ~GOODIDX(cc) THEN <<>>
               ELSE Focus(cc) \o Reg(cc) \o (IF chip.pwrctl THEN slowfreq(cc) \o Reg(cc) ELSE <<>>)))
  \o Focus(curidx) \o IntrRestore \o Leave

\* Forcing the slow clock on a card returns at once, out of the middle.
sb_pwrctl_clk(mode) ==
  LET cc == sb_findcoreidx(chip, "CC")
      done == Focus(curidx) \o IntrRestore \o Leave
  IN
  IF chip.ccrev < 6 THEN <<>>
  ELSE Enter \o IntrOff \o Focus(cc) \o Reg(cc)
       \o CASE ~chip.pwrctl -> done
            [] chip.pwrctl /\ mode = "CLK_SLOW" /\ bus = "PCMCIA" -> Leave
            [] OTHER -> Reg(cc) \o Reg(cc) \o done

\* (Mutated: without the reject bit.)
Mutsb_core_disable ==
  R_SBREG(curidx) \o
  CASE "RESET" \in tml -> <<>>
    [] "RESET" \notin tml /\ "CLK" \notin tml -> R_SBREG(curidx) \o W_TML({"REJ", "RESET"})
    [] OTHER -> R_SBREG(curidx) \o Await("idle")
                \o W_TML({"FGC", "CLK", "REJ", "RESET"}) \o R_SBREG(curidx)
                \o W_TML({"REJ", "RESET"})

sb_core_disable ==
  R_SBREG(curidx) \o
  CASE "RESET" \in tml -> <<>>
    [] "RESET" \notin tml /\ "CLK" \notin tml -> R_SBREG(curidx) \o W_TML({"REJ", "RESET"})
    [] OTHER -> R_SBREG(curidx) \o W_TML({"CLK", "REJ"})
                \o R_SBREG(curidx) \o Await("reject") \o R_SBREG(curidx) \o Await("idle")
                \o W_TML({"FGC", "CLK", "REJ", "RESET"}) \o R_SBREG(curidx)
                \o W_TML({"REJ", "RESET"})

sb_core_reset ==
  sb_core_disable
  \o W_TML({"FGC", "CLK", "RESET"}) \o R_SBREG(curidx) \o R_SBREG(curidx) \o R_SBREG(curidx)
  \o W_TML({"FGC", "CLK"}) \o R_SBREG(curidx) \o W_TML({"CLK"}) \o R_SBREG(curidx)

Body(f) ==
  CASE f = "sb_corereg" -> sb_corereg(GpioIdx(chip))
    [] f = "sb_commit" -> sb_commit(curidx)
    [] f = "sb_core_tofixup" -> sb_core_tofixup
    [] f = "sb_clock" -> sb_clock
    [] f = "sb_pci_setup" -> sb_pci_setup
    [] f = "sb_pwrctl_init" -> sb_pwrctl_init
    [] f = "sb_pwrctl_fast_pwrup_delay" -> sb_pwrctl_fast_pwrup_delay
    [] f \in {"CLK_FAST", "CLK_SLOW", "CLK_DYNAMIC"} -> sb_pwrctl_clk(f)
    [] f = "sb_core_disable" -> sb_core_disable
    [] f = "sb_core_reset" -> sb_core_reset

\* These do not turn interrupts off: drivers call them with theirs off.
Unprotected == {"sb_pci_setup", "sb_pwrctl_init", "sb_core_disable", "sb_core_reset"}

-----------------------------------------------------------------------------
Init ==
  /\ bus = "none" /\ chip \in Chips
  /\ curidx = 0 /\ want = 0
  /\ hooked = FALSE /\ wants_intrs = FALSE /\ intmask = FALSE /\ dpc = FALSE
  /\ code = <<>> /\ vals = <<>> /\ memseg = FALSE
  /\ tml \in {{"CLK"}, {}, {"REJ", "RESET"}} /\ rejecting = ("REJ" \in tml) /\ busy = FALSE

Idle == bus # "none" /\ code = <<>>

Attachable == GOODIDX(sb_findcoreidx(chip, "PCI")) /\ GOODIDX(GpioIdx(chip))

\* "pci core is required", "gpio control core is required".  The window is on
\* the driver's core and is put back there after the scan.
Mutsb_attach(b) ==
  /\ bus = "none" /\ GOODIDX(GpioIdx(chip))
  /\ bus' = b /\ curidx' = DevIdx /\ want' = DevIdx /\ hooked' = FALSE
  /\ UNCHANGED <<chip, wants_intrs, intmask, dpc, code, vals, memseg, core>>

sb_attach(b) ==
  /\ bus = "none" /\ Attachable
  /\ bus' = b /\ curidx' = DevIdx /\ want' = DevIdx /\ hooked' = FALSE
  /\ UNCHANGED <<chip, wants_intrs, intmask, dpc, code, vals, memseg, core>>

\* bad: the handle is freed again, and the driver gives up.
sb_attach_bad == bus = "none" /\ ~Attachable /\ UNCHANGED vars

\* The driver detaches when its interrupts are off and its core is its own.
sb_detach ==
  /\ Idle /\ want = DevIdx /\ ~wants_intrs
  /\ bus' = "none"
  /\ UNCHANGED <<chip, curidx, hooked, intmask, drv, code, vals, memseg, core>>

\* "when this function called, the current core must be the core which
\* provides driver functions".
sb_register_intr_callback ==
  /\ Idle /\ want = DevIdx /\ ~hooked
  /\ hooked' = TRUE
  /\ UNCHANGED <<bus, chip, curidx, intmask, drv, code, vals, memseg, core>>

\* The driver moves the focus itself (sb_setcore, sb_gpiosetcore), with its
\* interrupts off: "assert interrupts are disabled before switching the core".
sb_setcoreidx(i) ==
  /\ Idle /\ ~wants_intrs /\ i \in Idx(chip) \ {want}
  /\ curidx' = i /\ want' = i
  /\ UNCHANGED <<bus, chip, hooked, wants_intrs, intmask, dpc, code, vals, memseg, core>>

\* The driver turns its interrupts on, once the library can turn them off, and
\* off.
IntrsOn ==
  /\ Idle /\ want = DevIdx /\ hooked /\ ~wants_intrs /\ tml = {"CLK"}
  /\ wants_intrs' = TRUE /\ intmask' = TRUE
  /\ UNCHANGED <<bus, chip, curidx, hooked, want, dpc, code, vals, memseg, core>>

IntrsOff ==
  /\ Idle /\ wants_intrs
  /\ wants_intrs' = FALSE /\ intmask' = FALSE /\ dpc' = FALSE
  /\ UNCHANGED <<bus, chip, curidx, hooked, want, code, vals, memseg, core>>

\* The handler may run between any two steps.  It turns the interrupt off, and
\* the work it leaves for later, outside of any call, turns it on again.
Isr ==
  /\ intmask
  /\ intmask' = FALSE /\ dpc' = TRUE
  /\ UNCHANGED <<bus, chip, curidx, hooked, want, wants_intrs, code, vals, memseg, core>>

Dpc ==
  /\ Idle /\ dpc
  /\ intmask' = TRUE /\ dpc' = FALSE
  /\ UNCHANGED <<bus, chip, curidx, hooked, want, wants_intrs, code, vals, memseg, core>>

-----------------------------------------------------------------------------
Call(f) ==
  /\ Idle /\ <<f, bus>> \in Calls
  /\ f \in Unprotected => ~wants_intrs
  /\ f \in {"sb_core_disable", "sb_core_reset"} => want = DevIdx
  /\ Body(f) # <<>>
  /\ code' = Body(f)
  /\ UNCHANGED <<bus, chip, curidx, hooked, intmask, drv, vals, memseg, core>>

\* INTR_OFF and INTR_RESTORE look whether the focus is on the driver's core.
OnDev == hooked /\ curidx = DevIdx

Step(k) == code # <<>> /\ Head(code).k = k /\ code' = Tail(code)

EnterLeave ==
  /\ \/ Step("enter") /\ vals' = <<FALSE>> \o vals
     \/ Step("leave") /\ vals' = Tail(vals)
  /\ UNCHANGED <<bus, chip, curidx, hooked, intmask, drv, memseg, core>>

INTR_OFF ==
  /\ Step("INTR_OFF")
  /\ IF OnDev THEN vals' = [vals EXCEPT ![1] = intmask] /\ intmask' = FALSE
     ELSE UNCHANGED <<vals, intmask>>
  /\ UNCHANGED <<bus, chip, curidx, hooked, drv, memseg, core>>

\* (Mutated: restored to "on", whatever they were.)
MutINTR_RESTORE ==
  /\ Step("INTR_RESTORE")
  /\ intmask' = IF OnDev THEN TRUE ELSE intmask
  /\ UNCHANGED <<bus, chip, curidx, hooked, drv, vals, memseg, core>>

INTR_RESTORE ==
  /\ Step("INTR_RESTORE")
  /\ intmask' = IF OnDev THEN vals[1] ELSE intmask
  /\ UNCHANGED <<bus, chip, curidx, hooked, drv, vals, memseg, core>>

\* sb_setcoreidx leaves the focus alone if there is no such core.
SetFocus ==
  /\ Step("focus")
  /\ curidx' = IF Head(code).idx \in Idx(chip) THEN Head(code).idx ELSE curidx
  /\ UNCHANGED <<bus, chip, hooked, intmask, drv, vals, memseg, core>>

SetSeg ==
  /\ Step("seg") /\ memseg' = Head(code).upper
  /\ UNCHANGED <<bus, chip, curidx, hooked, intmask, drv, vals, core>>

Access ==
  /\ Step("reg")
  /\ UNCHANGED <<bus, chip, curidx, hooked, intmask, drv, vals, memseg, core>>

WriteTml ==
  /\ Step("tml")
  /\ tml' = Head(code).bits
  /\ rejecting' = (rejecting /\ "REJ" \in Head(code).bits)
  /\ UNCHANGED <<bus, chip, curidx, hooked, intmask, drv, vals, memseg, busy>>

Spin ==
  /\ Step("await")
  /\ IF Head(code).bits = {"reject"} THEN rejecting ELSE ~busy
  /\ UNCHANGED <<bus, chip, curidx, hooked, intmask, drv, vals, memseg, core>>

\* The core: it obeys the reject bit a little later, and takes and ends
\* transactions while it is clocked and not in reset.
HwReject ==
  /\ "REJ" \in tml /\ ~rejecting /\ rejecting' = TRUE
  /\ UNCHANGED <<bus, chip, curidx, hooked, intmask, drv, code, vals, memseg, tml, busy>>

HwBusy ==
  /\ ~rejecting /\ ~busy /\ "CLK" \in tml /\ "RESET" \notin tml /\ busy' = TRUE
  /\ UNCHANGED <<bus, chip, curidx, hooked, intmask, drv, code, vals, memseg, tml, rejecting>>

HwIdle ==
  /\ busy /\ busy' = FALSE
  /\ UNCHANGED <<bus, chip, curidx, hooked, intmask, drv, code, vals, memseg, tml, rejecting>>

Run == EnterLeave \/ INTR_OFF \/ INTR_RESTORE \/ SetFocus \/ SetSeg \/ Access \/ WriteTml \/ Spin

Next ==
  \/ \E b \in Buses : sb_attach(b)
  \/ sb_attach_bad \/ sb_detach \/ sb_register_intr_callback
  \/ \E c \in Chips : \E i \in Idx(c) : sb_setcoreidx(i)
  \/ IntrsOn \/ IntrsOff \/ Isr \/ Dpc
  \/ \E call \in Calls : Call(call[1])
  \/ Run
  \/ HwReject \/ HwBusy \/ HwIdle

\* A call in progress goes on, and the core obeys and gets done.
Fairness == WF_vars(Run) /\ WF_vars(HwReject) /\ WF_vars(HwIdle)

Spec == Init /\ [][Next]_vars /\ Fairness

-----------------------------------------------------------------------------
\* While the interrupt is on, the window is on the driver's core and shows the
\* lower half of its registers, which is what the handler will access: the
\* purpose of INTR_OFF and INTR_RESTORE, "to avoid invalid register accesss
\* inside ISR" (95).  (On the system backplane every core has a mapping of its
\* own.)
IsrOnItsCore == intmask /\ bus # "SB" => curidx = DevIdx /\ ~memseg

\* After every call the interrupt is on exactly if the driver has turned it on
\* and its handler has not turned it off since: a call that loses it
\* (INTR_RESTORE of an intr_val nobody saved, a return between the two macros)
\* leaves a driver that never hears of its device again.
IntrsKept == Idle => intmask = (wants_intrs /\ ~dpc)

\* After every call the focus is where the driver left it.
FocusKept == Idle => curidx = want /\ ~memseg /\ vals = <<>>

\* A call gives back to the driver what it took from it, on every path through
\* it and whatever the handler does meanwhile.
CallsRestore == IntrsKept /\ FocusKept

\* Every register access of the library reaches the core and the half of the
\* registers it is meant for (sb_setcoreidx may return NULL; sb_read_sbreg
\* masks out address bit 11).
AccessRight ==
  code # <<>> /\ Head(code).k \in {"reg", "tml"} =>
    Head(code).idx = curidx /\ (Segmented => Head(code).upper = memseg)

\* sb_core_disable puts no core into reset in the middle of a backplane
\* transaction: it has been told to reject new ones, and the last one is over.
NoResetWhileBusy == busy => "RESET" \notin tml

\* Every call returns: the two loops of sb_core_disable without a timeout
\* (1131, 1135) come to an end.
CallsReturn == code # <<>> ~> code = <<>>
=============================================================================
