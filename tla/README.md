# A TLA+ model of tuxap

tuxap is a Linux 2.6 port for BCM47xx MIPS access points, with two reverse
engineering tools beside it. Almost all of the tree is the stock kernel. The
project's own logic is the Ethernet driver `b44` (as adapted to the on-chip
core), the BCM47xx platform code under `arch/mips/bcm47xx`, and the tools
`mipsdec` and `udcompiler`.

This directory holds TLA+ modules for the driver, the Broadcom DMA library, the
Silicon Backplane library and the decompiler, the TLC configurations that check
them, and proofs about all of these. Line numbers below refer to
`src/kernel/drivers/net/b44.c` unless another file is named; `hnddma.c` and
`sbutils.c` are under `src/kernel/arch/mips/bcm47xx/broadcom`, the decompiler's
files under `src/tools/mipsdec`.

## Inventory

| Part | State it keeps | Operations | Hard behaviour | What makes it correct |
|---|---|---|---|---|
| b44 transmit ring | `tx_prod`, `tx_cons`, `tx_pending`, `tx_buffers[]`, the queue flag, chip registers DMATX_PTR and DMATX_STAT | `b44_start_xmit`, `b44_tx`, the transmit side of `b44_free_rings`, `b44_chip_reset`, `b44_init_hw` | indices that wrap, a limit that ethtool changes, resets with packets in flight, a queue that must be woken again | no packet is lost, freed twice or reordered; the queue is awake iff there is room, and a stopped one is woken |
| b44 receive ring | `rx_prod`, `rx_cons`, `rx_pending`, `rx_buffers[]`, the descriptors, DMARX_PTR and DMARX_STAT | `b44_rx`, `b44_alloc_rx_skb`, `b44_recycle_rx`, `b44_init_rings` | `b44_rx` runs without the lock, allocations fail, descriptors keep stale addresses | the chip only writes to buffers posted for it; frames are seen once and in order |
| b44 driver core | ISTAT, IMASK, `bp->istat`, NAPI state, `bp->timer`, netif flags | `b44_interrupt`, `b44_poll`, `b44_tx_timeout`, `b44_timer`, `b44_open`, `b44_close`, `b44_suspend`, `b44_resume`, `b44_change_mtu`, `b44_set_ringparam`, `b44_set_pauseparam` | interrupt, softirqs and process context interleave; interrupts are enabled outside the lock | no event is lost; a closed device is quiet; no deadlock; packets come back |
| b44 PHY, link and address filter | `flags`, carrier, the MAC's duplex and pause bits, the address filter; the PHY's own registers | `b44_check_phy`, `b44_setup_phy`, `b44_set_settings`, `b44_set_pauseparam`, `b44_nway_reset`, `b44_set_rx_mode`, `b44_set_mac_addr` | the PHY changes between two reads of one check; reads time out; resets clear registers nobody rewrites | MAC and PHY agree; the filter passes what it should; the carrier follows the link |
| b44 probe and remove | none of its own | `b44_init_one`, `b44_remove_one` | error unwinding | all resources released |
| DMA library `hnddma.c` | `txin`/`txout`, `txavail`, `rxin`/`rxout`, packet vectors, descriptors | attach and detach, `dma_tx`, `dma_txfast`, `dma_getnexttxp`, `dma_rx`, `dma_rxfill`, init, reset, reclaim | chains of buffers that do not fit and are refused halfway; frames over several buffers; a cached count of free descriptors | the chip sees whole frames; a FIFO ring like b44's; giants are skipped exactly |
| Backplane `sbutils.c` | the core the register window is on, saved interrupt masks, the half of the registers in the window, a core's state bits | `sb_corereg`, `sb_commit`, `sb_clock`, `sb_pci_setup`, `sb_pwrctl_*`, `sb_core_disable`, `sb_core_reset` | the driver's interrupt handler runs between any two steps and uses the same window; early returns; waits without a timeout | the handler finds its own core; a call gives back what it took; calls return |
| Backplane `sbmips.c`, `irq.c` | interrupt routing registers | `sb_setirq`, dispatch | none: it runs once, at boot | an interrupt is routed to one line |
| Backplane PCI `sbpci.c` | emulated configuration space | configuration reads and writes | bus error probing | I/O |
| Utilities `bcmutils.c`, `bcmsrom.c`, `linux_osl.c` | none | CRCs, string helpers, wrappers | none | pure functions |
| Board setup, flash map | none | initialisation | none | straight-line code |
| `mipsdec` | a function as a list of instructions, then as a tree | decode, `resolveDelaySlots`, nine optimizer passes, code generation | passes that move, copy and delete blocks that labels elsewhere refer to, and undo each other | every tree does what the machine code did; the optimizer ends |
| `udcompiler` | ELF image, RTL lists | ELF loading, basic blocks | bounds | blocks partition the code |
| Linux kernel 2.6 | device and queue flags | `dev_open`, `dev_close`, NAPI, watchdog, timers | is the environment of the driver | external |

How the parts of the driver interact:

* The **stack** calls `b44_start_xmit` under `dev->xmit_lock`, only while the
  queue is awake. The driver stops the queue when the ring is full; `b44_tx`
  wakes it.
* The **chip** consumes transmit descriptors up to DMATX_PTR, fills receive
  descriptors, and raises bits in ISTAT. An interrupt is delivered while
  `ISTAT & IMASK` is not zero.
* **`b44_interrupt`** saves ISTAT in `bp->istat`, masks the chip and schedules
  the poll, all under `bp->lock`; then acknowledges what it has read.
* **`b44_poll`** reclaims transmit descriptors and, on an error, restarts the
  chip under the lock, but calls `b44_rx` *without* it. When done it leaves the poll
  list and enables the interrupts, as two steps.
* **`b44_tx_timeout`**, **`b44_timer`** and the **administrator's** calls reset
  or inspect the chip under the lock, and enable the interrupts after unlocking.
* **`b44_check_phy`** runs from the timer under the lock; the PHY and the cable
  do not know of the lock.

The other modelled parts have one caller each. A driver calls the **DMA
library**, whose rings it shares with the chip only, and the **backplane
library**, which in turn calls the driver back to turn its interrupts off and
on. `mipsdec` is a sequential program.

Hazards, with their lines and the properties aimed at them, are listed in
`PROJECT.json`.

## Modules

| Module | Models |
|---|---|
| `B44Chip` | What both rings share: `bp->lock`, "the device is open", "the DMA engines run"; the options of the environment (`Env`) |
| `B44Tx` | The transmit ring: every operation on it, callable whenever the lock is free |
| `B44Rx` | The receive ring; a call of `b44_rx` is a sequence of steps |
| `PacketQueue` | Abstract specification: a bounded FIFO queue that may be flushed; implemented by both b44 rings and by `HndDma` |
| `B44` | The whole driver: `B44Tx` and `B44Rx` under the interrupt handler, poll, watchdog, timer and administrator |
| `B44Link` | PHY, link, duplex and pause bits, ethtool settings, address filter |
| `HndDma` | The DMA library |
| `SbUtils` | The backplane library: focus, interrupts, core reset |
| `MipsDec` | The decompiler between decoding and printing |
| `MCB44Tx`, `MCB44Rx`, `MCB44`, `MCB44Link`, `MCHndDma`, `MCSbUtils`, `MCMipsDec` | Symmetry sets and constants for TLC |
| `B44TxProofs`, `B44RxProofs`, `B44Proofs`, `B44LinkProofs`, `HndDmaProofs`, `SbUtilsProofs`, `MipsDecProofs` | Theorems about the module each is named after |
| `RingLemmas` | Lemmas the proofs share: distances on a ring, induction on a set of numbers, sequences |

`B44` EXTENDS `B44Tx` and `B44Rx`, conjoins their actions, and is shown to
implement both (`TxSpec`, `RxSpec` are PROPERTYs of the run `up`). `B44Tx` and
`B44Rx` are in turn shown to implement `PacketQueue` (`TxFifo`, `RxFifo`), with
the sequence of packets between the indices as the refinement mapping. So is
the transmit ring of `HndDma` (`HndFifo`), where a packet takes several
descriptors and sits at the last of them. `B44Link` shares no state with the
rings but the chip reset, which it has an action of its own for (`Restart`);
`HndDma`, `SbUtils` and `MipsDec` stand alone.

### Correspondence with the code

* **Atomicity.** A body executed under `bp->lock` is one step. What follows the
  unlock is a step of its own: `b44_enable_ints` after a reset, the
  `netif_wake_queue` of `b44_tx_timeout`, the `mod_timer` of `b44_timer`. In
  `b44_poll` the calls `b44_tx`, each turn of the loop of `b44_rx`, the error
  restart, `netif_rx_complete` and `b44_enable_ints` are separate steps.
  `b44_interrupt` is two steps, since the chip may raise events between its
  read of ISTAT and its acknowledgement; it holds the lock over both.
* **The lock** is a variable because it is not always returned: the state
  `"leaked"` is an error return of `b44_start_xmit` (lines 958, 966), `"dead"`
  a BUG() or a null pointer while it is held.
* **Resets.** `b44_halt; b44_init_rings; b44_init_hw` is `RestartTx` and
  `RestartRx` and `ResetIrq`; what its callers do besides (wake the queue, set a
  new limit, neither) distinguishes `TxErrorRestart`, `TxSetRing`,
  `TxSilentRestart` and `TxTimeout`. `b44_open` and `b44_resume` call
  `b44_init_hw` without `b44_halt`, and `b44_chip_reset` clears the indices
  only if it finds the core up: parameter `cold`.
* **Integers.** Indices wrap at the ring size as in the masks of `NEXT_TX` and
  `NextRx`. `TX_BUFFS_AVAIL` is computed modulo `U32`, so an underflow is as
  visible as in the code.
* **Data.** A packet or buffer is a model value. Of a received frame only its
  kind is kept (short enough to copy, long, bad, length zero), of an
  interrupt status only ISTAT_TX, ISTAT_RX and ISTAT_ERRORS.
* **The processor.** Without `"smp"` in `Env` one processor runs the driver: the
  interrupt handler runs to its end, softirqs exclude each other and process
  context. With it everything interleaves as far as the locks allow.
* **`B44Link`.** The operations hold `bp->lock` and are one step each, except
  `b44_check_phy`, which is one step per register it reads (`CheckBmsr`,
  `CheckAux`, `CheckAuxUp`, `CheckAdv`, `CheckLpa`): the PHY moves in between. A failed read ends the check where
  the code's `if (!err && ...)` does. Operations are those of an open device; of a closed one,
  `b44_set_mac_addr` and changes of the multicast list. Link modes and pause bits
  are sets. `AdvertisingRead` and `SettingsFlags` keep two peculiarities of
  `b44_set_settings`: ethtool's advertising bits are tested with the MII
  register's constants (1591-1598), and the flags of a forced mode are set but
  never cleared (1600-1604).
* **`HndDma`.** A chain of buffers is the number of descriptors it needs
  and whether its first or last buffer is empty; `dma_txfast` and `dma_tx`
  differ in whether an empty last buffer needs a free descriptor. `Filled` is what the walk has
  written when it ends or gives up, `TxRefuse` the label `outoftxd`. In the
  receive ring a buffer is the start of a frame or a later part of one,
  whose first bytes may look like any length. The callers are not in the tree
  and are held to the order the comments and ASSERTs ask for.
* **`SbUtils`.** A call is the sequence of steps it will make (`code`), taken one
  at a time, so that the interrupt handler and the hardware come between any
  two. `vals` is the stack of the local variables `intr_val`. `INTR_OFF` and `INTR_RESTORE` test
  `curidx == dev_coreid` when they run, as the macros do. A
  PCMCIA card is taken with its 2 KB window (`si->memseg`), where
  a configuration register is reached by switching halves. `si->curidx` and
  the window are one variable, since `sb_setcoreidx` sets both.
* **`MipsDec`.** An instruction is kept by what the passes look at: its type,
  address, target and branches. Execution has one register, which every
  branch tests, and a trace of stores, calls and the return. `"SP"` moves the stack pointer,
  `"SAVE"` is a store off it and `"RELOAD"` a load of the register off it: the three kinds `detectEpilogProlog`
  deletes. `CallThrough` says whether a call goes through the register its slot may change (a JR through
  another register than `ra` is printed as a comment only, `codegen.cpp` 198, and does not occur). `MipsStep` is one step of the
  machine code, an instruction with its delay slot, `TreeStep` one statement of the tree as
  the C it is printed as; `RunMips` and `RunTree` take `Fuel` of them. A place in the tree is
  a path of indices and branches (`Positions`), in the order in which every pass of the code
  visits them (`Before`); `First` is where a pass rewrites. The flags `bIsJumpTarget` are the set
  `jumpTargets` of the addresses at which `updateJumpTargets` has set them. A pass is the set of
  lists it may leave; `optimizeInstructions` takes the first that applies, as the
  chain of `if (...) return true` does. `isSame` compares the field
  `uSA`, which is only initialised for shifts, so whether two instructions
  are found equal is nondeterministic. An if without a body (`NoBody`) is run as C reads it: it
  guards the next statement (`SkipStatement`). A failed `M_ASSERT` is recorded
  and the program goes on, as in the code.
* A definition whose name begins with `Mut` is a mutation of the definition that
  follows it, used to confirm that a property can fail.

### What is assumed of the chip and the kernel

Neither is in the driver's source; these assumptions are read off how it uses them.

* Resetting the core masks its interrupts, forgets raised events and clears
  the DMA registers. (`b44_init_hw` sets everything up again after it.)
* DMATX_PTR is the first descriptor the chip must not send. DMARX_PTR is the
  descriptor the chip must not move *onto*: `b44_rx` writes the current
  descriptor to it when every slot is available (line 819), which under the
  other reading would stop reception. A zeroed receive descriptor stops the chip.
* `dev_close` clears `netif_running`, waits for the poll to leave the poll list and
  then calls `b44_close`; the watchdog and senders do not run between the start
  of `b44_close` and the end of `b44_open`; `del_timer_sync` and `free_irq`
  wait for their handlers; `rtnl_lock` admits one administrator at a time.
* PHY: the loss of the link is latched in MII_BMSR until that register is read;
  a reset, a restarted negotiation and a new forced mode take the link down; a
  reset of the core clears the MAC's registers and the filter's enable bit, the filter's
  entries survive.
* `hnddma.c`: the engine stops when it is reset, and a disabled engine forgets where it was: when
  `dma_txinit` or `dma_rxinit` enables it, it is at descriptor 0 with nothing posted
  (`XmtDisabled`, `RcvDisabled`). The library relies on that and writes only the control and address
  registers there (220-223, 292-302); the pointers are first written when something is posted (383, 483, 595). `rcvstatus` moves on when a frame is
  complete (`StatusPer = "frame"`; the other reading is in the table below).
* `sbutils.c`: a core that is told to reject does so after a while and completes the
  transactions it is in; a driver calls the functions that do not turn
  interrupts off with its own turned off, and its handler turns its interrupt
  off and on through the mask register of its own core.
* `mipsdec`: the compiler puts no branch into a delay slot and no label on one. A store off the
  stack pointer (`"SAVE"`) saves a register, in a frame that has been made before it; the loads that
  restore it do not show.

## Runs

`tlc -config X.cfg M` with the module and configuration named in `PROJECT.json`.

| Run | Question | Result |
|---|---|---|
| `tx_ring` | Do index-driven and content-driven freeing agree over every mix of sends, completions and resets, also with limits 0, 1, 2 and bounce buffers? Is the ring a FIFO queue? | holds |
| `tx_live` | Is the queue awake exactly while there is room, and is a stopped queue woken without the watchdog? | holds when the limit exceeds a quarter of the ring |
| `tx_leak` | Does `b44_start_xmit` return the lock on every path? | violated |
| `rx_ring` | Limits below and at the maximum, changed while frames wait, and any allocation may fail: are exactly the slots from `rx_cons` to `rx_prod` filled, each with its descriptor, across every reset? While the poll keeps up with the limit, can the chip write to a buffer that is not posted, are frames seen once and in order? Can `b44_rx` follow a null pointer, whether it keeps up or not? | they are, at least up to the slot where memory ran out; it cannot, they are; it cannot |
| `up` | One processor, all administration: is a closed device quiet, is the timer armed once, is the poll over before `b44_close`; do both rings see only the calls their own modules allow? | holds |
| `napi` | Several processors, no reset of an open device: is a scheduled poll always masked, and every event of the chip kept until a poll has seen it? | holds |
| `live` | With a budget that one frame uses up: are sent packets returned and received frames consumed without the watchdog, does closing end? | holds; packets if the poll leaves the list again and again, closing once frames stop arriving |
| `link` | The cable is pulled and plugged at any moment, also between the reads of one check, the read of MII_BMSR may time out, and ethtool, resets, close and sleep interfere: do MAC and PHY agree, does the filter pass what it should, does the carrier follow? | holds |
| `hnddma` | Chains that do not fit, partial reclaims, giants, resets: does the chip see whole frames only, is `txavail` honest, are the ASSERTs true, is the ring a FIFO queue? | holds |
| `sb` | The handler between any two steps of a call: does it find its own core, does every call restore focus and interrupts, reach the right register, return? Is a core only reset when idle? | holds for all calls but three, see below |
| `mipsdec` | For every function of seven instructions with forward branches: do all trees whose ifs have bodies do what the machine code does, has each goto one label, does the optimizer end? | holds |
| `mipsdec_body` | Has every if that is printed a body? | violated |

### Bounds

* A ring of 4 slots has wrap-around, full, empty and every limit from 0 to 3, and the
  wake-up threshold (a quarter) is 1, so limits below, at and above it occur;
  `U32` = 256 only has to exceed the ring. There is one packet more than slots
  in use, so that reuse of a freed packet happens.
* The composition uses rings of 2 slots with one packet in flight: its properties are about
  events and control, and what the ring does with more packets is the
  business of the runs before it and of the proofs.
* Budgets of 1 and 2 per call of `b44_rx` cover a call that is cut off and one that is
  not. In `live` the budget is 1, so that the one posted buffer exhausts it
  and the poll may stay on the list (851, 870), as 64 frames do with 200 posted
  (`live` has 181,382 states). `rx_ring` starts with 2 of 4 slots posted, fewer than the
  ring has room for, as the driver's 200 of 512 are (496,458 states). No counter grows without bound, so no state constraint is used.
* `link`: one partner does pause frames in one direction only, the other shares no full duplex
  at 100 Mbps, so that duplex and pause both change from link to link; a
  filter of 3 entries holds the address and a full list of 2 groups (719,328 states).
* `hnddma`: a ring of 4 descriptors and chains of 1 to 4, so the longest never fits,
  and shorter ones fit or not as the ring fills; 8 receive
  descriptors with 5 posted, buffers of 2 units, frames of 1 (fits), 2 (two buffers),
  3 (two, the second exactly full, where `skiplen` equals `rxbufsize`) and 4 (three). The
  two rings share no state and are attached one at a time (30,494 states).
* `sb`: chips with and without a chipcommon core, power control, a PCI core and an EXTIF, on
  each of the three buses; also an EXTIF that is core 0 and a chip without any, for `sb_scan`
  (658) (24,592 states). Nothing is bounded: calls are finite.
* `mipsdec`: seven instructions hold two branches with their slots, or a branch, a jump and
  the code between; a plain, a likely branch, a jump and a call occur, and slots
  that clash with their branch, do not, move the stack or save a register on it (328,564 states). `CloneLimit` is the code's
  10; `Fuel` exceeds every forward execution, whose tree takes at most three steps per
  instruction; ifs nest no deeper than `Nesting`, the size, unless a loop is cloned for ever; at most 11 passes are needed, and the bound of
  `PassesBounded`, twice the size, also holds for the larger instances. These were
  also run: sizes 10 and 11 with `Plain = {"SW"}`, `BGTZ` and `J`; size 8 with
  `Plain = {"NOP", "SW", "ADDU"}`; clone limits 2, 3 and 4. The trees of 3000 random functions
  of six instructions were compared with those the compiled program produces,
  and agreed.
* Packets and buffers are interchangeable; symmetry is used in safety runs
  only. Runs with temporal formulas beyond `[][A]_v` (`tx_live`, `live`, `link`, `sb`)
  use none.
* Deadlock checking is off in `tx_ring` and `napi` only: they allow the leaked lock and the
  call that dies in `b44_free_rings`, after which the driver really is stuck.

### Fairness

* Transmit ring alone (`TxFairSpec`): the chip sends what it is given (weak
  fairness of `HwTx`); as long as there is something to reclaim `b44_tx` is
  called (strong fairness, since the interrupt handler takes the lock in
  between; that handler masks its own source and so cannot do it for ever);
  `b44_tx_timeout` and the interrupt handler run to their ends.
* Driver (`FairSpec`): the chip sends, interrupts are delivered and handled
  (weak fairness). Softirq and begun administrative operations are strongly fair:
  they are disabled while an interrupt handler or another softirq has the
  processor, which happens over and over but, for handlers that end and a
  timer that fires once a second, never without a gap.
* Link (`Fairness` of `B44Link`): the timer fires once a second and not every read
  of MII_BMSR times out (strong fairness of `CheckBmsr`, since other
  operations take the lock in between); a check that has begun ends.
* Backplane (`Fairness` of `SbUtils`): a call goes on, the core obeys
  the reject bit and ends its transactions (weak fairness).
* `PacketsReturn` is conditional on a poll that is off the list over and over, and
  `CloseEnds` on frames that arrive finitely often (`FramesStop`). Both are conditions on the traffic,
  not on the scheduling, and so part of the property; without them both fail
  (`SkbsFreed` and `CloseEnds` in the table below).
* Never assumed: that somebody sends, receives, opens or closes, and that the
  watchdog fires. A property that needed the watchdog would call working hardware
  broken.

## What the violated runs show

**`tx_leak`** (lines 958, 966). Both error returns of the bounce-buffer path of
`b44_start_xmit` keep `bp->lock`.

**`mipsdec_body`** (`codegen.cpp` 387). The passes may leave an if whose branches are both empty, that of a
branch to the instruction behind its slot for one. It is printed as `if(...)` without a body, after an
assertion that only prints (`mipsdec.cpp` 9-12), and guards the statement after it. `TreeStep` runs it that
way. `SameBehaviour` is therefore asked of trees whose ifs all have bodies: the
passes go through others on their way, and whether one of these is printed is this run's question.

Other settings of the constants that are not kept as runs and end in a
counterexample. They are also the reason for what the passing runs leave out: a
run that passes says what holds *outside* these cases. The definitions named here
that no run checks (`TxAwakeHasRoom`, `TxStoppedHasWork`, `NoPhyAgrees`,
`ForcedNoPause`, `IntrsKept`, `FocusKept`, `RxChipWritesPosted`, `SkbsFreed`) are kept for them.

| Constants | Property | Where |
|---|---|---|
| B44Tx: `TxPendings = {0}` with `"resize"` | `TxAwakeHasRoom`: a limit of 0 is accepted and the woken queue has no room | 1644, 945 |
| B44Tx: `TxPendings = {1}`, `Env = {"resize"}`, `TxFairSpec` | `TxQueueWoken`: the wake-up threshold is a quarter of the whole ring, but only `tx_pending` slots are ever free; with a limit at or below the threshold only the watchdog wakes the queue (`Documentation/networking/driver.txt:60` wakes on `> 0`) | 620 |
| B44Rx: any limit below `RxRingSize - 1`, so the driver's default of 200 of 512 | `RxChipWritesPosted`: the chip may pass what is posted, see below | 819, 1293 |
| B44Rx: `Env = {"smp"}` | `RxNoOops`: `b44_rx` runs outside the lock, and a reset on another processor empties the ring under it; the comment at 1077 assumes a detached driver. The target has one processor | 846, 1077 |
| B44: `Env = {"close"}` | `TxStoppedHasWork`: `b44_close` stops the queue, `b44_open` does not start it, and nothing is sent until the watchdog fires | 1367 |
| B44: `RxBudgets = {1}`, `Env = {}`, `FairSpec` | `SkbsFreed`: a poll that stays on the list goes by an old `istat`, see below | 831, 851, 870 |
| B44: `RxBudgets = {1}`, `Env = {"close"}`, `FairSpec` | `CloseEnds` without `FramesStop`: `dev_close` waits until the poll has left the list (`net/core/dev.c` 962), and it does not while every call uses up its budget; the interrupts, and with them the chip, are only turned off in `b44_close` | 852, 870 |
| `"timeout"` in `Env` | `PollMasked`: interrupts are enabled while a poll is scheduled, the next interrupt is acknowledged without being polled for | 926, 900 |
| `"smp"` and `"close"` | `StopAfterPoll`: `dev_close` sees the poll off the list before it has enabled the interrupts | 866, 867 |
| `"closed"` | `TxSpec`: ring parameters set on a closed device walk rings that do not exist | 1642 |
| `"sleep"` and `"cold"` | `TxNoBug`: a poll after a cold resume may find the indices not reset | 1176, 607 |
| B44Link: `"mdio"` in `Env` | `MacAgrees`: MII_BMSR has been read, which clears the latched loss, and a later read of the same check times out | 112, 535 |
| B44Link: `MiiReads = {"MII_BMSR"}` | `MacAgrees`: a program reads MII_BMSR through the ioctl and clears the latch before `b44_check_phy` sees it | 1711-1722 |
| B44Link | `NoPhyAgrees`: on a board without PHY the duplex bit is only written when the carrier comes on, and a reset clears it with the carrier on | 523 |
| B44Link | `ForcedNoPause`: the comment says pause is disabled on a forced link; the flags of an earlier negotiation are written | 472, 476, 396 |
| B44Link: `{"ALLMULTI"}` in `IffFlags` | `FilterRight`: the loop that clears the unused entries starts at 0 and clears the interface's own address | 1465 |
| B44Link: a list longer than `B44_MCAST_TABLE_SIZE` | `FilterRight`: the groups beyond it are not heard | 1437 |
| HndDma: `0` in `Needs` | `HndFifo`, `HndNoAssert`: a chain of empty buffers takes the slot of the packet before it | `hnddma.c` 377 |
| HndDma: `"head"` in `Holes` | `TxFramesWhole`: an empty first buffer takes SOF with it | `hnddma.c` 356 |
| HndDma: `StatusPer = "descriptor"` | `RxSkipsGiants`: `skiplen` does not outlive the call, so half a giant is skipped and the rest is taken for frames | `hnddma.c` 507 |
| SbUtils: `Calls <- MCAllCalls`, PCMCIA | `IsrOnItsCore`, `IntrsKept`, `FocusKept`: forcing the slow clock returns between INTR_OFF and INTR_RESTORE | `sbutils.c` 1851, 95 |
| SbUtils: `Calls <- MCAllCalls`, PCMCIA | `AccessRight`: `sb_corereg` reads back a register of the lower half with the macro for the upper one | `sbutils.c` 600 |
| SbUtils: `Calls <- MCAllCalls`, SB | `IntrsKept`: `sb_pwrctl_fast_pwrup_delay` restores an `intr_val` it never saved | `sbutils.c` 1731-1747 |
| MipsDec: `CallThrough = "tested"`, size 5 | `SameBehaviour`: only branches are tested for a clash, so the slot of a call that changes the register the call goes through is moved before it | `optimize.cpp` 69 |
| MipsDec: `"RELOAD"` in `Plain`, size 5 | `SameBehaviour`: a load from the top 24 bytes of the stack frame is deleted wherever it is, as if it only restored a saved register | `optimize.cpp` 495-523 |
| MipsDec: size 5, `Plain = {"NOP", "SW"}`, `{"BNE"}`, backward | `NoAssert`: the clone of a block that contains its own jump loses that jump; confirmed with the compiled program | `optimize.cpp` 716, `codegen.cpp` 387 |
| MipsDec: the same with `J`, size 6 | `SameBehaviour`, `PassesBounded`: the same, and a loop that is cloned for ever (the compiled program does not end) | `optimize.cpp` 716, `mipsdec.cpp` 42 |
| MipsDec: `BGEZ` | `NoAssert`: `parse` computes no target for it | `instruction.cpp` 105, 240 |
| MipsDec: `BLTZ`, size 9 | `NoAssert`: inverted once it is BGEZ, which has no inverse | `optimize.cpp` 324 |

Two of these happen in ordinary operation.

*Fewer buffers posted than slots* (`RxChipWritesPosted`). The driver posts 200 of 512 buffers by default
(54-55). `b44_rx` gives the chip every slot but the one before `rx_cons`, although only `rx_pending` of them
are posted, and `b44_init_hw` writes a number of descriptors to a register that counts bytes (1293);
`b44.h:93` calls it "DMA RX Last Posted Descriptor". Under the reading of DMARX_PTR given above, a chip that
gets more than `rx_pending` frames ahead of the poll uses descriptors that keep the address of a buffer that
has moved on. What holds for every limit is `RxPostedWithin` and `RxFifo`, which ask that the poll keeps up
with the limit; with every slot posted (`rx_pending` = 511) it cannot do otherwise.

*A receive overload* (`SkbsFreed`). `bp->istat` is saved when the poll is scheduled and decides in every call
of `b44_poll` whether `b44_tx` is called. While received frames use up the budget the poll stays on the list
with the old value, and packets sent meanwhile are not reclaimed, which `driver.txt:67-73` does not allow.
What holds is `PacketsReturn`.

## Proofs

`tlapm M.tla` for each of the eight modules that hold theorems. A theorem holds for every
value of the constants: every ring size, limit, set of packets, chain, frame length,
chip, set of calls and function. What is assumed of the constants is stated as ASSUME in the
module that declares them:

* `TxAssumption`, `RxAssumption`, `EnvAssumption`: constants of the right type, limits
  below the ring size as `b44_set_ringparam` keeps them;
* `LinkAssumption`: constants of the right type; no address is the empty entry of the filter;
* `HndDmaAssumption`, `NullAssumption`: at least two descriptors, at most all but one of them
  posted, a header that leaves room in a buffer; `NULL` is neither a buffer nor a descriptor;
* `SbAssumption`: one core of a chip is the driver's own, and a chipcommon revision is
  only known where there is such a core (`sbutils.c` 350, 633);
* `MipsDecAssumption`: constants of the right type; room for the return and its slot; an execution
  is not cut off before one without loops has ended.

What a theorem assumes beyond these is in the column "If". Most of these hypotheses exclude
a case of the table of the previous section, where the property, or an invariant its
proof rests on, fails. Two do not appear there: with `"mtu"` a restart leaves
the queue of an empty ring stopped (`TxFlowControl`), and `"closed"` and `"cold"` are excluded from
theorems about the driver because these rest on the rings' own invariants.

| Theorem | Shows | If |
|---|---|---|
| `TxTypeCorrect` | `[]TxTypeOK` | |
| `TxRingCorrect`, `TxLimitKept`, `TxBugUnreachable` | `[]TxRingExact`, `[]TxBounded`, `[]TxNoBug` | no `"cold"` |
| `TxAwakeRoom` | `[]TxAwakeHasRoom` | no `"cold"`, limits above the wake-up threshold |
| `TxFlowControlled` | `[]TxFlowControl` | also no `"mtu"`, no `"close"` |
| `TxRingImplementsQueue` | `TxSpec => TxFifo` | no `"cold"` |
| `RxTypeCorrect`, `RxBuffersDistinct` | `[]RxTypeOK`, `[]RxDistinct` | |
| `RxOopsUnreachable`, `RxRingCorrect` | `[]RxNoOops`, `[]RxRingExact` | no `"cold"`, no `"smp"` |
| `RxWritesPostedWithin`, `RxRingImplementsQueue` | `[]RxPostedWithin`, `RxSpec => RxFifo` | no `"cold"`, no `"smp"` |
| `DriverImplementsTx`, `DriverImplementsRx` | `Spec => TxSpec`, `Spec => RxSpec` | no `"closed"` |
| `DriverTxRingCorrect`, `DriverRxRingCorrect` | the ring invariants of the whole driver | no `"closed"`, and as for the ring |
| `DriverImplementsTxQueue`, `DriverImplementsRxQueue` | `Spec => TxFifo`, `Spec => RxFifo` for the whole driver | the same |
| `DriverTypeCorrect`, `DriverTimerArmedOnce` | `[]TypeOK`, `[]TimerArmedOnce` | |
| `DriverStopAfterPoll` | `[]StopAfterPoll` | no `"smp"` |
| `DriverClosedQuiet` | `[]ClosedQuiet` | no `"smp"`, `"closed"`, `"cold"` |
| `DriverPollMasked` | `[]PollMasked` | nobody else restarts the open device (`Undisturbed`) |
| `DriverEventsKept` | `[]EventsKept` | the same, no `"closed"`, no `"cold"` |
| `LinkFilterRight` | `[]FilterRight` | no `ALLMULTI`, lists that fit the table |
| `LinkMacAgrees` | `[]MacAgrees` | no `"mdio"`, MII_BMSR not read by others |
| `HndTypeCorrect`, `HndWritesPosted`, `HndAvailHonest` | `[]HndTypeOK`, `[]RcvWritesPosted`, `TxAvailHonest` | |
| `HndAssertsHold`, `HndImplementsQueue` | `[]HndNoAssert`, `HndFifo` | no chain of empty buffers only |
| `HndFramesWhole` | `[]TxFramesWhole` | the same, and no empty first buffer |
| `HndSkipsGiants` | `[]RxSkipsGiants` | `StatusPer = "frame"` |
| `SbIsrOnItsCore`, `SbCallsRestore`, `SbAccessRight`, `SbNoResetWhileBusy` | the four invariants of `sb` | all calls but the three of `Wrong` |
| `ResolveKeepsBehaviour`, `ResolveKeepsLabels`, `ResolveAssertsHold` | `SameBehaviour`, `LabelsUnique`, `NoAssert` until the optimizer has rewritten the tree | no `BGEZ`; the first also `CallThrough = "other"` |

Theorems about one processor say what holds on the target, which has one.
`"smp"` is not excluded where it is not listed.

### Transmit ring

The invariants follow from

    TxInv == TxTypeOK /\ TxRingExact /\ TxBounded /\ TxNoBug

None of its conjuncts is inductive alone. That `b44_tx` finds the slots it frees filled
needs the ring exact; that a posted packet does not land on another needs the
limit; the limit is tested with `TX_BUFFS_AVAIL`, whose modular arithmetic is only right
while the limit holds. The lemmas beneath are about the cyclic interval
`TxBetween`: posting adds a slot to it (`BetweenPost`), reclaiming splits it
(`BetweenSplit`), the chip's step stays within it (`BetweenNext`); and about the
macro: `AvailExact`.

Flow control adds what the queue flag means. `TxAwakeInv` says that an awake queue,
and one that `b44_tx_timeout` is about to wake, has room; `TxWorkInv` that a stopped one has
a packet in flight. Waking at a quarter of the ring leaves room only if the limit is above
that quarter, which is why `TxLimitsAbove` is needed.

The refinement maps the ring to the sequence of packets from `tx_cons` to `tx_prod`.
A send appends to that sequence, `b44_tx` removes a prefix of it, a reset empties it.

### Receive ring

    RxInv == RxBasic /\ RxNoOops /\ RxOrder /\ (RxEmpty \/ RxFull \/ RxShort)

`RxBasic` adds to the types that no buffer is in two slots and where the end-of-table mark is.
`RxOrder` puts the indices in order on the ring as seen from `RxFirst`, the slot
`b44_rx` is at or will begin with: its copy of the chip's position lies
between the slot and the chip. Then the ring is in one of three conditions. It is empty,
and the chip finds no descriptor to use; or the next `rx_pending` slots are posted; or
`b44_init_rings` ran out of memory, in which case the chip stops at the first
hole for good and `b44_rx` never comes round to it. That third case, which
no loop of the code mentions, is what makes `RxNoOops` true when
allocations fail.

`RxPostedWithin` holds for every limit, and so for the driver's default of 200 of 512: a frame goes to a
posted buffer while fewer than `rx_pending` frames wait, since the filled slots and the free ones
of the next `rx_pending` are the posted ones. The refinement of `PacketQueue` maps the ring to the buffers
from `RxFirst` to the chip, and asks of a step that neither before nor after it more frames wait than were
posted (`RxInTime`); beyond that the slots hold stale descriptors and there is no queue to speak of (`RxChipWritesPosted` in the table above).

### Driver

Each step of `B44` is a step of a ring or leaves it alone, so the rings'
theorems carry over to the driver, the refinement of `PacketQueue` included. The other invariants follow the administrator's and the poll's
positions: `TimerInv` (at which positions the timer is off and the device running), `StopInv`
(nothing of the poll remains once `b44_close` has begun), `QuietInv` (from the locked part of `b44_close` to
that of `b44_open` all sources are off and both rings empty), `MaskInv` (the
chip is masked from `b44_interrupt` to the last step of `b44_poll`) and, on top of that,
`KeptInv`: what the chip raises between the read of ISTAT and the
acknowledgement, or while `b44_rx` is past the position it has read, is in ISTAT still.

`StopAfterPoll` and `ClosedQuiet` need one processor. On several, `dev_close` may find
the poll off the list while `b44_poll` is still before its `b44_enable_ints` (866, 867).

### Link

`FilterInv` says the filter is right in every state of an open device, within a check too; it has to
know that a restart writes all of the filter. `LinkInv` follows a check from read to read: what
has been read is current or the loss of the link is latched, and the latch
makes the next check start over.

### DMA library

`TxRing` and `RxRing` place every index and the engine's position between in and out,
as distances from `in`; `AvailKept` says the cached `txavail` never exceeds the free
descriptors; `Frames` that the descriptors between in and out are whole frames, SOF
following EOF, with the packet at the last descriptor.
`Giants` says there is an assignment of "parts of a frame still to come" to the descriptors
that fits what the engine has written (`LaidOut`); `Stands` relates `skiplen`, in bytes, to
that number, also where `skiplen` is a multiple of `rxbufsize`.
The refinement collects the packets from `txin` to `txout` (`Collected`).

### Backplane library

A call is a sequence of steps with the interrupt handler between any two, so its invariant
has to say of the steps *left* that they end well. `Goes(p, a, s, b)` does: the steps `s`
lead from the shadow `a` to `b`, where a shadow is the core and half the
window is on, the state of the interrupt, the state bits of the core and how far it is
known to be quiet; and on the way no step does anything the four
properties forbid. It has the rules of a program logic (`GoesNone`, `GoesOne`, `GoesOn`,
`GoesFirst`), and one lemma per function of the library (`PCorereg`, `PClk`,
`PDisable`, `PReset`, ...). Then

    SbInv == SbBasic /\ \E a, b : Mirrors(a) /\ Goes(Ctx, a, code, b) /\ Back(want, b)

is inductive: a step takes the first of the steps left, and neither the handler nor the
hardware changes what a shadow holds.

### Decompiler

What is proved is `resolveDelaySlots`, for functions of any length, with loops and every mix of
branches, likely branches, jumps and calls. (`BGEZ` is left out, since `parse` computes no
target for it and the closing jump of its branch leads nowhere; `NoAssert` then fails.) The inductive
invariant `DecInv` says the function is one a compiler emits, that the list is its listing until
the slots are resolved, and that from then to the first pass it is `Rest(prog)[1]`: the tree
that remains to run from instruction 1, where

* every instruction that is not a slot (a *head*) becomes one or two instructions at the top level, and
  `Rest(p)[a]` is what they and those of the later heads make;
* a head's address labels exactly one instruction of that tree, the first of the ones it has become: a slot
  that moves before its branch takes over the branch's address (`optimize.cpp` 78-80), and slots
  copied into the arms keep addresses nothing jumps to. This gives `JumpsLabelled`, the
  stronger form of `LabelsUnique` that the theorem also states, and makes a goto to `a` continue with `Rest(p)[a]`;
* so one step of the processor from head to head is one, two or three steps of the
  tree (`Stage`, `Keeps`): a clashing slot is a branch and then its slot and then the closing jump.
  `RunsTogether` relates the two executions step by step: after `k` steps of the processor the
  tree has taken between `k` and `3k`, and has been seen to do the same.

`SameBehaviour` compares the two executions after the same number of steps, so
the one has done a prefix of what the other has, and, forward, both have ended: each
step goes to a later head, so there are at most `Size` steps of the processor and three times
as many of the tree. That is why `Fuel` must be at least `3 * Size`.

### Out of the proof system's reach

Only model-checked are

* the properties under fairness: `TxQueueWoken`, `PacketsReturn`, `RxFrameConsumed`,
  `CloseEnds`, `CarrierFollows`, `CallsReturn`; and what uses ENABLED;
* `SameBehaviour` and `LabelsUnique` after a pass of the optimizer. With backward
  branches `SameBehaviour` fails there (see the table above: a clone loses its own jump), so a proof needs an
  invariant about how labels and jumps are nested in *forward* trees that all nine passes keep,
  and executions from the middle of a nested tree;
* `PassesBounded`, whose bound was read off the instances: cloning adds instructions, and
  no measure of the tree was found that every pass decreases.

Induction theorems that take an operator as a parameter cannot be applied; induction on a *set* of
numbers can (`LeastNat`, `UpTo` of `RingLemmas`), and that is how the recursive functions
(`SkipLen`, `Collected`, `Rest`, `RunMips`, `RunTree`) are reasoned about.

## Not modelled

* Probe and remove: they run before and after everything modelled; the result of
  probe is `Init`.
* Statistics counters, and register writes through the MII ioctl, which let a program do
  anything to the PHY.
* Polled waits of the rings' reset (`b44_wait_bit` in `b44_chip_reset`): the code goes on after
  a timeout as after a success, and the registers polled are not part of the model. Waits on the PHY are
  modelled (`"bmsr"`, `"mdio"`).
* `dma_txreset` giving up on an engine that does not stop: what such an engine
  does next is nowhere stated.
* The error unwinding inside `b44_alloc_consistent`: the failing open is one
  action, `OpenFails`.
* `sbutils.c`: accessors that read one register, arithmetic (`sb_clock_rate`,
  `sb_base`), `sb_pwrctl_xtal` (configuration space and delays), the SDIO bus.
* `sbmips.c`, `irq.c`: they run once, in sequence, before there is a second actor; dispatch is a
  chain of bit tests.
* `mipsdec`: the decoding of instruction words, the symbol file and the text printed.
* `udcompiler`: an unfinished ELF reader and block splitter around a third-party
  disassembler.
* Board setup, PCI glue, utility functions: I/O and pure functions without state.
* The kernel: environment of `B44`, restricted to what the driver relies on.

## Plan

1. `MipsDec`: the passes one by one, beginning with those that only delete (`stripNops`,
   `detectEpilogProlog`, `detectEndOfBranchJumps`): each keeps `SameBehaviour` of a forward tree.
2. `B44`: which of the events is kept when the watchdog restarts the chip; a weaker form of
   `EventsKept` that holds in every environment.
3. `SbUtils`: what still holds of the three calls that are excluded.
