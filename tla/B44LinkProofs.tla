--------------------------- MODULE B44LinkProofs ---------------------------
(***************************************************************************)
(* Proofs about the address filter and about the registers that must agree *)
(* with the PHY, for every set of partners, settings, addresses and lists. *)
(***************************************************************************)
EXTENDS B44Link, TLAPS

(***************************************************************************)
(* The address filter.  The entries of an open device are those of its     *)
(* address and its list, whatever the filter held before.                  *)
(***************************************************************************)
FilterAs(rx, on, entries, a, i, m) ==
  /\ "PROMISC" \in i <=> "PROMISC" \in rx
  /\ "PROMISC" \notin i => on /\ "ALLMULTI" \notin rx /\ entries = CamEntries(entries, a, i, m)

FilterInv ==
  /\ iff \in IffFlags
  /\ mc \in McLists \cup {<<>>}
  /\ dev_addr \in Addrs
  /\ chk # "idle" => st = "up"
  /\ st = "up" => FilterAs(rxconfig, cam_on, cam, dev_addr, iff, mc)

(***************************************************************************)
(* What b44_set_rx_mode can cope with: with ALLMULTI it clears the entries *)
(* from the first one on, the interface's own address included, and a list *)
(* that does not fit is cut.                                               *)
(***************************************************************************)
FilterFits ==
  /\ \A i \in IffFlags : "ALLMULTI" \notin i
  /\ \A m \in McLists : Len(m) <= B44_MCAST_TABLE_SIZE

\* Flow control shares a register with the filter and leaves it alone.
LEMMA FlowCtrlKeeps ==
  ASSUME NEW rx, NEW f
  PROVE  /\ "PROMISC" \in __b44_set_flow_ctrl(rx, f) <=> "PROMISC" \in rx
         /\ "ALLMULTI" \in __b44_set_flow_ctrl(rx, f) <=> "ALLMULTI" \in rx
         /\ "FLOW" \in __b44_set_flow_ctrl(rx, f) <=> "RX_PAUSE" \in f
  BY DEF __b44_set_flow_ctrl

\* And the other way round.
LEMMA RxModeKeeps ==
  ASSUME NEW rx, NEW i \in IffFlags
  PROVE  "FLOW" \in RxMode(rx, i) <=> "FLOW" \in rx
  BY LinkAssumption DEF RxMode

\* __b44_set_rx_mode sets the filter up, whatever it held.
LEMMA SetRxModeSets ==
  ASSUME FilterFits, NEW rx, NEW on, NEW i \in IffFlags, NEW m, SetRxMode(rx, on, i, m)
  PROVE  FilterAs(rxconfig', cam_on', cam', dev_addr, i, m)
  <1>1. "PROMISC" \in i <=> "PROMISC" \in rxconfig'
    BY DEF SetRxMode, RxMode
  <1>2. ASSUME "PROMISC" \notin i
        PROVE  cam_on' /\ "ALLMULTI" \notin rxconfig' /\ cam' = CamEntries(cam', dev_addr, i, m)
    BY <1>2 DEF SetRxMode, RxMode, FilterFits, CamEntries
  <1> QED
    BY <1>1, <1>2 DEF FilterAs

\* So does b44_init_hw.
LEMMA InitHwSets ==
  ASSUME FilterFits, iff \in IffFlags, NEW f, b44_init_hw(f)
  PROVE  FilterAs(rxconfig', cam_on', cam', dev_addr, iff, mc)
  <1>1. \E rx : SetRxMode(rx, FALSE, iff, mc)
    BY DEF b44_init_hw
  <1> QED
    BY <1>1, SetRxModeSets

LEMMA StepFilter ==
  ASSUME FilterFits, FilterInv, [Next]_vars
  PROVE  FilterInv'
  <1> USE DEF FilterInv, vars, local, regs, filter, dev
  <1>1. CASE HwLinkUp \/ HwLinkDown
    BY <1>1 DEF HwLinkUp, HwLinkDown
  <1>2. CASE b44_open \/ b44_resume \/ Restart
    <2>1. \E f : b44_init_hw(f)
      BY <1>2 DEF b44_open, b44_resume, Restart
    <2>2. UNCHANGED <<chk, dev_addr, iff, mc>> /\ st' = "up"
      BY <1>2 DEF b44_open, b44_resume, Restart, Ready
    <2> QED
      BY <2>1, <2>2, InitHwSets
  <1>3. CASE b44_close \/ b44_suspend
    BY <1>3 DEF b44_close, b44_suspend, Ready
  <1>4. ASSUME NEW auto \in BOOLEAN, NEW pause \in SUBSET {"TX_PAUSE", "RX_PAUSE"},
               b44_set_pauseparam(auto, pause)
        PROVE  FilterInv'
    <2>1. st = "up" /\ UNCHANGED <<st, chk, dev_addr, iff, mc>>
      BY <1>4 DEF b44_set_pauseparam, Ready
    <2>2. \/ \E f : b44_init_hw(f)
          \/ (\E f : rxconfig' = __b44_set_flow_ctrl(rxconfig, f)) /\ UNCHANGED filter
      BY <1>4 DEF b44_set_pauseparam
    <2> QED
      BY <2>1, <2>2, InitHwSets, FlowCtrlKeeps DEF FilterAs
  <1>5. ASSUME NEW s \in Settings, b44_set_settings(s) PROVE FilterInv'
    <2>1. st = "up" /\ UNCHANGED <<st, chk, dev_addr, iff, mc, filter>>
      BY <1>5 DEF b44_set_settings, Ready
    <2>2. (\E f : rxconfig' = __b44_set_flow_ctrl(rxconfig, f)) \/ rxconfig' = rxconfig
      BY <1>5 DEF b44_set_settings
    <2> QED
      BY <2>1, <2>2, FlowCtrlKeeps DEF FilterAs
  <1>6. CASE b44_nway_reset \/ \E reg \in MiiReads : b44_ioctl(reg)
    BY <1>6 DEF b44_nway_reset, b44_ioctl
  <1>7. ASSUME NEW i \in IffFlags, NEW m \in McLists, b44_set_rx_mode(i, m) PROVE FilterInv'
    <2>1. iff' = i /\ mc' = m /\ UNCHANGED <<st, chk, dev_addr>>
      BY <1>7 DEF b44_set_rx_mode
    <2>2. st = "up" => SetRxMode(rxconfig, cam_on, i, m)
      BY <1>7 DEF b44_set_rx_mode
    <2> QED
      BY <2>1, <2>2, SetRxModeSets
  <1>8. ASSUME NEW a \in Addrs, b44_set_mac_addr(a) PROVE FilterInv'
    BY <1>8 DEF b44_set_mac_addr
  <1>9. CASE CheckNoPhy \/ CheckTimeout \/ CheckBmsr
    BY <1>9 DEF CheckNoPhy, CheckTimeout, CheckBmsr, Ready
  <1>10. CASE CheckRest
    <2>1. st = "up" /\ UNCHANGED <<st, dev_addr, iff, mc, filter>>
      BY <1>10 DEF CheckRest, CheckAuxUp, CheckAux, CheckAdv, CheckLpa
    <2>2. (\E f : rxconfig' = __b44_set_flow_ctrl(rxconfig, f)) \/ rxconfig' = rxconfig
      BY <1>10 DEF CheckRest, CheckAuxUp, CheckAux, CheckAdv, CheckLpa
    <2> QED
      BY <2>1, <2>2, FlowCtrlKeeps DEF FilterAs
  <1>11. CASE UNCHANGED vars
    BY <1>11
  <1> QED
    BY <1>1, <1>2, <1>3, <1>4, <1>5, <1>6, <1>7, <1>8, <1>9, <1>10, <1>11 DEF Next

\* What the entries let through.
LEMMA FilterHears ==
  ASSUME FilterFits, FilterInv
  PROVE  FilterRight
  <1> SUFFICES ASSUME st = "up" PROVE FilterRight
    BY DEF FilterRight
  <1>1. FilterAs(rxconfig, cam_on, cam, dev_addr, iff, mc) /\ "ALLMULTI" \notin iff
    BY DEF FilterInv, FilterFits
  <1>2. ASSUME "PROMISC" \notin iff
        PROVE  {cam[k] : k \in DOMAIN cam} \ {"zero"} = {dev_addr} \cup {mc[k] : k \in 1 .. Len(mc)}
    <2>1. cam = CamEntries(cam, dev_addr, iff, mc)
      BY <1>1, <1>2 DEF FilterAs
    <2>2. Len(mc) \in Nat /\ Len(mc) <= B44_MCAST_TABLE_SIZE
      <3>1. CASE mc = <<>>
        BY <3>1, LinkAssumption
      <3>2. CASE mc \in McLists
        <4>1. mc \in Seq(STRING)
          BY <3>2, LinkAssumption
        <4> QED
          BY <3>2, <4>1 DEF FilterFits
      <3> QED
        BY <3>1, <3>2 DEF FilterInv
    <2>3. "zero" # dev_addr /\ \A k \in 1 .. Len(mc) : mc[k] # "zero"
      <3>1. CASE mc = <<>>
        BY <3>1, LinkAssumption DEF FilterInv
      <3>2. CASE mc \in McLists
        BY <3>2, LinkAssumption DEF FilterInv
      <3> QED
        BY <3>1, <3>2 DEF FilterInv
    <2>4. DOMAIN cam = 0 .. (CamSize - 1)
      BY <2>1 DEF CamEntries
    <2>5. \A k \in 0 .. (CamSize - 1) :
            cam[k] = IF k = 0 THEN dev_addr ELSE IF k \in 1 .. Len(mc) THEN mc[k] ELSE "zero"
      BY <1>1, <2>1, <2>2, LinkAssumption DEF CamEntries
    <2>6. 0 \in 0 .. (CamSize - 1) /\ 1 .. Len(mc) \subseteq 0 .. (CamSize - 1)
      BY <2>2, LinkAssumption
    <2> QED
      BY <2>2, <2>3, <2>4, <2>5, <2>6
  <1> QED
    BY <1>1, <1>2 DEF FilterAs, FilterRight

(***************************************************************************)
(* An open interface that is not promiscuous hears its own address, the    *)
(* groups it has joined and nothing else, for every address, every list    *)
(* that fits and every size of the filter: after each open, resume and     *)
(* restart, after the list has shrunk, and after a new address was set     *)
(* while it was closed.                                                    *)
(***************************************************************************)
THEOREM LinkFilterRight ==
  ASSUME FilterFits
  PROVE  Spec => []FilterRight
  <1>1. Init => FilterInv
    BY DEF Init, FilterInv
  <1> QED
    BY <1>1, StepFilter, FilterHears, PTL DEF Spec

-----------------------------------------------------------------------------
(***************************************************************************)
(* The link.                                                               *)
(***************************************************************************)
PhyState ==
  [an : BOOLEAN, adv : SUBSET (Modes \cup Pauses), up : BOOLEAN,
   latch : BOOLEAN, mode : Modes, lpa : SUBSET Pauses]

\* The PHY has had its link since MII_BMSR was last read.
Steady == phy.up /\ ~phy.latch

\* b44_check_phy has seen the link come up and has not seen it go.
Reported == carrier /\ (chk = "idle" \/ (chk = "aux" /\ bmsr))

FlowAgrees ==
  /\ "FLOW" \in rxconfig <=> "RX_PAUSE" \in flags
  /\ mac_flow <=> "TX_PAUSE" \in flags

LinkInv ==
  /\ partner \in Partners /\ iff \in IffFlags
  /\ phy \in PhyState
  /\ ~phy.up => phy.latch
  /\ chk \in {"idle", "aux", "adv", "lpa"}
  /\ chk # "idle" => st = "up"
  /\ HasPhy /\ st = "up" /\ Steady /\ (Reported \/ chk \in {"adv", "lpa"}) =>
       (dup <=> phy.mode \in Full)
  /\ HasPhy /\ st = "up" /\ ("FORCE_LINK" \in flags \/ (Steady /\ Reported)) => FlowAgrees

\* A PHY that has lost its link is not steady, and stays so until MII_BMSR is
\* read.
LEMMA DroppedPhy ==
  ASSUME NEW p \in PhyState
  PROVE  Dropped(p) \in PhyState /\ ~Dropped(p).up /\ Dropped(p).latch
  BY DEF Dropped, PhyState

\* b44_setup_phy takes the link down, unless the PHY is forced as asked already.
LEMMA SetupPhy ==
  ASSUME NEW p \in PhyState, NEW f
  PROVE  LET q == b44_setup_phy(p, f) IN
         \/ q \in PhyState /\ ~q.up /\ q.latch
         \/ q = p /\ ~p.an /\ "FORCE_LINK" \in f
  <1>1. ForcedMode(f) \in Modes /\ Advertise(f) \in SUBSET (Modes \cup Pauses)
    BY DEF ForcedMode, Advertise, Modes
  <1>2. CASE "FORCE_LINK" \notin f
    <2>1. [p EXCEPT !.an = TRUE, !.adv = Advertise(f)] \in PhyState
      BY <1>1 DEF PhyState
    <2> QED
      BY <1>2, <2>1, DroppedPhy DEF b44_setup_phy
  <1>3. CASE "FORCE_LINK" \in f
    <2>1. [p EXCEPT !.an = FALSE, !.mode = ForcedMode(f)] \in PhyState
      BY <1>1 DEF PhyState
    <2>2. CASE ~p.an /\ p.mode = ForcedMode(f)
      BY <1>3, <2>2 DEF b44_setup_phy
    <2>3. CASE ~ (~p.an /\ p.mode = ForcedMode(f))
      <3>1. b44_setup_phy(p, f) = Dropped([p EXCEPT !.an = FALSE, !.mode = ForcedMode(f)])
        BY <1>3, <2>3 DEF b44_setup_phy
      <3> QED
        BY <2>1, <3>1, DroppedPhy
    <2> QED
      BY <2>2, <2>3
  <1> QED
    BY <1>2, <1>3

LEMMA ResetPhy ==
  ASSUME NEW p \in PhyState
  PROVE  b44_phy_reset(p) \in PhyState /\ b44_phy_reset(p).an
  BY DEF b44_phy_reset, Dropped, PhyState

\* b44_init_hw resets the PHY first, so it always takes the link down; if the
\* link is forced it writes the pause bits.
LEMMA InitHwDrops ==
  ASSUME "mdio" \notin Env, HasPhy, phy \in PhyState, iff \in IffFlags, NEW f, b44_init_hw(f)
  PROVE  /\ phy' \in PhyState /\ ~phy'.up /\ phy'.latch
         /\ "FORCE_LINK" \in f => /\ "FLOW" \in rxconfig' <=> "RX_PAUSE" \in f
                                  /\ mac_flow' <=> "TX_PAUSE" \in f
  <1>1. phy' = b44_setup_phy(b44_phy_reset(phy), f)
    BY DEF b44_init_hw, Mdio
  <1>2. phy' \in PhyState /\ ~phy'.up /\ phy'.latch
    BY <1>1, ResetPhy, SetupPhy
  <1>3. ASSUME "FORCE_LINK" \in f
        PROVE  rxconfig' = RxMode(__b44_set_flow_ctrl({}, f), iff) /\ mac_flow' = ("TX_PAUSE" \in f)
    BY <1>3 DEF b44_init_hw, Mdio, SetRxMode
  <1> QED
    BY <1>2, <1>3, RxModeKeeps, FlowCtrlKeeps

\* b44_open, b44_resume and the restarts.
LEMMA InitHwLink ==
  ASSUME "mdio" \notin Env, LinkInv, NEW f, flags' = f, b44_init_hw(f), chk = "idle",
         UNCHANGED <<phy_addr, chk, iff, partner>>
  PROVE  LinkInv'
  <1>1. CASE HasPhy
    BY <1>1, InitHwDrops DEF LinkInv, HasPhy, Steady, Reported, FlowAgrees
  <1>2. CASE ~HasPhy
    <2>1. phy' = phy
      BY <1>2 DEF b44_init_hw
    <2> QED
      BY <1>2, <2>1 DEF LinkInv, HasPhy
  <1> QED
    BY <1>1, <1>2

\* The PHY by itself.
LEMMA HwLink ==
  ASSUME LinkInv, HwLinkUp \/ HwLinkDown
  PROVE  LinkInv'
  <1> USE DEF local, regs, filter, dev
  <1>1. /\ phy' \in PhyState /\ ~Steady' /\ (~phy'.up => phy'.latch) /\ partner' \in Partners
        /\ UNCHANGED <<phy_addr, st, flags, chk, rxconfig, mac_flow, iff>>
    <2>1. CASE HwLinkUp
      <3>1. partner.pause \in SUBSET Pauses
        BY LinkAssumption DEF LinkInv
      <3>2. Best(phy.adv \cap partner.modes) \in Modes
        BY DEF Best, Modes
      <3>3. phy.latch
        BY <2>1 DEF HwLinkUp, LinkInv
      <3> DEFINE m == IF phy.an THEN Best(phy.adv \cap partner.modes) ELSE phy.mode
      <3>4. m \in Modes
        BY <3>2 DEF LinkInv, PhyState
      <3>5. phy' = [phy EXCEPT !.up = TRUE, !.mode = m, !.lpa = partner.pause]
        BY <2>1 DEF HwLinkUp
      <3> HIDE DEF m
      <3>6. phy' \in PhyState /\ phy'.up /\ phy'.latch
        BY <3>1, <3>3, <3>4, <3>5 DEF LinkInv, PhyState
      <3> QED
        BY <2>1, <3>6 DEF HwLinkUp, LinkInv, Steady
    <2>2. CASE HwLinkDown
      BY <2>2, DroppedPhy DEF HwLinkDown, LinkInv, Steady
    <2> QED
      BY <2>1, <2>2
  <1> QED
    BY <1>1 DEF LinkInv, HasPhy, Steady, FlowAgrees

LEMMA StepLink ==
  ASSUME "mdio" \notin Env, "MII_BMSR" \notin MiiReads, LinkInv, [Next]_vars
  PROVE  LinkInv'
  <1> USE DEF vars, local, regs, filter, dev
  <1>1. CASE HwLinkUp \/ HwLinkDown
    BY <1>1, HwLink
  <1>2. CASE b44_open \/ b44_resume \/ Restart
    <2>1. b44_init_hw(flags) /\ UNCHANGED <<phy_addr, flags, chk, iff, partner>>
      BY <1>2 DEF b44_open, b44_resume, Restart
    <2>2. chk = "idle"
      BY <1>2 DEF b44_open, b44_resume, Restart, Ready, LinkInv
    <2> QED
      BY <2>1, <2>2, InitHwLink
  <1>3. CASE b44_close \/ b44_suspend
    BY <1>3 DEF b44_close, b44_suspend, Ready, LinkInv
  <1>4. ASSUME NEW auto \in BOOLEAN, NEW pause \in SUBSET {"TX_PAUSE", "RX_PAUSE"},
               b44_set_pauseparam(auto, pause)
        PROVE  LinkInv'
    <2>1. chk = "idle" /\ UNCHANGED <<phy_addr, st, carrier, chk, bmsr, iff, partner>>
      BY <1>4 DEF b44_set_pauseparam, Ready
    <2>2. CASE auto
      BY <1>4, <2>1, <2>2, InitHwLink DEF b44_set_pauseparam
    <2>3. CASE ~auto
      <3>1. FlowAgrees' /\ UNCHANGED <<dup, phy>>
        <4>1. /\ rxconfig' = __b44_set_flow_ctrl(rxconfig, flags')
              /\ mac_flow' = ("TX_PAUSE" \in flags')
              /\ UNCHANGED <<dup, phy>>
          BY <1>4, <2>3 DEF b44_set_pauseparam
        <4> QED
          BY <4>1, FlowCtrlKeeps DEF FlowAgrees
      <3> QED
        BY <2>1, <3>1 DEF LinkInv, HasPhy, Steady, Reported
    <2> QED
      BY <2>2, <2>3
  <1>5. ASSUME NEW s \in Settings, b44_set_settings(s) PROVE LinkInv'
    <2> DEFINE f == SettingsFlags(s)
    <2>1. /\ chk = "idle" /\ st = "up" /\ flags' = f
          /\ UNCHANGED <<phy_addr, st, carrier, chk, bmsr, dup, iff, partner>>
      BY <1>5 DEF b44_set_settings, Ready
    <2>2. phy' = IF HasPhy THEN b44_setup_phy(phy, f) ELSE phy
      BY <1>5 DEF b44_set_settings, Mdio
    <2>3. HasPhy /\ "FORCE_LINK" \in f =>
            rxconfig' = __b44_set_flow_ctrl(rxconfig, f) /\ mac_flow' = ("TX_PAUSE" \in f)
      BY <1>5 DEF b44_set_settings, Mdio
    <2> HIDE DEF f
    <2>4. HasPhy /\ "FORCE_LINK" \in f => FlowAgrees'
      BY <2>1, <2>3, FlowCtrlKeeps DEF FlowAgrees
    <2>5. CASE HasPhy
      <3>1. \/ phy' \in PhyState /\ ~phy'.up /\ phy'.latch
            \/ phy' = phy /\ "FORCE_LINK" \in f
        BY <2>2, <2>5, SetupPhy DEF LinkInv
      <3>2. CASE phy' \in PhyState /\ ~phy'.up /\ phy'.latch
        BY <2>1, <2>4, <2>5, <3>2 DEF LinkInv, Steady
      <3>3. CASE phy' = phy /\ "FORCE_LINK" \in f
        BY <2>1, <2>4, <2>5, <3>3 DEF LinkInv, Steady, Reported
      <3> QED
        BY <3>1, <3>2, <3>3
    <2>6. CASE ~HasPhy
      BY <2>1, <2>2, <2>6 DEF LinkInv, HasPhy
    <2> QED
      BY <2>5, <2>6
  <1>6. CASE b44_nway_reset
    BY <1>6, DroppedPhy DEF b44_nway_reset, LinkInv, Steady, HasPhy, FlowAgrees
  <1>7. ASSUME NEW reg \in MiiReads, b44_ioctl(reg) PROVE LinkInv'
    BY <1>7 DEF b44_ioctl, LinkInv, Steady, Reported, HasPhy, FlowAgrees
  <1>8. ASSUME NEW i \in IffFlags, NEW m \in McLists, b44_set_rx_mode(i, m) PROVE LinkInv'
    <2>1. iff' = i /\ UNCHANGED <<phy_addr, st, flags, carrier, chk, bmsr, dup, mac_flow, phy, partner>>
      BY <1>8 DEF b44_set_rx_mode
    <2>2. rxconfig' = RxMode(rxconfig, i) \/ rxconfig' = rxconfig
      BY <1>8 DEF b44_set_rx_mode, SetRxMode
    <2> QED
      BY <2>1, <2>2, RxModeKeeps DEF LinkInv, Steady, Reported, HasPhy, FlowAgrees
  <1>9. ASSUME NEW a \in Addrs, b44_set_mac_addr(a) PROVE LinkInv'
    BY <1>9 DEF b44_set_mac_addr, LinkInv, HasPhy
  <1>10. CASE CheckNoPhy
    BY <1>10 DEF CheckNoPhy, Ready, LinkInv, HasPhy
  <1>11. CASE CheckTimeout \/ UNCHANGED vars
    BY <1>11 DEF CheckTimeout, LinkInv, Steady, Reported, HasPhy, FlowAgrees
  <1>12. CASE CheckBmsr
    <2>1. /\ chk = "idle" /\ st = "up" /\ chk' = "aux" /\ bmsr' = (phy.up /\ ~phy.latch)
          /\ phy' = [phy EXCEPT !.latch = ~phy.up]
          /\ UNCHANGED <<phy_addr, st, flags, carrier, dup, rxconfig, mac_flow, iff, partner>>
      BY <1>12 DEF CheckBmsr, Ready
    <2>2. /\ phy' \in PhyState /\ phy'.latch = ~phy.up /\ phy'.up = phy.up
          /\ phy'.mode = phy.mode
      BY <2>1 DEF LinkInv, PhyState
    <2>3. Reported' => Reported /\ Steady
      BY <2>1 DEF Reported, Steady
    <2> QED
      BY <2>1, <2>2, <2>3 DEF LinkInv, HasPhy, FlowAgrees
  <1>13. CASE CheckAuxUp
    <2>1. /\ chk = "aux" /\ flags' = AuxFlags /\ dup' = ("FULL_DUPLEX" \in AuxFlags)
          /\ UNCHANGED <<phy_addr, st, rxconfig, mac_flow, iff, phy, partner>>
      BY <1>13 DEF CheckAuxUp
    <2>2. \/ chk' = "idle" /\ "FORCE_LINK" \in flags
          \/ chk' = "adv" /\ "FORCE_LINK" \notin flags
      BY <1>13 DEF CheckAuxUp, CheckDone
    <2>3. \A x \in {"RX_PAUSE", "TX_PAUSE", "FORCE_LINK"} : x \in AuxFlags <=> x \in flags
      BY DEF AuxFlags
    <2>4. "FULL_DUPLEX" \in AuxFlags <=> phy.mode \in Full
      BY DEF AuxFlags
    <2> QED
      BY <2>1, <2>2, <2>3, <2>4 DEF LinkInv, HasPhy, Steady, Reported, FlowAgrees
  <1>14. CASE CheckAux(TRUE)
    <2>1. /\ chk = "aux" /\ chk' = "idle" /\ flags' = AuxFlags
          /\ carrier' = (carrier /\ bmsr)
          /\ UNCHANGED <<phy_addr, st, dup, rxconfig, mac_flow, iff, phy, partner>>
      BY <1>14 DEF CheckAux, CheckDone
    <2>2. \A x \in {"RX_PAUSE", "TX_PAUSE", "FORCE_LINK"} : x \in AuxFlags <=> x \in flags
      BY DEF AuxFlags
    <2> QED
      BY <2>1, <2>2 DEF LinkInv, HasPhy, Steady, Reported, FlowAgrees
  <1>15. CASE CheckAdv(TRUE)
    BY <1>15 DEF CheckAdv, LinkInv, HasPhy, Steady, Reported, FlowAgrees
  <1>16. CASE CheckLpa(TRUE)
    <2>1. /\ chk = "lpa" /\ chk' = "idle" /\ UNCHANGED <<phy_addr, st, dup, iff, phy, partner>>
      BY <1>16 DEF CheckLpa, CheckDone
    <2>2. FlowAgrees'
      BY <1>16, FlowCtrlKeeps DEF CheckLpa, FlowAgrees
    <2> QED
      BY <2>1, <2>2 DEF LinkInv, HasPhy, Steady
  <1>17. CheckRest => CheckAuxUp \/ CheckAux(TRUE) \/ CheckAdv(TRUE) \/ CheckLpa(TRUE)
    BY DEF CheckRest, Mdio
  <1> QED
    BY <1>1, <1>2, <1>3, <1>4, <1>5, <1>6, <1>7, <1>8, <1>9, <1>10, <1>11, <1>12, <1>13, <1>14,
       <1>15, <1>16, <1>17 DEF Next

(***************************************************************************)
(* While the driver reports a link the PHY has kept, the duplex bit of the *)
(* MAC is the one the PHY negotiated and its pause bits are those the      *)
(* driver reports: for every partner and every sequence of settings, and   *)
(* although the link comes and goes between the four reads of one check.   *)
(* It needs every access to the PHY to succeed, except that of MII_BMSR,   *)
(* and nobody else to read that register, which clears the latch.          *)
(***************************************************************************)
THEOREM LinkMacAgrees ==
  ASSUME "mdio" \notin Env, "MII_BMSR" \notin MiiReads
  PROVE  Spec => []MacAgrees
  <1>1. Init => LinkInv
    <2> SUFFICES ASSUME Init PROVE LinkInv
      OBVIOUS
    <2>1. phy \in PhyState /\ phy.latch
      BY DEF Init, PhyState, Modes
    <2> QED
      BY <2>1 DEF Init, LinkInv
  <1>2. LinkInv => MacAgrees
    BY DEF LinkInv, MacAgrees, Ready, Steady, Reported, FlowAgrees
  <1> QED
    BY <1>1, <1>2, StepLink, PTL DEF Spec
=============================================================================
