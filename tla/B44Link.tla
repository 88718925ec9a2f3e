------------------------------ MODULE B44Link ------------------------------
(***************************************************************************)
(* The b44 driver's dealings with what lies beyond the rings: the PHY and  *)
(* the link partner (b44_check_phy, b44_setup_phy), the duplex and pause   *)
(* registers that must agree with what they negotiated, and the address    *)
(* filter.                                                                 *)
(*                                                                         *)
(* The operations hold bp->lock, so they exclude each other, but the PHY   *)
(* does not care for the lock: b44_check_phy, which reads four of its      *)
(* registers one after the other, is a sequence of steps.                  *)
(***************************************************************************)
EXTENDS Naturals, Sequences, FiniteSets

CONSTANTS
  Phys,           \* what there may be: "PHY", or the "NO_PHY" of BCM47xx boards
  Partners,       \* [modes, pause]: the link partners there may be
  Settings,       \* [auto, advertising, mode]: commands of ethtool -s
  Addrs,          \* addresses the interface may be given
  McLists,        \* multicast lists: sequences of group addresses
  IffFlags,       \* subsets of {"PROMISC", "ALLMULTI"}: interface flags
  CamSize,        \* entries of the address filter (64)
  B44_MCAST_TABLE_SIZE,
  MiiReads,       \* PHY registers that programs read through the MII ioctl
  Env             \* what else may happen

Modes == {"10H", "10F", "100H", "100F"}
Pauses == {"CAP", "ASYM"}

(***************************************************************************)
(* "restart"  a new MTU, new ring limits, an error or the watchdog resets  *)
(*            the chip while the device is open                            *)
(* "bmsr"     the read of MII_BMSR may time out before the PHY sees it     *)
(* "mdio"     any access to the PHY may time out                           *)
(***************************************************************************)
ASSUME LinkAssumption ==
  /\ Phys \subseteq {"PHY", "NO_PHY"} /\ Env \subseteq {"restart", "bmsr", "mdio"}
  /\ \A p \in Partners : p.modes \subseteq Modes /\ p.pause \subseteq Pauses
  /\ \A s \in Settings : s.auto \in BOOLEAN /\ s.mode \in Modes
  /\ "zero" \notin Addrs
  /\ \A m \in McLists : m \in Seq(STRING) /\ \A k \in 1 .. Len(m) : m[k] # "zero"
  /\ IffFlags \subseteq SUBSET {"PROMISC", "ALLMULTI"}
  /\ CamSize \in Nat /\ B44_MCAST_TABLE_SIZE \in Nat /\ B44_MCAST_TABLE_SIZE < CamSize

VARIABLES
  phy_addr,       \* bp->phy_addr
  st,             \* "closed", "up" or "asleep"
  flags,          \* bp->flags: what concerns the link
  carrier,        \* netif_carrier_ok
  chk,            \* where b44_check_phy is
  bmsr, local_adv,  \* its local variables
  dup,            \* TX_CTRL_DUPLEX
  rxconfig,       \* RXCONFIG: PROMISC, ALLMULTI and FLOW
  mac_flow,       \* MAC_FLOW_PAUSE_ENAB
  cam, cam_on,    \* the address filter, CAM_CTRL_ENABLE
  dev_addr, iff, mc,  \* dev->dev_addr, dev->flags, dev->mc_list
  phy,            \* the PHY's registers, and the link
  partner         \* who is at the other end of the cable

regs == <<dup, rxconfig, mac_flow>>
filter == <<cam, cam_on>>
dev == <<dev_addr, iff, mc>>
local == <<chk, bmsr, local_adv>>
vars == <<phy_addr, st, flags, carrier, local, regs, filter, dev, phy, partner>>

HasPhy == phy_addr # "NO_PHY"
Full == {"10F", "100F"}

\* Whether an access to the PHY succeeds (b44_wait_bit).
Mdio == IF "mdio" \in Env THEN BOOLEAN ELSE {TRUE}

-----------------------------------------------------------------------------
\* The PHY.  Link loss is latched until MII_BMSR is read; a reset, a restart
\* of the negotiation and a new forced mode take the link down.

Dropped(p) == [p EXCEPT !.up = FALSE, !.latch = TRUE]

Best(modes) ==
  CASE "100F" \in modes -> "100F"
    [] "100F" \notin modes /\ "100H" \in modes -> "100H"
    [] modes \cap {"100F", "100H"} = {} /\ "10F" \in modes -> "10F"
    [] OTHER -> "10H"

HwLinkUp ==
  LET common == phy.adv \cap partner.modes IN
  /\ ~phy.up /\ (phy.an => common # {})
  /\ phy' = [phy EXCEPT !.up = TRUE, !.mode = IF phy.an THEN Best(common) ELSE phy.mode,
                        !.lpa = partner.pause]
  /\ UNCHANGED <<phy_addr, st, flags, carrier, local, regs, filter, dev, partner>>

HwLinkDown ==
  /\ phy.up
  /\ phy' = Dropped(phy) /\ partner' \in Partners
  /\ UNCHANGED <<phy_addr, st, flags, carrier, local, regs, filter, dev>>

-----------------------------------------------------------------------------
\* (A definition whose name begins with "Mut" is a mutation of the definition
\* that follows it: what a plausible slip in that code would have written.)

\* __b44_set_flow_ctrl: into the registers, with the flags f.
Mut__b44_set_flow_ctrl(rx, f) == rx \cup {"FLOW" : x \in f \cap {"RX_PAUSE"}}

__b44_set_flow_ctrl(rx, f) == (rx \ {"FLOW"}) \cup {"FLOW" : x \in f \cap {"RX_PAUSE"}}

\* b44_set_flow_ctrl: it starts from what is already enabled.
b44_set_flow_ctrl(f, here, there) ==
  LET both == {"TX_PAUSE", "RX_PAUSE"} IN
  f \cup CASE "CAP" \in here /\ "CAP" \in there -> both
           [] here = Pauses /\ there = {"ASYM"} -> {"RX_PAUSE"}
           [] here = {"ASYM"} /\ there = Pauses -> {"TX_PAUSE"}
           [] OTHER -> {}

ForcedMode(f) ==
  IF "100_BASE_T" \in f
  THEN IF "FULL_DUPLEX" \in f THEN "100F" ELSE "100H"
  ELSE IF "FULL_DUPLEX" \in f THEN "10F" ELSE "10H"

Advertise(f) == (f \cap Modes) \cup (IF "PAUSE_AUTO" \in f THEN Pauses ELSE {})

\* b44_setup_phy: what it makes of the PHY.
b44_setup_phy(p, f) ==
  CASE "FORCE_LINK" \notin f -> Dropped([p EXCEPT !.an = TRUE, !.adv = Advertise(f)])
    [] "FORCE_LINK" \in f /\ ~p.an /\ p.mode = ForcedMode(f) -> p
    [] OTHER -> Dropped([p EXCEPT !.an = FALSE, !.mode = ForcedMode(f)])

b44_phy_reset(p) == Dropped([p EXCEPT !.an = TRUE, !.adv = Modes])

\* __b44_set_rx_mode.  (With ALLMULTI the entries are cleared from the first
\* one on.)
RxMode(rx, i) == (rx \ {"PROMISC", "ALLMULTI"}) \cup (IF "PROMISC" \in i THEN {"PROMISC"} ELSE i)

\* (Mutated: the entries beyond the list are left as they are.)
MutCamEntries(old, a, i, m) ==
  [k \in 0 .. (CamSize - 1) |->
     CASE k = 0 -> a
       [] k \in 1 .. Len(m) /\ k <= B44_MCAST_TABLE_SIZE -> m[k]
       [] OTHER -> old[k]]

CamEntries(old, a, i, m) ==
  [k \in 0 .. (CamSize - 1) |->
     CASE "ALLMULTI" \notin i /\ k = 0 -> a
       [] "ALLMULTI" \notin i /\ k \in 1 .. Len(m) /\ k <= B44_MCAST_TABLE_SIZE -> m[k]
       [] OTHER -> "zero"]

SetRxMode(rx, on, i, m) ==
  /\ rxconfig' = RxMode(rx, i)
  /\ cam' = IF "PROMISC" \in i THEN cam ELSE CamEntries(cam, dev_addr, i, m)
  /\ cam_on' = (on \/ "PROMISC" \notin i)

\* b44_init_hw: b44_chip_reset clears the registers, but whether the PHY could
\* be reset and set up (ok) is not looked at.
b44_init_hw(f) ==
  \E ok \in Mdio :
    /\ phy' = IF HasPhy /\ ok THEN b44_setup_phy(b44_phy_reset(phy), f) ELSE phy
    /\ dup' = FALSE
    /\ IF HasPhy /\ ok /\ "FORCE_LINK" \in f
       THEN SetRxMode(__b44_set_flow_ctrl({}, f), FALSE, iff, mc) /\ mac_flow' = ("TX_PAUSE" \in f)
       ELSE SetRxMode({}, FALSE, iff, mc) /\ mac_flow' = FALSE

\* b44_halt: the registers are cleared, the filter's entries stay.
b44_halt == dup' = FALSE /\ rxconfig' = {} /\ mac_flow' = FALSE /\ cam_on' = FALSE /\ UNCHANGED cam

-----------------------------------------------------------------------------
Init ==
  /\ phy_addr \in Phys
  /\ st = "closed"
  /\ flags = Modes \cup {"PAUSE_AUTO"}
  /\ carrier = TRUE                       \* nobody has called netif_carrier_off
  /\ chk = "idle" /\ bmsr = FALSE /\ local_adv = {}
  /\ dup = FALSE /\ rxconfig = {} /\ mac_flow = FALSE
  /\ cam = [k \in 0 .. (CamSize - 1) |-> "zero"] /\ cam_on = FALSE
  /\ dev_addr \in Addrs /\ iff \in IffFlags /\ mc = <<>>
  /\ partner \in Partners
  /\ phy = [an |-> TRUE, adv |-> Modes, up |-> FALSE, latch |-> TRUE, mode |-> "10H", lpa |-> {}]

\* The lock is free, and the device is there to be configured.
Ready == st = "up" /\ chk = "idle"

b44_open ==
  /\ st = "closed" /\ st' = "up"
  /\ b44_init_hw(flags)
  /\ UNCHANGED <<phy_addr, flags, carrier, local, dev, partner>>

b44_close ==
  /\ Ready /\ st' = "closed" /\ carrier' = FALSE
  /\ b44_halt
  /\ UNCHANGED <<phy_addr, flags, local, dev, phy, partner>>

b44_suspend ==
  /\ Ready /\ st' = "asleep" /\ carrier' = FALSE
  /\ b44_halt
  /\ UNCHANGED <<phy_addr, flags, local, dev, phy, partner>>

b44_resume ==
  /\ st = "asleep" /\ st' = "up"
  /\ b44_init_hw(flags)
  /\ UNCHANGED <<phy_addr, flags, carrier, local, dev, partner>>

\* b44_change_mtu, b44_set_ringparam, b44_tx_timeout and the error path of
\* b44_poll: none of them touches the carrier.
Restart ==
  /\ Ready /\ "restart" \in Env
  /\ b44_init_hw(flags)
  /\ UNCHANGED <<phy_addr, st, flags, carrier, local, dev, partner>>

b44_set_pauseparam(auto, pause) ==
  LET f == (flags \ {"PAUSE_AUTO", "TX_PAUSE", "RX_PAUSE"}) \cup pause
             \cup (IF auto THEN {"PAUSE_AUTO"} ELSE {})
  IN
  /\ Ready
  /\ flags' = f
  /\ IF auto THEN b44_init_hw(f)
     ELSE /\ rxconfig' = __b44_set_flow_ctrl(rxconfig, f) /\ mac_flow' = ("TX_PAUSE" \in f)
          /\ UNCHANGED <<dup, filter, phy>>
  /\ UNCHANGED <<phy_addr, st, carrier, local, dev, partner>>

\* What b44_set_settings reads out of cmd->advertising: it tests ethtool's bits
\* with the constants of the MII register, whose values mean something else.
AdvertisingRead(bits) ==
  {mode \in Modes : CASE mode = "10H" -> "1000baseT_Full" \in bits
                      [] mode = "10F" -> "Autoneg" \in bits
                      [] mode = "100H" -> "TP" \in bits
                      [] mode = "100F" -> "AUI" \in bits}

\* (The flags of a forced mode are only ever set, never cleared.)
SettingsFlags(s) ==
  IF s.auto
  THEN (flags \ (Modes \cup {"FORCE_LINK"})) \cup AdvertisingRead(s.advertising)
  ELSE flags \cup {"FORCE_LINK"}
             \cup (IF s.mode \in {"100H", "100F"} THEN {"100_BASE_T"} ELSE {})
             \cup (IF s.mode \in Full THEN {"FULL_DUPLEX"} ELSE {})

b44_set_settings(s) ==
  LET f == SettingsFlags(s) IN
  \E ok \in Mdio :
    /\ Ready
    /\ s.auto => s.advertising \cap {"1000baseT_Half", "1000baseT_Full"} = {}
    /\ flags' = f
    /\ phy' = IF HasPhy /\ ok THEN b44_setup_phy(phy, f) ELSE phy
    /\ IF HasPhy /\ ok /\ "FORCE_LINK" \in f
       THEN rxconfig' = __b44_set_flow_ctrl(rxconfig, f) /\ mac_flow' = ("TX_PAUSE" \in f)
       ELSE UNCHANGED <<rxconfig, mac_flow>>
    /\ UNCHANGED <<phy_addr, st, carrier, local, dup, filter, dev, partner>>

b44_nway_reset ==
  /\ Ready /\ HasPhy /\ phy.an
  /\ phy' = Dropped(phy)
  /\ UNCHANGED <<phy_addr, st, flags, carrier, local, regs, filter, dev, partner>>

\* SIOCGMIIREG.
b44_ioctl(reg) ==
  /\ Ready /\ HasPhy
  /\ phy' = IF reg = "MII_BMSR" THEN [phy EXCEPT !.latch = ~phy.up] ELSE phy
  /\ UNCHANGED <<phy_addr, st, flags, carrier, local, regs, filter, dev, partner>>

\* The stack tells a present and open device of a new list or new flags.
b44_set_rx_mode(i, m) ==
  /\ chk = "idle"
  /\ iff' = i /\ mc' = m
  /\ IF st = "up" THEN SetRxMode(rxconfig, cam_on, i, m) ELSE UNCHANGED <<rxconfig, filter>>
  /\ UNCHANGED <<phy_addr, st, flags, carrier, local, dup, mac_flow, dev_addr, phy, partner>>

b44_set_mac_addr(a) ==
  /\ st = "closed"
  /\ dev_addr' = a
  /\ cam_on' = ("PROMISC" \notin iff)
  /\ cam' = IF "PROMISC" \in iff THEN cam ELSE [cam EXCEPT ![0] = a]
  /\ UNCHANGED <<phy_addr, st, flags, carrier, local, regs, iff, mc, phy, partner>>

-----------------------------------------------------------------------------
\* b44_check_phy, from the timer.

CheckNoPhy ==
  /\ Ready /\ ~HasPhy
  /\ flags' = flags \cup {"100_BASE_T", "FULL_DUPLEX"}
  /\ dup' = (dup \/ ~carrier) /\ carrier' = TRUE
  /\ UNCHANGED <<phy_addr, st, local, rxconfig, mac_flow, filter, dev, phy, partner>>

CheckTimeout ==
  /\ Ready /\ HasPhy /\ Env \cap {"bmsr", "mdio"} # {}
  /\ UNCHANGED vars

CheckBmsr ==
  /\ Ready /\ HasPhy
  /\ chk' = "aux" /\ bmsr' = (phy.up /\ ~phy.latch)
  /\ phy' = [phy EXCEPT !.latch = ~phy.up]
  /\ UNCHANGED <<phy_addr, st, flags, carrier, local_adv, regs, filter, dev, partner>>

CheckDone == chk' = "idle" /\ bmsr' = FALSE /\ local_adv' = {}

AuxFlags ==
  (flags \ {"100_BASE_T", "FULL_DUPLEX"})
    \cup (IF phy.mode \in {"100H", "100F"} THEN {"100_BASE_T"} ELSE {})
    \cup (IF phy.mode \in Full THEN {"FULL_DUPLEX"} ELSE {})

\* The link is as it was, or has gone down.  If the register cannot be read,
\* what MII_BMSR has told of is forgotten.
\* (Mutated: a link that has gone down is not noticed.)
MutCheckAux(ok) ==
  /\ chk = "aux" /\ (carrier \/ ~bmsr \/ ~ok)
  /\ flags' = IF ok THEN AuxFlags ELSE flags
  /\ CheckDone
  /\ UNCHANGED <<phy_addr, st, carrier, regs, filter, dev, phy, partner>>

CheckAux(ok) ==
  /\ chk = "aux" /\ (carrier \/ ~bmsr \/ ~ok)
  /\ flags' = IF ok THEN AuxFlags ELSE flags
  /\ carrier' = (carrier /\ (bmsr \/ ~ok))
  /\ CheckDone
  /\ UNCHANGED <<phy_addr, st, regs, filter, dev, phy, partner>>

\* The link has come up.
CheckAuxUp ==
  /\ chk = "aux" /\ ~carrier /\ bmsr
  /\ flags' = AuxFlags
  /\ dup' = ("FULL_DUPLEX" \in AuxFlags)
  /\ IF "FORCE_LINK" \in flags THEN CheckDone /\ carrier' = TRUE
     ELSE chk' = "adv" /\ UNCHANGED <<bmsr, local_adv, carrier>>
  /\ UNCHANGED <<phy_addr, st, rxconfig, mac_flow, filter, dev, phy, partner>>

\* If one of the next two reads fails, the link goes without b44_set_flow_ctrl.
CheckAdv(ok) ==
  /\ chk = "adv"
  /\ IF ok THEN chk' = "lpa" /\ local_adv' = phy.adv \cap Pauses /\ UNCHANGED <<bmsr, carrier>>
     ELSE CheckDone /\ carrier' = TRUE
  /\ UNCHANGED <<phy_addr, st, flags, regs, filter, dev, phy, partner>>

CheckLpa(ok) ==
  LET f == IF ok THEN b44_set_flow_ctrl(flags, local_adv, phy.lpa) ELSE flags IN
  /\ chk = "lpa" /\ CheckDone
  /\ flags' = f /\ carrier' = TRUE
  /\ rxconfig' = IF ok THEN __b44_set_flow_ctrl(rxconfig, f) ELSE rxconfig
  /\ mac_flow' = IF ok THEN "TX_PAUSE" \in f ELSE mac_flow
  /\ UNCHANGED <<phy_addr, st, dup, filter, dev, phy, partner>>

CheckRest == CheckAuxUp \/ \E ok \in Mdio : CheckAux(ok) \/ CheckAdv(ok) \/ CheckLpa(ok)

Next ==
  \/ HwLinkUp \/ HwLinkDown
  \/ b44_open \/ b44_close \/ b44_suspend \/ b44_resume \/ Restart
  \/ \E auto \in BOOLEAN, pause \in SUBSET {"TX_PAUSE", "RX_PAUSE"} : b44_set_pauseparam(auto, pause)
  \/ \E s \in Settings : b44_set_settings(s)
  \/ b44_nway_reset
  \/ \E reg \in MiiReads : b44_ioctl(reg)
  \/ \E i \in IffFlags, m \in McLists : b44_set_rx_mode(i, m)
  \/ \E a \in Addrs : b44_set_mac_addr(a)
  \/ CheckNoPhy \/ CheckTimeout \/ CheckBmsr \/ CheckRest

\* The timer fires once a second, and not every read of MII_BMSR times out; a
\* check that has begun ends.
Fairness == SF_vars(CheckBmsr) /\ WF_vars(CheckRest)

Spec == Init /\ [][Next]_vars /\ Fairness

-----------------------------------------------------------------------------
(***************************************************************************)
(* The MAC works as the PHY does: while the driver reports a link and the  *)
(* PHY has had it without interruption since MII_BMSR was last read, the   *)
(* duplex bit is the one the PHY has negotiated and the pause bits are     *)
(* those of the flags, which b44_link_report and ethtool show.  They are   *)
(* only written when b44_check_phy sees the link come up, so every change  *)
(* and every loss of the registers must show up there as a lost link       *)
(* first, whenever the link drops and comes back between or during checks. *)
(***************************************************************************)
MacAgrees ==
  HasPhy /\ Ready /\ carrier /\ phy.up /\ ~phy.latch =>
    /\ dup <=> phy.mode \in Full
    /\ "FLOW" \in rxconfig <=> "RX_PAUSE" \in flags
    /\ mac_flow <=> "TX_PAUSE" \in flags

\* The same of a board without a PHY, where b44_check_phy reports full duplex.
NoPhyAgrees == ~HasPhy /\ Ready /\ "FULL_DUPLEX" \in flags => dup

(***************************************************************************)
(* The open interface hears its own address, the groups it has joined and  *)
(* nothing else, unless it is promiscuous: across resets, which lose the   *)
(* enable bit, lists that shrink and addresses that change while it is     *)
(* closed, and although RXCONFIG is shared with flow control.              *)
(***************************************************************************)
FilterRight ==
  st = "up" =>
    /\ "PROMISC" \in iff <=> "PROMISC" \in rxconfig
    /\ "PROMISC" \notin iff =>
         /\ cam_on
         /\ "ALLMULTI" \in iff <=> "ALLMULTI" \in rxconfig
         /\ LET heard == {cam[k] : k \in DOMAIN cam} \ {"zero"}
                joined == {mc[k] : k \in 1 .. Len(mc)}
            IN IF "ALLMULTI" \in iff THEN dev_addr \in heard
               ELSE heard = {dev_addr} \cup joined

\* Flow control is off when the link is forced: "there is no safe way to
\* determine if the link partner supports flow control or not.  So just disable
\* it completely in this case" (b44_setup_phy, 472).
ForcedNoPause == Ready /\ HasPhy /\ "FORCE_LINK" \in flags => "FLOW" \notin rxconfig /\ ~mac_flow

\* The carrier follows the link: b44_check_phy, called once a second, comes to
\* report a link that stays up, also one that was away for less than a
\* second, and the loss of one that stays down.
CarrierFollows ==
  /\ <>[](HasPhy /\ st = "up" /\ phy.up) => <>[]carrier
  /\ <>[](HasPhy /\ st = "up" /\ ~phy.up) => <>[]~carrier
=============================================================================
