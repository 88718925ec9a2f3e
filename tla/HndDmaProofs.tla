---------------------------- MODULE HndDmaProofs ----------------------------
(***************************************************************************)
(* Proofs about the Broadcom DMA library, for every size of the rings,     *)
(* every number of buffers to keep posted, and every set of packets and    *)
(* frame lengths.                                                          *)
(***************************************************************************)
EXTENDS HndDma, RingLemmas, TLAPS

TxDist(a, b) == RingDist(NTxd, a, b)
RxDist(a, b) == RingDist(NRxd, a, b)

(***************************************************************************)
(* The macros of the library, "& (ntxd - 1)" and so on, on indices that    *)
(* are in the ring.                                                        *)
(***************************************************************************)
LEMMA TxMacros ==
  ASSUME NEW a \in TxSlot, NEW b \in TxSlot
  PROVE  /\ NTXDACTIVE(a, b) = TxDist(a, b) /\ (b - a) % NTxd = TxDist(a, b)
         /\ TxDist(a, b) \in 0 .. (NTxd - 1) /\ (TxDist(a, b) = 0 <=> a = b)
  BY HndDmaAssumption, RingDistMod DEF TxSlot, NTXDACTIVE, TxDist

LEMMA RxMacros ==
  ASSUME NEW a \in RxSlot, NEW b \in RxSlot
  PROVE  /\ NRXDACTIVE(a, b) = RxDist(a, b) /\ (b - a) % NRxd = RxDist(a, b)
         /\ RxDist(a, b) \in 0 .. (NRxd - 1) /\ (RxDist(a, b) = 0 <=> a = b)
  BY HndDmaAssumption, RingDistMod DEF RxSlot, NRXDACTIVE, RxDist

LEMMA TxStep ==
  ASSUME NEW a \in TxSlot, NEW k \in 0 .. (NTxd - 1)
  PROVE  /\ (a + k) % NTxd = RingAt(NTxd, a, k) /\ (a + k) % NTxd \in TxSlot
         /\ TxDist(a, (a + k) % NTxd) = k
  BY HndDmaAssumption, RingAtMod, RingDistAt DEF TxSlot, TxDist

LEMMA RxStep ==
  ASSUME NEW a \in RxSlot, NEW k \in 0 .. (NRxd - 1)
  PROVE  /\ (a + k) % NRxd = RingAt(NRxd, a, k) /\ (a + k) % NRxd \in RxSlot
         /\ RxDist(a, (a + k) % NRxd) = k
  BY HndDmaAssumption, RingAtMod, RingDistAt DEF RxSlot, RxDist

\* One descriptor on, one back.
LEMMA TxNext ==
  ASSUME NEW a \in TxSlot
  PROVE  /\ NEXTTXD(a) \in TxSlot /\ PREVTXD(a) \in TxSlot
         /\ NEXTTXD(a) = IF a + 1 = NTxd THEN 0 ELSE a + 1
         /\ PREVTXD(a) = IF a = 0 THEN NTxd - 1 ELSE a - 1
  <1>1. NTxd \in Nat /\ NTxd > 1 /\ a \in Nat /\ a < NTxd
    BY HndDmaAssumption DEF TxSlot
  <1>2. (a + 1) % NTxd = IF a + 1 = NTxd THEN 0 ELSE a + 1
    BY <1>1
  <1>3. (a - 1) % NTxd = IF a = 0 THEN NTxd - 1 ELSE a - 1
    <2>1. CASE a = 0
      BY <1>1, <2>1
    <2>2. CASE a # 0
      BY <1>1, <2>2
    <2> QED
      BY <2>1, <2>2
  <1> QED
    BY <1>1, <1>2, <1>3 DEF NEXTTXD, PREVTXD, TxSlot

LEMMA RxNext ==
  ASSUME NEW a \in RxSlot
  PROVE  /\ NEXTRXD(a) \in RxSlot
         /\ NEXTRXD(a) = IF a + 1 = NRxd THEN 0 ELSE a + 1
  <1>1. NRxd \in Nat /\ NRxd > 1 /\ a \in Nat /\ a < NRxd
    BY HndDmaAssumption DEF RxSlot
  <1>2. (a + 1) % NRxd = IF a + 1 = NRxd THEN 0 ELSE a + 1
    BY <1>1
  <1> QED
    BY <1>1, <1>2 DEF NEXTRXD, RxSlot

-----------------------------------------------------------------------------
(***************************************************************************)
(* Type correctness, the transmit half.                                    *)
(***************************************************************************)
TxTypes ==
  /\ txin \in TxSlot /\ txout \in TxSlot /\ txavail \in 0 .. (NTxd - 1)
  /\ txp \in [TxSlot -> Pkts \cup {NULL}]
  /\ txd \in [TxSlot -> [sof : BOOLEAN, eof : BOOLEAN] \cup {NULL}]
  /\ xmt \in {"down", "on", "suspended", "reset"}
  /\ xmtptr \in TxSlot /\ xmtcur \in TxSlot

RxTypes ==
  /\ rxin \in RxSlot /\ rxout \in RxSlot
  /\ rxp \in [RxSlot -> Buffers \cup {NULL}]
  /\ rcv \in {"down", "on", "reset"}
  /\ rcvptr \in RxSlot /\ rcvcur \in RxSlot /\ rcvstat \in RxSlot
  /\ rcvmore \in Nat
  /\ rx_wrong \in SUBSET {"middle", "frame"}

\* The number of free descriptors.
LEMMA TxFreeIs ==
  ASSUME TxTypes
  PROVE  TxFree = NTxd - TxDist(txin, txout) - 1 /\ TxFree \in 0 .. (NTxd - 1)
  BY TxMacros, HndDmaAssumption DEF TxTypes, TxFree

LEMMA FilledType ==
  ASSUME TxTypes, NEW c, NEW k, NEW whole \in BOOLEAN
  PROVE  Filled(c, k, whole) \in [TxSlot -> [sof : BOOLEAN, eof : BOOLEAN] \cup {NULL}]
  BY DEF Filled, TxTypes

\* A chain that is taken fits, and where its last descriptor is.
LEMMA ChainRoom ==
  ASSUME TxTypes, NEW c \in Chains, ~NoRoom(c) \/ ~NoRoomFast(c)
  PROVE  /\ c.n \in Nat /\ c.n <= TxFree /\ c.n <= NTxd - 1
         /\ (txout + c.n) % NTxd \in TxSlot
         /\ TxDist(txout, (txout + c.n) % NTxd) = c.n
  <1>1. c.n \in Nat
    BY HndDmaAssumption DEF Chains
  <1>2. c.n <= TxFree /\ c.n \in 0 .. (NTxd - 1)
    BY <1>1, TxFreeIs, HndDmaAssumption DEF NoRoom, NoRoomFast
  <1>3. txout \in TxSlot /\ NTxd \in Nat
    BY HndDmaAssumption DEF TxTypes
  <1> QED
    BY <1>1, <1>2, <1>3, TxStep

\* dma_tx and dma_txfast take the chain or refuse it.
LEMMA TxCallIs ==
  ASSUME TxTypes, NEW p \in Pkts, NEW c \in Chains, dma_txfast(p, c) \/ dma_tx(p, c)
  PROVE  /\ TxCalled(p) /\ xmt' = xmt
         /\ \/ TxRefuse(c)
            \/ TxPost(p, c) /\ (~NoRoom(c) \/ ~NoRoomFast(c))
  BY DEF dma_txfast, dma_tx, TxRefuse, TxPost

\* A reclaim takes back the descriptors up to a slot it may go to: the first
\* packet's last one, or the end.
LEMMA ReclaimIs ==
  ASSUME TxTypes, NEW f \in BOOLEAN, dma_getnexttxp(f) \/ dma_txreclaim(f)
  PROVE  /\ ReclaimCalled(f)
         /\ \E end \in TxSlot :
              /\ ReclaimTo(end)
              /\ TxDist(txin, end) <= TxDist(txin, TxEnd(f))
              /\ xmt' = xmt \/ (f /\ xmt' = "down" /\ end = txout)
  <1>1. TxEnd(f) \in TxSlot /\ txin \in TxSlot
    BY DEF TxEnd, TxTypes
  <1> DEFINE d == NTXDACTIVE(txin, TxEnd(f))
             packets == {k \in 0 .. (d - 1) : txp[(txin + k) % NTxd] # NULL}
             first == CHOOSE k \in packets : \A l \in packets : k <= l
  <1>2. d = TxDist(txin, TxEnd(f)) /\ d \in 0 .. (NTxd - 1) /\ NTxd \in Nat
    BY <1>1, TxMacros, HndDmaAssumption
  <1>3. CASE dma_txreclaim(f)
    <2>1. TxDist(txin, TxEnd(f)) <= TxDist(txin, TxEnd(f))
      BY <1>2
    <2>2. f => TxEnd(f) = txout
      BY DEF TxEnd
    <2> QED
      BY <1>1, <1>3, <2>1, <2>2 DEF dma_txreclaim
  <1>4. CASE dma_getnexttxp(f)
    <2>1. ReclaimCalled(f) /\ xmt' = xmt
          /\ ReclaimTo(IF packets = {} THEN TxEnd(f) ELSE (txin + first + 1) % NTxd)
      BY <1>4 DEF dma_getnexttxp
    <2>2. CASE packets = {}
      <3>1. TxDist(txin, TxEnd(f)) <= TxDist(txin, TxEnd(f))
        BY <1>2
      <3> QED
        BY <1>1, <2>1, <2>2, <3>1
    <2>3. CASE packets # {}
      <3>1. packets \subseteq Nat
        BY <1>2
      <3> HIDE DEF packets
      <3>2. first \in packets
        <4>1. \E k \in packets : \A l \in packets : k <= l
          BY <2>3, <3>1, LeastNat
        <4> QED
          BY <4>1
      <3> HIDE DEF first
      <3>3. first \in 0 .. (d - 1)
        BY <3>2 DEF packets
      <3> HIDE DEF d
      <3>4. first + 1 \in 0 .. (NTxd - 1) /\ first + 1 <= d
        BY <1>2, <3>3
      <3>5. txin + first + 1 = txin + (first + 1)
        BY <1>1, <3>3, <1>2, HndDmaAssumption DEF TxSlot
      <3> DEFINE end == (txin + (first + 1)) % NTxd
      <3>6. end \in TxSlot /\ TxDist(txin, end) = first + 1
        BY <1>1, <3>4, TxStep
      <3>7. ReclaimTo(end)
        BY <2>1, <2>3, <3>5
      <3> HIDE DEF end
      <3>8. TxDist(txin, end) <= TxDist(txin, TxEnd(f))
        BY <1>2, <3>4, <3>6
      <3> QED
        BY <2>1, <3>6, <3>7, <3>8
    <2> QED
      BY <2>2, <2>3
  <1> QED
    BY <1>3, <1>4

\* The steps of the receive half leave the transmit half alone, and the other
\* way round.
LEMMA TxHalfSteps ==
  ASSUME [Next]_vars
  PROVE  \/ UNCHANGED txvars
         \/ dma_detach \/ dma_txinit \/ dma_txsuspend \/ dma_txresume \/ dma_txreset
         \/ (\E p \in Pkts, c \in Chains : dma_txfast(p, c) \/ dma_tx(p, c))
         \/ (\E f \in BOOLEAN : dma_getnexttxp(f) \/ dma_txreclaim(f))
         \/ dma_txblock \/ dma_txunblock \/ HwTx
  <1>1. CASE \E rings \in Channels : dma_attach(rings)
    BY <1>1 DEF dma_attach
  <1>2. CASE dma_rxinit \/ dma_rxreset \/ dma_rxreclaim
    <2>1. CASE dma_rxinit
      BY <2>1 DEF dma_rxinit
    <2>2. CASE dma_rxreset
      BY <2>2 DEF dma_rxreset, RcvDisabled
    <2>3. CASE dma_rxreclaim
      BY <2>3, SMTT(30) DEF dma_rxreclaim
    <2> QED
      BY <1>2, <2>1, <2>2, <2>3
  <1>3. CASE dma_rx
    BY <1>3 DEF dma_rx
  <1>4. CASE \E k \in 0 .. NRxPost : dma_rxfill(k)
    BY <1>4 DEF dma_rxfill
  <1>5. CASE \E len \in FrameLens : HwRx(len)
    BY <1>5 DEF HwRx
  <1>6. CASE UNCHANGED vars
    BY <1>6 DEF vars
  <1> QED
    BY <1>1, <1>2, <1>3, <1>4, <1>5, <1>6 DEF Next

LEMMA RxHalfSteps ==
  ASSUME TxTypes, [Next]_vars
  PROVE  \/ UNCHANGED rxvars
         \/ dma_detach \/ dma_rxinit \/ dma_rxreset
         \/ (\E k \in 0 .. NRxPost : dma_rxfill(k))
         \/ dma_rx \/ dma_rxreclaim
         \/ (\E len \in FrameLens : HwRx(len))
  <1>1. CASE \E rings \in Channels : dma_attach(rings)
    BY <1>1 DEF dma_attach
  <1>2. CASE dma_txinit \/ dma_txsuspend \/ dma_txresume \/ dma_txreset
    BY <1>2 DEF dma_txinit, dma_txsuspend, dma_txresume, dma_txreset, XmtDisabled
  <1>3. ASSUME NEW p \in Pkts, NEW c \in Chains, dma_txfast(p, c) \/ dma_tx(p, c)
        PROVE  UNCHANGED rxvars
    BY <1>3, TxCallIs DEF TxRefuse, TxPost
  <1>4. ASSUME NEW f \in BOOLEAN, dma_getnexttxp(f) \/ dma_txreclaim(f) PROVE UNCHANGED rxvars
    BY <1>4, ReclaimIs DEF ReclaimTo
  <1>5. CASE dma_txblock \/ dma_txunblock \/ HwTx
    BY <1>5 DEF dma_txblock, dma_txunblock, HwTx
  <1>6. CASE UNCHANGED vars
    BY <1>6 DEF vars
  <1> QED
    BY <1>1, <1>2, <1>3, <1>4, <1>5, <1>6 DEF Next

\* What each step of the transmit half keeps of the types.
LEMMA TxTypesStep ==
  ASSUME TxTypes, [Next]_vars
  PROVE  TxTypes'
  <1> USE HndDmaAssumption
  <1>1. CASE UNCHANGED txvars
    BY <1>1 DEF TxTypes, txvars, ringtx
  <1>2. CASE dma_detach
    BY <1>2 DEF TxTypes, dma_detach, TxSlot
  <1>3. CASE dma_txinit
    BY <1>3 DEF TxTypes, dma_txinit, TxSlot
  <1>4. CASE dma_txsuspend \/ dma_txresume \/ dma_txreset
    BY <1>4 DEF TxTypes, dma_txsuspend, dma_txresume, dma_txreset, XmtDisabled, ringtx, TxSlot
  <1>5. ASSUME NEW p \in Pkts, NEW c \in Chains, dma_txfast(p, c) \/ dma_tx(p, c)
        PROVE  TxTypes'
    <2>1. xmt' = xmt
      BY <1>5, TxCallIs
    <2>2. CASE TxRefuse(c)
      <3>1. txd' = Filled(c, TxFree, FALSE) /\ txavail' = 0
            /\ UNCHANGED <<txin, txout, txp, xmtptr, xmtcur>>
        BY <2>2 DEF TxRefuse
      <3>2. txd' \in [TxSlot -> [sof : BOOLEAN, eof : BOOLEAN] \cup {NULL}]
        BY <3>1, FilledType
      <3>3. txavail' \in 0 .. (NTxd - 1)
        BY <3>1
      <3> QED
        BY <2>1, <3>1, <3>2, <3>3 DEF TxTypes
    <2>3. CASE TxPost(p, c) /\ (~NoRoom(c) \/ ~NoRoomFast(c))
      <3> DEFINE out == (txout + c.n) % NTxd
                 last == PREVTXD(out)
                 filled == Filled(c, c.n, TRUE)
      <3>1. /\ txd' = IF c.n > 0 \/ txd[last] = NULL THEN filled
                      ELSE [filled EXCEPT ![last] = [sof |-> FALSE, eof |-> TRUE]]
            /\ txp' = [txp EXCEPT ![last] = p]
            /\ txout' = out /\ xmtptr' = out /\ txavail' = NTxd - NTXDACTIVE(txin, out) - 1
            /\ UNCHANGED <<txin, xmt, xmtcur>>
        BY <2>3 DEF TxPost
      <3>2. out \in TxSlot
        BY <2>3, ChainRoom
      <3>3. filled \in [TxSlot -> [sof : BOOLEAN, eof : BOOLEAN] \cup {NULL}]
        BY FilledType
      <3> HIDE DEF out, filled
      <3>4. last \in TxSlot
        BY <3>2, TxNext
      <3> HIDE DEF last
      <3>5. txd' \in [TxSlot -> [sof : BOOLEAN, eof : BOOLEAN] \cup {NULL}]
        BY <3>1, <3>3, <3>4
      <3>6. txavail' \in 0 .. (NTxd - 1)
        BY <3>1, <3>2, TxMacros DEF TxTypes
      <3>7. txp' \in [TxSlot -> Pkts \cup {NULL}]
        BY <3>1, <3>4 DEF TxTypes
      <3> QED
        BY <3>1, <3>2, <3>5, <3>6, <3>7 DEF TxTypes
    <2> QED
      BY <1>5, <2>2, <2>3, TxCallIs
  <1>6. ASSUME NEW f \in BOOLEAN, dma_getnexttxp(f) \/ dma_txreclaim(f)
        PROVE  TxTypes'
    <2>1. PICK end \in TxSlot :
            /\ ReclaimTo(end)
            /\ xmt' = xmt \/ (f /\ xmt' = "down" /\ end = txout)
      BY <1>6, ReclaimIs
    <2>2. txin' = end /\ txavail' = NTxd - NTXDACTIVE(end, txout) - 1
          /\ UNCHANGED <<txout, xmtptr, xmtcur>>
      BY <2>1 DEF ReclaimTo
    <2>3. txp' \in [TxSlot -> Pkts \cup {NULL}]
      BY <2>1 DEF ReclaimTo, TxTypes
    <2>4. txd' \in [TxSlot -> [sof : BOOLEAN, eof : BOOLEAN] \cup {NULL}]
      BY <2>1 DEF ReclaimTo, TxTypes
    <2>5. txavail' \in 0 .. (NTxd - 1)
      BY <2>2, TxMacros DEF TxTypes
    <2> QED
      BY <2>1, <2>2, <2>3, <2>4, <2>5 DEF TxTypes
  <1>7. CASE dma_txblock
    BY <1>7 DEF TxTypes, dma_txblock
  <1>8. CASE dma_txunblock
    BY <1>8, TxFreeIs DEF TxTypes, dma_txunblock
  <1>9. CASE HwTx
    BY <1>9, TxNext DEF TxTypes, HwTx
  <1> QED
    BY <1>1, <1>2, <1>3, <1>4, <1>5, <1>6, <1>7, <1>8, <1>9, TxHalfSteps

-----------------------------------------------------------------------------
(***************************************************************************)
(* Type correctness, the receive half.                                     *)
(***************************************************************************)
\* What dma_rx does to the ring: it takes back some of the buffers the chip has
\* reported.
LEMMA DmaRxIs ==
  ASSUME RxTypes, dma_rx
  PROVE  \E used \in 0 .. Received :
           /\ rxp' = [i \in RxSlot |-> IF (i - rxin) % NRxd < used THEN NULL ELSE rxp[i]]
           /\ rxin' = (rxin + used) % NRxd
           /\ assert_failed' = (assert_failed \/
                                \E d \in 0 .. (used - 1) : rxp[(rxin + d) % NRxd] = NULL)
           /\ UNCHANGED <<chan, rxout, rcv, rcvptr, rcvcur, rcvstat, rcvmore, txvars>>
           /\ rx_wrong \subseteq rx_wrong' /\ rx_wrong' \subseteq rx_wrong \cup {"middle", "frame"}
  <1> DEFINE good == {d \in 0 .. (Received - 1) :
                        SkipLen[d] = 0 /\ rxp[(rxin + d) % NRxd].len <= Fits}
             first == IF good = {} THEN Received
                      ELSE CHOOSE d \in good : \A e \in good : d <= e
             used == IF good = {} THEN Received ELSE first + 1
  <1>1. Received \in Nat
    BY RxMacros, HndDmaAssumption DEF RxTypes, Received
  <1>2. used \in 0 .. Received
    <2>1. CASE good = {}
      BY <1>1, <2>1
    <2>2. CASE good # {}
      <3>1. good \subseteq Nat /\ good \subseteq 0 .. (Received - 1)
        BY <1>1
      <3> HIDE DEF good
      <3>2. \E d \in good : \A e \in good : d <= e
        BY <2>2, <3>1, LeastNat
      <3>3. first \in good
        BY <2>2, <3>2
      <3> HIDE DEF first
      <3> QED
        BY <1>1, <2>2, <3>1, <3>3
    <2> QED
      BY <2>1, <2>2
  <1>3. /\ rxp' = [i \in RxSlot |-> IF (i - rxin) % NRxd < used THEN NULL ELSE rxp[i]]
        /\ rxin' = (rxin + used) % NRxd
        /\ assert_failed' = (assert_failed \/
                             \E d \in 0 .. (used - 1) : rxp[(rxin + d) % NRxd] = NULL)
        /\ UNCHANGED <<chan, rxout, rcv, rcvptr, rcvcur, rcvstat, rcvmore, txvars>>
    BY DEF dma_rx
  <1>4. rx_wrong \subseteq rx_wrong' /\ rx_wrong' \subseteq rx_wrong \cup {"middle", "frame"}
    BY Zenon DEF dma_rx
  <1> HIDE DEF used
  <1> QED
    BY <1>2, <1>3, <1>4

LEMMA ReceivedIs ==
  ASSUME RxTypes
  PROVE  Received \in 0 .. (NRxd - 1)
         /\ Received = (IF rxin = rxout THEN 0 ELSE RxDist(rxin, rcvstat))
  BY RxMacros, HndDmaAssumption DEF RxTypes, Received

\* How many more descriptors a frame needs after its first.
LEMMA PartsType ==
  ASSUME NEW len \in Nat, len > Fits
  PROVE  (len - Fits + BufSize - 1) \div BufSize \in Nat
  <1>1. BufSize \in Nat /\ BufSize > 0 /\ Fits \in Nat
    BY HndDmaAssumption DEF Fits
  <1>2. len - Fits + BufSize - 1 \in Nat
    BY <1>1
  <1> QED
    BY <1>1, <1>2

LEMMA RxTypesStep ==
  ASSUME TxTypes, RxTypes, [Next]_vars
  PROVE  RxTypes'
  <1> USE HndDmaAssumption
  <1>1. CASE UNCHANGED rxvars
    BY <1>1 DEF RxTypes, rxvars, ringrx
  <1>2. CASE dma_detach
    BY <1>2 DEF RxTypes, dma_detach, RxSlot
  <1>3. CASE dma_rxinit
    BY <1>3 DEF RxTypes, dma_rxinit, RxSlot
  <1>4. CASE dma_rxreset
    BY <1>4 DEF RxTypes, dma_rxreset, RcvDisabled, RxSlot
  <1>5. ASSUME NEW k \in 0 .. NRxPost, dma_rxfill(k)
        PROVE  RxTypes'
    <2>1. rxp' = [i \in RxSlot |-> IF (i - rxout) % NRxd < k THEN Cleared ELSE rxp[i]]
          /\ rxout' = (rxout + k) % NRxd /\ rcvptr' = (rxout + k) % NRxd
          /\ UNCHANGED <<rxin, rcv, rcvcur, rcvstat, rcvmore, rx_wrong>>
      BY <1>5 DEF dma_rxfill
    <2>2. Cleared \in Buffers
      BY DEF Cleared, Buffers
    <2>3. rxp' \in [RxSlot -> Buffers \cup {NULL}]
      BY <2>1, <2>2 DEF RxTypes
    <2>4. (rxout + k) % NRxd \in RxSlot
      BY RxStep DEF RxTypes
    <2> QED
      BY <2>1, <2>3, <2>4 DEF RxTypes
  <1>6. CASE dma_rx
    <2>1. PICK used \in 0 .. Received :
            /\ rxp' = [i \in RxSlot |-> IF (i - rxin) % NRxd < used THEN NULL ELSE rxp[i]]
            /\ rxin' = (rxin + used) % NRxd
            /\ UNCHANGED <<chan, rxout, rcv, rcvptr, rcvcur, rcvstat, rcvmore, txvars>>
            /\ rx_wrong' \subseteq rx_wrong \cup {"middle", "frame"}
      BY <1>6, DmaRxIs
    <2>2. (rxin + used) % NRxd \in RxSlot
      BY ReceivedIs, RxStep DEF RxTypes
    <2>3. rxp' \in [RxSlot -> Buffers \cup {NULL}]
      BY <2>1 DEF RxTypes
    <2> QED
      BY <2>1, <2>2, <2>3 DEF RxTypes
  <1>7. CASE dma_rxreclaim
    BY <1>7 DEF RxTypes, dma_rxreclaim
  <1>8. ASSUME NEW len \in FrameLens, HwRx(len)
        PROVE  RxTypes'
    <2>0. Fits \in Int /\ len \in Nat /\ rcvmore \in Nat
      <3>1. Fits \in Int
        BY DEF Fits
      <3>2. len \in Nat
        OBVIOUS
      <3>3. rcvmore \in Nat
        BY DEF RxTypes
      <3> QED
        BY <3>1, <3>2, <3>3
    <2> DEFINE more == IF rcvmore > 0 THEN rcvmore - 1
                       ELSE IF len <= Fits THEN 0
                       ELSE (len - Fits + BufSize - 1) \div BufSize
    <2>1. /\ rxp' = [rxp EXCEPT ![rcvcur] = [start |-> rcvmore = 0, len |-> len]]
          /\ rcvcur' = NEXTRXD(rcvcur) /\ rcvmore' = more
          /\ rcvstat' = NEXTRXD(rcvcur) \/ rcvstat' = rcvstat
          /\ UNCHANGED <<rxin, rxout, rcv, rcvptr, rx_wrong>>
      BY <1>8 DEF HwRx
    <2>2. more \in Nat
      <3>1. ~(len <= Fits) => (len - Fits + BufSize - 1) \div BufSize \in Nat
        BY <2>0, PartsType
      <3>2. rcvmore > 0 => rcvmore - 1 \in Nat
        BY <2>0
      <3> QED
        BY <3>1, <3>2
    <2>3. [start |-> rcvmore = 0, len |-> len] \in Buffers
      BY DEF Buffers
    <2>4. rxp' \in [RxSlot -> Buffers \cup {NULL}]
      BY <2>1, <2>3 DEF RxTypes
    <2> HIDE DEF more
    <2> QED
      BY <2>1, <2>2, <2>4, RxNext DEF RxTypes
  <1> QED
    BY <1>1, <1>2, <1>3, <1>4, <1>5, <1>6, <1>7, <1>8, RxHalfSteps

\* The two flags that belong to neither half.
FlagTypes == chan \in SUBSET {"tx", "rx"} /\ assert_failed \in BOOLEAN

\* Only four operations evaluate an ASSERT.
LEMMA AssertSteps ==
  ASSUME TxTypes, RxTypes, [Next]_vars
  PROVE  \/ assert_failed' = assert_failed
         \/ dma_detach \/ dma_rx \/ dma_rxreclaim
         \/ (\E p \in Pkts, c \in Chains : dma_txfast(p, c) \/ dma_tx(p, c))
         \/ (\E k \in 0 .. NRxPost : dma_rxfill(k))
  <1>1. CASE \E rings \in Channels : dma_attach(rings)
    BY <1>1 DEF dma_attach
  <1>2. CASE dma_txinit \/ dma_txsuspend \/ dma_txresume \/ dma_txreset
    BY <1>2 DEF dma_txinit, dma_txsuspend, dma_txresume, dma_txreset, XmtDisabled
  <1>3. CASE \E f \in BOOLEAN : dma_getnexttxp(f) \/ dma_txreclaim(f)
    BY <1>3, ReclaimIs DEF ReclaimTo
  <1>4. CASE dma_txblock \/ dma_txunblock \/ HwTx
    BY <1>4 DEF dma_txblock, dma_txunblock, HwTx
  <1>5. CASE dma_rxinit \/ dma_rxreset
    BY <1>5 DEF dma_rxinit, dma_rxreset, RcvDisabled
  <1>6. CASE \E len \in FrameLens : HwRx(len)
    BY <1>6 DEF HwRx
  <1>7. CASE UNCHANGED vars
    BY <1>7 DEF vars
  <1> QED
    BY <1>1, <1>2, <1>3, <1>4, <1>5, <1>6, <1>7 DEF Next

LEMMA FlagTypesStep ==
  ASSUME TxTypes, RxTypes, FlagTypes, [Next]_vars
  PROVE  FlagTypes'
  <1>1. assert_failed' \in BOOLEAN
    <2>1. CASE assert_failed' = assert_failed
      BY <2>1 DEF FlagTypes
    <2>2. CASE dma_detach
      BY <2>2, SMTT(30) DEF dma_detach
    <2>3. CASE dma_rx
      BY <2>3 DEF dma_rx
    <2>4. CASE dma_rxreclaim
      BY <2>4 DEF dma_rxreclaim
    <2>5. CASE \E p \in Pkts, c \in Chains : dma_txfast(p, c) \/ dma_tx(p, c)
      BY <2>5, TxCallIs DEF TxRefuse, TxPost, AssertFree
    <2>6. CASE \E k \in 0 .. NRxPost : dma_rxfill(k)
      BY <2>6 DEF dma_rxfill
    <2> QED
      BY <2>1, <2>2, <2>3, <2>4, <2>5, <2>6, AssertSteps
  <1>2. chan' \in SUBSET {"tx", "rx"}
    <2>1. CASE \E rings \in Channels : dma_attach(rings)
      BY <2>1, HndDmaAssumption DEF dma_attach
    <2>2. CASE dma_detach
      BY <2>2 DEF dma_detach
    <2>3. CASE ~(\E rings \in Channels : dma_attach(rings)) /\ ~dma_detach
      <3>1. chan' = chan
        <4>2. CASE dma_txinit \/ dma_txsuspend \/ dma_txresume \/ dma_txreset
          BY <4>2 DEF dma_txinit, dma_txsuspend, dma_txresume, dma_txreset, XmtDisabled
        <4>3. CASE \E f \in BOOLEAN : dma_getnexttxp(f) \/ dma_txreclaim(f)
          BY <4>3, ReclaimIs DEF ReclaimTo
        <4>4. CASE dma_txblock \/ dma_txunblock \/ HwTx
          BY <4>4 DEF dma_txblock, dma_txunblock, HwTx
        <4>5. CASE dma_rxinit \/ dma_rxreset \/ dma_rxreclaim
          BY <4>5 DEF dma_rxinit, dma_rxreset, RcvDisabled, dma_rxreclaim
        <4>6. CASE \E len \in FrameLens : HwRx(len)
          BY <4>6 DEF HwRx
        <4>7. CASE UNCHANGED vars
          BY <4>7 DEF vars
        <4>8. CASE \E p \in Pkts, c \in Chains : dma_txfast(p, c) \/ dma_tx(p, c)
          BY <4>8, TxCallIs DEF TxRefuse, TxPost
        <4>9. CASE \E k \in 0 .. NRxPost : dma_rxfill(k)
          BY <4>9 DEF dma_rxfill
        <4>10. CASE dma_rx
          BY <4>10 DEF dma_rx
        <4> QED
          BY <2>3, <4>2, <4>3, <4>4, <4>5, <4>6, <4>7, <4>8, <4>9, <4>10 DEF Next
      <3> QED
        BY <3>1 DEF FlagTypes
    <2> QED
      BY <2>1, <2>2, <2>3
  <1> QED
    BY <1>1, <1>2 DEF FlagTypes

HndTypes == TxTypes /\ RxTypes /\ FlagTypes

LEMMA HndTypesInit ==
  ASSUME Init
  PROVE  HndTypes
  <1>1. 0 \in TxSlot /\ 0 \in 0 .. (NTxd - 1) /\ 0 \in RxSlot /\ 0 \in Nat
    BY HndDmaAssumption DEF TxSlot, RxSlot
  <1>2. TxTypes
    BY <1>1 DEF Init, TxTypes
  <1>3. RxTypes
    BY <1>1 DEF Init, RxTypes
  <1> QED
    BY <1>2, <1>3 DEF Init, FlagTypes, HndTypes

LEMMA HndTypesStep ==
  ASSUME HndTypes, [Next]_vars
  PROVE  HndTypes'
  BY TxTypesStep, RxTypesStep, FlagTypesStep DEF HndTypes

\* The library's state and the chip's have their types in every state, for
\* every size of the rings, chain, frame length and order of calls; in
\* particular no index ever leaves its ring and txavail never wraps.
THEOREM HndTypeCorrect == Spec => []HndTypeOK
  <1>1. HndTypes => HndTypeOK
    BY DEF HndTypes, TxTypes, RxTypes, FlagTypes, HndTypeOK
  <1> QED
    BY <1>1, HndTypesInit, HndTypesStep, PTL DEF Spec

-----------------------------------------------------------------------------
(***************************************************************************)
(* The transmit ring.  A packet is saved only between txin and txout, the  *)
(* chip is between them too, and txavail is never more than what is free   *)
(* (it may be less: txblock and a refused chain set it to zero).  A chain  *)
(* of empty buffers takes no descriptor, and its packet the slot of        *)
(* another: the callers are assumed to send none.  A disabled chip is at   *)
(* descriptor 0, where dma_txinit starts again.                            *)
(***************************************************************************)
TxRing ==
  /\ \A i \in TxSlot : txp[i] # NULL => TxDist(txin, i) < TxDist(txin, txout)
  /\ xmt \in {"on", "suspended"} =>
       xmtptr = txout /\ TxDist(txin, xmtcur) <= TxDist(txin, txout)
  /\ xmt = "down" => txin = txout
  /\ xmt \in {"down", "reset"} => xmtptr = 0 /\ xmtcur = 0

\* Distances from txout and from a later txin.
LEMMA TxFrom ==
  ASSUME NEW a \in TxSlot, NEW b \in TxSlot, NEW c \in TxSlot
  PROVE  TxDist(b, c) = IF TxDist(a, b) <= TxDist(a, c)
                        THEN TxDist(a, c) - TxDist(a, b)
                        ELSE TxDist(a, c) - TxDist(a, b) + NTxd
  BY HndDmaAssumption, RingDistFrom DEF TxSlot, TxDist

\* The descriptors a chain takes: the new end of the ring, the last of them.
LEMMA PostedEnd ==
  ASSUME TxTypes, NEW n \in 1 .. TxFree
  PROVE  LET out == (txout + n) % NTxd IN
         /\ out \in TxSlot /\ PREVTXD(out) \in TxSlot
         /\ TxDist(txin, out) = TxDist(txin, txout) + n
         /\ TxDist(txout, PREVTXD(out)) = n - 1
         /\ TxDist(txin, PREVTXD(out)) = TxDist(txin, txout) + n - 1
  <1> DEFINE out == (txout + n) % NTxd
             last == PREVTXD(out)
  <1>1. /\ txin \in TxSlot /\ txout \in TxSlot
        /\ TxFree = NTxd - TxDist(txin, txout) - 1 /\ NTxd \in Nat /\ NTxd > 1
        /\ TxDist(txin, txout) \in 0 .. (NTxd - 1)
    BY TxFreeIs, TxMacros, HndDmaAssumption DEF TxTypes
  <1>2. n \in 0 .. (NTxd - 1)
    BY <1>1
  <1>3. out \in TxSlot /\ out = RingAt(NTxd, txout, n) /\ TxDist(txout, out) = n
    BY <1>1, <1>2, TxStep
  <1> HIDE DEF out
  <1>4. last \in TxSlot /\ last = IF out = 0 THEN NTxd - 1 ELSE out - 1
    BY <1>3, TxNext
  <1> HIDE DEF last
  <1>5. TxDist(txout, last) = n - 1
    BY <1>1, <1>2, <1>3, <1>4 DEF RingAt, TxDist, RingDist, TxSlot
  <1>6. TxDist(txin, out) \in 0 .. (NTxd - 1) /\ TxDist(txin, last) \in 0 .. (NTxd - 1)
    BY <1>1, <1>3, <1>4, TxMacros
  <1>7. TxDist(txin, out) = TxDist(txin, txout) + n
    <2>1. n = IF TxDist(txin, txout) <= TxDist(txin, out)
              THEN TxDist(txin, out) - TxDist(txin, txout)
              ELSE TxDist(txin, out) - TxDist(txin, txout) + NTxd
      BY <1>1, <1>3, TxFrom
    <2> HIDE DEF out
    <2> QED
      BY <2>1, <1>1, <1>6
  <1>8. TxDist(txin, last) = TxDist(txin, txout) + n - 1
    <2>1. n - 1 = IF TxDist(txin, txout) <= TxDist(txin, last)
                  THEN TxDist(txin, last) - TxDist(txin, txout)
                  ELSE TxDist(txin, last) - TxDist(txin, txout) + NTxd
      BY <1>1, <1>4, <1>5, TxFrom
    <2> QED
      BY <2>1, <1>1, <1>6
  <1> QED
    BY <1>3, <1>4, <1>5, <1>7, <1>8 DEF out, last

\* A slot is in the ring or past txout, and then its distance is known.
LEMMA TxPast ==
  ASSUME TxTypes, NEW i \in TxSlot
  PROVE  /\ TxDist(txin, txout) <= TxDist(txin, i)
              => TxDist(txout, i) = TxDist(txin, i) - TxDist(txin, txout)
         /\ TxDist(txout, i) <= TxFree
              => TxDist(txin, i) = TxDist(txin, txout) + TxDist(txout, i)
                 \/ TxDist(txin, i) < TxDist(txin, txout)
         /\ TxDist(txout, i) < TxFree => TxDist(txin, txout) <= TxDist(txin, i)
  <1>1. /\ txin \in TxSlot /\ txout \in TxSlot /\ NTxd \in Nat
        /\ TxFree = NTxd - TxDist(txin, txout) - 1
        /\ TxDist(txin, txout) \in 0 .. (NTxd - 1) /\ TxDist(txin, i) \in 0 .. (NTxd - 1)
        /\ TxDist(txout, i) \in 0 .. (NTxd - 1)
    BY TxFreeIs, TxMacros, HndDmaAssumption DEF TxTypes
  <1>2. TxDist(txout, i) = IF TxDist(txin, txout) <= TxDist(txin, i)
                           THEN TxDist(txin, i) - TxDist(txin, txout)
                           ELSE TxDist(txin, i) - TxDist(txin, txout) + NTxd
    BY <1>1, TxFrom
  <1> QED
    BY <1>1, <1>2

\* The ASSERT at each descriptor written: none of them has a packet.
LEMMA WrittenFree ==
  ASSUME TxTypes, TxRing, NEW k \in 0 .. TxFree
  PROVE  ~ \E i \in TxSlot : (i - txout) % NTxd < k /\ txp[i] # NULL
  <1> SUFFICES ASSUME NEW i \in TxSlot, (i - txout) % NTxd < k, txp[i] # NULL
               PROVE  FALSE
    OBVIOUS
  <1>1. TxDist(txout, i) < k /\ TxDist(txout, i) \in Nat
    BY TxMacros DEF TxTypes
  <1>2. TxDist(txin, i) < TxDist(txin, txout)
    BY DEF TxRing
  <1>3. TxFree \in Nat /\ TxDist(txin, i) \in Nat /\ TxDist(txin, txout) \in Nat
    BY TxFreeIs, TxMacros, HndDmaAssumption DEF TxTypes
  <1>4. TxDist(txout, i) < TxFree
    BY <1>1, <1>3
  <1> QED
    BY <1>2, <1>3, <1>4, TxPast

\* What a posted chain makes of the packets.
LEMMA PostIs ==
  ASSUME TxTypes, 0 \notin Needs, NEW p \in Pkts, NEW c \in Chains,
         TxPost(p, c), ~NoRoom(c) \/ ~NoRoomFast(c)
  PROVE  /\ c.n \in 1 .. TxFree
         /\ txout' = (txout + c.n) % NTxd /\ xmtptr' = txout'
         /\ txp' = [txp EXCEPT ![PREVTXD(txout')] = p]
         /\ txd' = Filled(c, c.n, TRUE)
         /\ txavail' = NTxd - NTXDACTIVE(txin, txout') - 1
         /\ AssertFree(c.n)
         /\ UNCHANGED <<txin, xmt, xmtcur>>
  <1>1. c.n \in 1 .. TxFree
    <2>1. c.n \in Needs /\ c.n \in Nat /\ c.n <= TxFree
      BY ChainRoom DEF Chains
    <2>2. c.n # 0
      BY <2>1
    <2>3. TxFree \in Nat
      BY TxFreeIs, HndDmaAssumption
    <2> QED
      BY <2>1, <2>2, <2>3
  <1>2. c.n > 0
    BY <1>1
  <1> QED
    BY <1>1, <1>2 DEF TxPost

\* What is left after a reclaim that stops at end.
LEMMA ReclaimedRing ==
  ASSUME TxTypes, NEW end \in TxSlot, TxDist(txin, end) <= TxDist(txin, txout), ReclaimTo(end)
  PROVE  /\ TxDist(end, txout) = TxDist(txin, txout) - TxDist(txin, end)
         /\ \A i \in TxSlot :
              /\ txp'[i] = IF TxDist(txin, i) < TxDist(txin, end) THEN NULL ELSE txp[i]
              /\ txd'[i] = IF TxDist(txin, i) < TxDist(txin, end) THEN NULL ELSE txd[i]
              /\ TxDist(txin, end) <= TxDist(txin, i)
                   => TxDist(end, i) = TxDist(txin, i) - TxDist(txin, end)
              /\ TxDist(end, i) < TxDist(end, txout)
                   => TxDist(txin, i) < TxDist(txin, txout)
                      /\ TxDist(txin, end) <= TxDist(txin, i)
  <1>1. txin \in TxSlot /\ txout \in TxSlot /\ NTxd \in Nat
    BY HndDmaAssumption DEF TxTypes
  <1>2. TxDist(txin, end) \in 0 .. (NTxd - 1) /\ TxDist(txin, txout) \in 0 .. (NTxd - 1)
    BY <1>1, TxMacros
  <1>3. TxDist(end, txout) = TxDist(txin, txout) - TxDist(txin, end)
    BY <1>1, <1>2, TxFrom
  <1>4. ASSUME NEW i \in TxSlot
        PROVE  /\ txp'[i] = IF TxDist(txin, i) < TxDist(txin, end) THEN NULL ELSE txp[i]
               /\ txd'[i] = IF TxDist(txin, i) < TxDist(txin, end) THEN NULL ELSE txd[i]
    <2>1. (i - txin) % NTxd = TxDist(txin, i) /\ NTXDACTIVE(txin, end) = TxDist(txin, end)
      BY <1>1, TxMacros
    <2> QED
      BY <2>1 DEF ReclaimTo
  <1>5. ASSUME NEW i \in TxSlot
        PROVE  /\ TxDist(txin, end) <= TxDist(txin, i)
                    => TxDist(end, i) = TxDist(txin, i) - TxDist(txin, end)
               /\ TxDist(end, i) < TxDist(end, txout)
                    => TxDist(txin, i) < TxDist(txin, txout)
                       /\ TxDist(txin, end) <= TxDist(txin, i)
    <2>1. TxDist(txin, i) \in 0 .. (NTxd - 1)
      BY <1>1, TxMacros
    <2>2. TxDist(end, i) = IF TxDist(txin, end) <= TxDist(txin, i)
                           THEN TxDist(txin, i) - TxDist(txin, end)
                           ELSE TxDist(txin, i) - TxDist(txin, end) + NTxd
      BY <1>1, TxFrom
    <2> QED
      BY <1>1, <1>2, <1>3, <2>1, <2>2
  <1> QED
    BY <1>3, <1>4, <1>5

\* A reclaim never passes txout.
LEMMA ReclaimEnd ==
  ASSUME TxTypes, TxRing, NEW f \in BOOLEAN, ReclaimCalled(f)
  PROVE  TxDist(txin, TxEnd(f)) <= TxDist(txin, txout)
  <1>1. TxDist(txin, txout) \in Int
    BY TxMacros, HndDmaAssumption DEF TxTypes
  <1>2. CASE f
    BY <1>1, <1>2 DEF TxEnd
  <1>3. CASE ~f
    BY <1>3 DEF TxEnd, ReclaimCalled, TxRing
  <1> QED
    BY <1>2, <1>3

LEMMA TxRingStep ==
  ASSUME 0 \notin Needs, TxTypes, TxRing, [Next]_vars
  PROVE  TxRing'
  <1> USE HndDmaAssumption
  <1>1. CASE UNCHANGED txvars
    BY <1>1 DEF TxRing, txvars, ringtx
  <1>2. CASE dma_detach
    BY <1>2 DEF TxRing, dma_detach
  <1>3. CASE dma_txinit
    <2>1. txin = txout /\ txin' = 0 /\ txout' = 0 /\ xmtptr' = 0 /\ xmtcur' = 0 /\ txp' = txp
          /\ xmt' = "on"
      BY <1>3 DEF dma_txinit, TxRing
    <2>2. \A i \in TxSlot : txp[i] = NULL
      <3> SUFFICES ASSUME NEW i \in TxSlot, txp[i] # NULL PROVE FALSE
        OBVIOUS
      <3>1. TxDist(txin, i) < TxDist(txin, txout) /\ TxDist(txin, i) \in Nat /\ TxDist(txin, txout) = 0
        BY <2>1, TxMacros DEF TxRing, TxTypes
      <3> QED
        BY <3>1
    <2>3. TxDist(0, 0) <= TxDist(0, 0)
      BY DEF TxDist, RingDist
    <2> QED
      BY <2>1, <2>2, <2>3 DEF TxRing
  <1>4. CASE dma_txsuspend \/ dma_txresume \/ dma_txreset
    <2>1. /\ UNCHANGED <<txin, txout, txp>> /\ xmt \in {"on", "suspended"}
          /\ \/ xmt' \in {"on", "suspended"} /\ UNCHANGED <<xmtptr, xmtcur>>
             \/ xmt' = "reset" /\ xmtptr' = 0 /\ xmtcur' = 0
      BY <1>4 DEF dma_txsuspend, dma_txresume, dma_txreset, XmtDisabled, ringtx
    <2> QED
      BY <2>1 DEF TxRing
  <1>5. ASSUME NEW p \in Pkts, NEW c \in Chains, dma_txfast(p, c) \/ dma_tx(p, c)
        PROVE  TxRing'
    <2>1. xmt' = xmt /\ xmt \in {"on", "suspended"}
      BY <1>5, TxCallIs DEF TxCalled
    <2>2. CASE TxRefuse(c)
      BY <2>1, <2>2 DEF TxRefuse, TxRing
    <2>3. CASE TxPost(p, c) /\ (~NoRoom(c) \/ ~NoRoomFast(c))
      <3> DEFINE out == (txout + c.n) % NTxd
      <3>1. /\ c.n \in 1 .. TxFree
            /\ txout' = out /\ xmtptr' = out
            /\ txp' = [txp EXCEPT ![PREVTXD(out)] = p]
            /\ UNCHANGED <<txin, xmt, xmtcur>>
        BY <2>3, PostIs
      <3>2. /\ out \in TxSlot /\ PREVTXD(out) \in TxSlot
            /\ TxDist(txin, out) = TxDist(txin, txout) + c.n
            /\ TxDist(txin, PREVTXD(out)) = TxDist(txin, txout) + c.n - 1
        BY <3>1, PostedEnd
      <3>3. /\ TxDist(txin, txout) \in Nat /\ c.n \in Nat /\ c.n > 0
            /\ TxDist(txin, xmtcur) \in Nat
        BY <3>1, TxMacros DEF TxTypes
      <3> HIDE DEF out
      <3>4. ASSUME NEW i \in TxSlot, txp'[i] # NULL
            PROVE  TxDist(txin, i) < TxDist(txin, out)
        <4>1. CASE i = PREVTXD(out)
          BY <3>2, <3>3, <4>1
        <4>2. CASE i # PREVTXD(out)
          <5>1. txp[i] # NULL
            BY <3>1, <3>4, <4>2 DEF TxTypes
          <5>2. TxDist(txin, i) < TxDist(txin, txout) /\ TxDist(txin, i) \in Nat
            BY <5>1, TxMacros DEF TxRing, TxTypes
          <5> QED
            BY <3>2, <3>3, <5>2
        <4> QED
          BY <4>1, <4>2
      <3>5. TxDist(txin, xmtcur) <= TxDist(txin, out)
        BY <2>1, <3>2, <3>3 DEF TxRing
      <3> QED
        BY <2>1, <3>1, <3>4, <3>5 DEF TxRing
    <2> QED
      BY <1>5, <2>2, <2>3, TxCallIs
  <1>6. ASSUME NEW f \in BOOLEAN, dma_getnexttxp(f) \/ dma_txreclaim(f)
        PROVE  TxRing'
    <2>1. PICK end \in TxSlot :
            /\ ReclaimTo(end)
            /\ TxDist(txin, end) <= TxDist(txin, TxEnd(f))
            /\ xmt' = xmt \/ (f /\ xmt' = "down" /\ end = txout)
      BY <1>6, ReclaimIs
    <2>2. ReclaimCalled(f)
      BY <1>6, ReclaimIs
    <2>3. /\ TxDist(txin, TxEnd(f)) <= TxDist(txin, txout)
          /\ TxDist(txin, TxEnd(f)) \in Nat /\ TxDist(txin, end) \in Nat /\ TxDist(txin, txout) \in Nat
      BY <2>2, ReclaimEnd, TxMacros DEF TxTypes, TxEnd
    <2>4. TxDist(txin, end) <= TxDist(txin, txout)
      BY <2>1, <2>3
    <2>5. txin' = end /\ UNCHANGED <<txout, xmtptr, xmtcur>>
      BY <2>1 DEF ReclaimTo
    <2>6. ASSUME NEW i \in TxSlot, txp'[i] # NULL
          PROVE  TxDist(end, i) < TxDist(end, txout)
      <3>1. ~(TxDist(txin, i) < TxDist(txin, end)) /\ txp[i] # NULL
        BY <2>1, <2>4, <2>6, ReclaimedRing
      <3>2. TxDist(txin, i) \in Nat
        BY TxMacros DEF TxTypes
      <3>3. TxDist(txin, i) < TxDist(txin, txout)
        BY <3>1 DEF TxRing
      <3>4. /\ TxDist(end, i) = TxDist(txin, i) - TxDist(txin, end)
            /\ TxDist(end, txout) = TxDist(txin, txout) - TxDist(txin, end)
        BY <2>1, <2>3, <2>4, <3>1, <3>2, ReclaimedRing
      <3> QED
        BY <2>3, <3>2, <3>3, <3>4
    <2>7. CASE f
      <3>1. xmt = "reset" /\ (xmt' = "reset" \/ (xmt' = "down" /\ end = txout))
        BY <2>1, <2>2, <2>7 DEF ReclaimCalled
      <3> QED
        BY <2>5, <2>6, <3>1 DEF TxRing
    <2>8. CASE ~f
      <3>1. xmt' = xmt /\ xmt \in {"on", "suspended"} /\ TxEnd(f) = xmtcur
        BY <2>1, <2>2, <2>8 DEF ReclaimCalled, TxEnd
      <3>2. xmtptr = txout /\ TxDist(txin, xmtcur) <= TxDist(txin, txout)
        BY <3>1 DEF TxRing
      <3>3. /\ TxDist(end, xmtcur) = TxDist(txin, xmtcur) - TxDist(txin, end)
            /\ TxDist(end, txout) = TxDist(txin, txout) - TxDist(txin, end)
        <4>1. TxDist(txin, end) <= TxDist(txin, xmtcur) /\ xmtcur \in TxSlot
          BY <2>1, <3>1 DEF TxTypes
        <4> QED
          BY <2>1, <2>4, <4>1, ReclaimedRing
      <3>4. TxDist(txin, xmtcur) \in Nat
        BY <2>3, <3>1
      <3>5. TxDist(end, xmtcur) <= TxDist(end, txout)
        BY <2>3, <3>2, <3>3, <3>4
      <3> QED
        BY <2>5, <2>6, <3>1, <3>2, <3>5 DEF TxRing
    <2> QED
      BY <2>7, <2>8
  <1>7. CASE dma_txblock \/ dma_txunblock
    BY <1>7 DEF dma_txblock, dma_txunblock, TxRing
  <1>8. CASE HwTx
    <2>1. xmt = "on" /\ xmt' = "on" /\ xmtcur # xmtptr /\ xmtcur' = NEXTTXD(xmtcur)
          /\ UNCHANGED <<txin, txout, txp, xmtptr>>
      BY <1>8 DEF HwTx
    <2>2. xmtptr = txout /\ TxDist(txin, xmtcur) <= TxDist(txin, txout)
      BY <2>1 DEF TxRing
    <2>3. TxDist(txin, NEXTTXD(xmtcur)) <= TxDist(txin, txout)
      <3>1. NEXTTXD(xmtcur) = IF xmtcur + 1 = NTxd THEN 0 ELSE xmtcur + 1
        BY TxNext DEF TxTypes
      <3> QED
        BY <2>1, <2>2, <3>1 DEF TxTypes, TxSlot, TxDist, RingDist
    <2> QED
      BY <2>1, <2>2, <2>3 DEF TxRing
  <1> QED
    BY <1>1, <1>2, <1>3, <1>4, <1>5, <1>6, <1>7, <1>8, TxHalfSteps

-----------------------------------------------------------------------------
(***************************************************************************)
(* The receive ring.  A slot holds a buffer exactly between rxin and       *)
(* rxout; the chip is between them, and what its status shows is not ahead *)
(* of what it has written.  A disabled chip is at descriptor 0, where      *)
(* dma_rxinit starts again.                                                *)
(***************************************************************************)
RxRing ==
  /\ \A i \in RxSlot : rxp[i] # NULL <=> RxDist(rxin, i) < RxDist(rxin, rxout)
  /\ RxDist(rxin, rxout) <= NRxPost
  /\ rcv = "down" => rxin = rxout
  /\ rcv = "on" =>
       /\ rcvptr = rxout
       /\ RxDist(rxin, rcvstat) <= RxDist(rxin, rcvcur)
       /\ RxDist(rxin, rcvcur) <= RxDist(rxin, rxout)
  /\ rcv # "on" => rcvptr = 0 /\ rcvcur = 0 /\ rcvstat = 0 /\ rcvmore = 0

LEMMA RxFrom ==
  ASSUME NEW a \in RxSlot, NEW b \in RxSlot, NEW c \in RxSlot
  PROVE  RxDist(b, c) = IF RxDist(a, b) <= RxDist(a, c)
                        THEN RxDist(a, c) - RxDist(a, b)
                        ELSE RxDist(a, c) - RxDist(a, b) + NRxd
  BY HndDmaAssumption, RingDistFrom DEF RxSlot, RxDist

\* The slots dma_rxfill posts are the ones after rxout.
LEMMA FilledRange ==
  ASSUME RxTypes, NEW k \in Nat, RxDist(rxin, rxout) + k <= NRxPost
  PROVE  /\ (rxout + k) % NRxd \in RxSlot
         /\ RxDist(rxin, (rxout + k) % NRxd) = RxDist(rxin, rxout) + k
         /\ \A i \in RxSlot : (i - rxout) % NRxd < k
              <=> /\ RxDist(rxin, rxout) <= RxDist(rxin, i)
                  /\ RxDist(rxin, i) < RxDist(rxin, rxout) + k
  <1> DEFINE out == (rxout + k) % NRxd
  <1>1. /\ rxin \in RxSlot /\ rxout \in RxSlot /\ NRxd \in Nat /\ NRxPost \in 0 .. (NRxd - 1)
        /\ RxDist(rxin, rxout) \in 0 .. (NRxd - 1)
    BY RxMacros, HndDmaAssumption DEF RxTypes
  <1>2. k \in 0 .. (NRxd - 1)
    BY <1>1
  <1>3. out \in RxSlot /\ RxDist(rxout, out) = k
    BY <1>1, <1>2, RxStep
  <1> HIDE DEF out
  <1>4. RxDist(rxin, out) = RxDist(rxin, rxout) + k
    <2>1. k = IF RxDist(rxin, rxout) <= RxDist(rxin, out)
              THEN RxDist(rxin, out) - RxDist(rxin, rxout)
              ELSE RxDist(rxin, out) - RxDist(rxin, rxout) + NRxd
      BY <1>1, <1>3, RxFrom
    <2>2. RxDist(rxin, out) \in 0 .. (NRxd - 1)
      BY <1>1, <1>3, RxMacros
    <2> QED
      BY <1>1, <2>1, <2>2
  <1>5. ASSUME NEW i \in RxSlot
        PROVE  (i - rxout) % NRxd < k
                 <=> /\ RxDist(rxin, rxout) <= RxDist(rxin, i)
                     /\ RxDist(rxin, i) < RxDist(rxin, rxout) + k
    <2>1. (i - rxout) % NRxd = RxDist(rxout, i) /\ RxDist(rxin, i) \in 0 .. (NRxd - 1)
      BY <1>1, RxMacros
    <2>2. RxDist(rxout, i) = IF RxDist(rxin, rxout) <= RxDist(rxin, i)
                             THEN RxDist(rxin, i) - RxDist(rxin, rxout)
                             ELSE RxDist(rxin, i) - RxDist(rxin, rxout) + NRxd
      BY <1>1, RxFrom
    <2> QED
      BY <1>1, <1>2, <2>1, <2>2
  <1> QED
    BY <1>3, <1>4, <1>5 DEF out

\* What dma_rx leaves.
LEMMA TakenRange ==
  ASSUME RxTypes, NEW used \in Nat, used <= RxDist(rxin, rxout)
  PROVE  LET in == (rxin + used) % NRxd IN
         /\ in \in RxSlot
         /\ \A i \in RxSlot :
              /\ (i - rxin) % NRxd = RxDist(rxin, i)
              /\ used <= RxDist(rxin, i) => RxDist(in, i) = RxDist(rxin, i) - used
              /\ RxDist(rxin, i) < used => RxDist(in, i) = RxDist(rxin, i) - used + NRxd
  <1> DEFINE in == (rxin + used) % NRxd
  <1>1. /\ rxin \in RxSlot /\ rxout \in RxSlot /\ NRxd \in Nat
        /\ RxDist(rxin, rxout) \in 0 .. (NRxd - 1)
    BY RxMacros, HndDmaAssumption DEF RxTypes
  <1>2. used \in 0 .. (NRxd - 1)
    BY <1>1
  <1>3. in \in RxSlot /\ RxDist(rxin, in) = used
    BY <1>1, <1>2, RxStep
  <1> HIDE DEF in
  <1>4. ASSUME NEW i \in RxSlot
        PROVE  /\ (i - rxin) % NRxd = RxDist(rxin, i)
               /\ used <= RxDist(rxin, i) => RxDist(in, i) = RxDist(rxin, i) - used
               /\ RxDist(rxin, i) < used => RxDist(in, i) = RxDist(rxin, i) - used + NRxd
    <2>1. (i - rxin) % NRxd = RxDist(rxin, i) /\ RxDist(rxin, i) \in 0 .. (NRxd - 1)
      BY <1>1, RxMacros
    <2>2. RxDist(in, i) = IF used <= RxDist(rxin, i)
                          THEN RxDist(rxin, i) - used
                          ELSE RxDist(rxin, i) - used + NRxd
      BY <1>1, <1>3, RxFrom
    <2> QED
      BY <1>1, <1>2, <2>1, <2>2
  <1> QED
    BY <1>3, <1>4 DEF in

\* The buffers dma_rx may take back are posted.
LEMMA ReceivedPosted ==
  ASSUME RxTypes, RxRing, rcv = "on"
  PROVE  /\ Received \in Nat
         /\ Received <= RxDist(rxin, rcvstat) /\ Received <= RxDist(rxin, rxout)
  <1>1. RxDist(rxin, rcvstat) \in Nat /\ RxDist(rxin, rcvcur) \in Nat /\ RxDist(rxin, rxout) \in Nat
    BY RxMacros, HndDmaAssumption DEF RxTypes
  <1> QED
    BY <1>1, ReceivedIs, HndDmaAssumption DEF RxRing

LEMMA RxRingStep ==
  ASSUME TxTypes, RxTypes, RxRing, [Next]_vars
  PROVE  RxRing'
  <1> USE HndDmaAssumption, NullAssumption
  <1>0. /\ rxin \in RxSlot /\ rxout \in RxSlot /\ rcvcur \in RxSlot /\ rcvstat \in RxSlot
        /\ NRxd \in Nat /\ NRxPost \in 0 .. (NRxd - 1)
        /\ RxDist(rxin, rxout) \in 0 .. (NRxd - 1)
        /\ RxDist(rxin, rcvcur) \in 0 .. (NRxd - 1)
        /\ RxDist(rxin, rcvstat) \in 0 .. (NRxd - 1)
    BY RxMacros DEF RxTypes
  <1>1. CASE UNCHANGED rxvars
    BY <1>1 DEF RxRing, rxvars, ringrx
  <1>2. CASE dma_detach
    <2>1. /\ rxin' = 0 /\ rxout' = 0 /\ rxp' = [i \in RxSlot |-> NULL] /\ rcv = "down" /\ rcv' = "down"
          /\ UNCHANGED <<rcvptr, rcvcur, rcvstat, rcvmore>>
      BY <1>2 DEF dma_detach
    <2>2. RxDist(0, 0) <= NRxPost /\ \A i \in RxSlot : ~(RxDist(0, i) < RxDist(0, 0))
      BY DEF RxDist, RingDist, RxSlot
    <2> QED
      BY <2>1, <2>2 DEF RxRing
  <1>3. CASE dma_rxinit
    <2>1. rxin = rxout /\ rxin' = 0 /\ rxout' = 0 /\ rcvptr' = 0 /\ rcvcur' = 0 /\ rcvstat' = 0
          /\ rxp' = rxp /\ rcv' = "on"
      BY <1>3 DEF dma_rxinit, RxRing
    <2>2. \A i \in RxSlot : rxp[i] = NULL
      <3> SUFFICES ASSUME NEW i \in RxSlot, rxp[i] # NULL PROVE FALSE
        OBVIOUS
      <3>1. RxDist(rxin, i) < RxDist(rxin, rxout) /\ RxDist(rxin, i) \in Nat /\ RxDist(rxin, rxout) = 0
        BY <2>1, RxMacros DEF RxRing, RxTypes
      <3> QED
        BY <3>1
    <2>3. RxDist(0, 0) <= RxDist(0, 0) /\ RxDist(0, 0) <= NRxPost
      BY DEF RxDist, RingDist
    <2>4. \A i \in RxSlot : ~(RxDist(0, i) < RxDist(0, 0))
      BY DEF RxDist, RingDist, RxSlot
    <2> QED
      BY <2>1, <2>2, <2>3, <2>4 DEF RxRing
  <1>4. CASE dma_rxreset
    BY <1>4 DEF dma_rxreset, RcvDisabled, ringrx, RxRing
  <1>5. ASSUME NEW k \in 0 .. NRxPost, dma_rxfill(k)
        PROVE  RxRing'
    <2> DEFINE out == (rxout + k) % NRxd
    <2>1. /\ rxp' = [i \in RxSlot |-> IF (i - rxout) % NRxd < k THEN Cleared ELSE rxp[i]]
          /\ rxout' = out /\ rcvptr' = out /\ rcv = "on" /\ k \in 0 .. Missing
          /\ UNCHANGED <<rxin, rcv, rcvcur, rcvstat>>
      BY <1>5 DEF dma_rxfill
    <2>2. k \in Nat /\ RxDist(rxin, rxout) + k <= NRxPost
      BY <1>0, <2>1, RxMacros DEF Missing
    <2>3. /\ out \in RxSlot /\ RxDist(rxin, out) = RxDist(rxin, rxout) + k
          /\ \A i \in RxSlot : (i - rxout) % NRxd < k
              <=> /\ RxDist(rxin, rxout) <= RxDist(rxin, i)
                  /\ RxDist(rxin, i) < RxDist(rxin, rxout) + k
      BY <2>2, FilledRange
    <2> HIDE DEF out
    <2>4. Cleared # NULL
      <3>1. Cleared \in Buffers
        BY DEF Cleared, Buffers
      <3> QED
        BY <3>1
    <2>5. ASSUME NEW i \in RxSlot
          PROVE  rxp'[i] # NULL <=> RxDist(rxin, i) < RxDist(rxin, out)
      <3>1. RxDist(rxin, i) \in Nat
        BY <1>0, RxMacros
      <3>2. rxp[i] # NULL <=> RxDist(rxin, i) < RxDist(rxin, rxout)
        BY DEF RxRing
      <3>3. rxp'[i] = IF (i - rxout) % NRxd < k THEN Cleared ELSE rxp[i]
        BY <2>1
      <3> QED
        BY <1>0, <2>2, <2>3, <2>4, <3>1, <3>2, <3>3
    <2>6. /\ RxDist(rxin, rcvstat) <= RxDist(rxin, rcvcur)
          /\ RxDist(rxin, rcvcur) <= RxDist(rxin, out)
          /\ RxDist(rxin, out) <= NRxPost
      BY <1>0, <2>1, <2>2, <2>3 DEF RxRing
    <2> QED
      BY <2>1, <2>5, <2>6 DEF RxRing
  <1>6. CASE dma_rx
    <2>1. PICK used \in 0 .. Received :
            /\ rxp' = [i \in RxSlot |-> IF (i - rxin) % NRxd < used THEN NULL ELSE rxp[i]]
            /\ rxin' = (rxin + used) % NRxd
            /\ UNCHANGED <<chan, rxout, rcv, rcvptr, rcvcur, rcvstat, rcvmore, txvars>>
      BY <1>6, DmaRxIs, ZenonT(60)
    <2>2. rcv = "on"
      BY <1>6 DEF dma_rx
    <2>3. used \in Nat /\ used <= RxDist(rxin, rxout) /\ used <= RxDist(rxin, rcvstat)
      BY <1>0, <2>2, ReceivedPosted
    <2> DEFINE in == (rxin + used) % NRxd
    <2>4. /\ in \in RxSlot
          /\ \A i \in RxSlot :
               /\ (i - rxin) % NRxd = RxDist(rxin, i)
               /\ used <= RxDist(rxin, i) => RxDist(in, i) = RxDist(rxin, i) - used
               /\ RxDist(rxin, i) < used => RxDist(in, i) = RxDist(rxin, i) - used + NRxd
      BY <2>3, TakenRange
    <2>5. rxin' = in
      BY <2>1
    <2> HIDE DEF in
    <2>6. /\ RxDist(rxin, rcvstat) <= RxDist(rxin, rcvcur)
          /\ RxDist(rxin, rcvcur) <= RxDist(rxin, rxout)
          /\ RxDist(rxin, rxout) <= NRxPost /\ rcvptr = rxout
      BY <2>2 DEF RxRing
    <2>7. /\ RxDist(in, rxout) = RxDist(rxin, rxout) - used
          /\ RxDist(in, rcvcur) = RxDist(rxin, rcvcur) - used
          /\ RxDist(in, rcvstat) = RxDist(rxin, rcvstat) - used
      BY <1>0, <2>3, <2>4, <2>6
    <2>8. ASSUME NEW i \in RxSlot
          PROVE  rxp'[i] # NULL <=> RxDist(in, i) < RxDist(in, rxout)
      <3>1. RxDist(rxin, i) \in Nat
        BY <1>0, RxMacros
      <3>2. rxp[i] # NULL <=> RxDist(rxin, i) < RxDist(rxin, rxout)
        BY DEF RxRing
      <3>3. rxp'[i] = IF RxDist(rxin, i) < used THEN NULL ELSE rxp[i]
        BY <2>1, <2>4
      <3>4. CASE RxDist(rxin, i) < used
        <4>1. RxDist(in, i) = RxDist(rxin, i) - used + NRxd
          BY <2>4, <3>4
        <4> QED
          BY <1>0, <2>3, <2>7, <3>1, <3>3, <3>4, <4>1
      <3>5. CASE ~(RxDist(rxin, i) < used)
        <4>1. RxDist(in, i) = RxDist(rxin, i) - used
          BY <2>3, <2>4, <3>1, <3>5
        <4> QED
          BY <1>0, <2>3, <2>7, <3>1, <3>2, <3>3, <3>5, <4>1
      <3> QED
        BY <3>4, <3>5
    <2>9. /\ RxDist(in, rcvstat) <= RxDist(in, rcvcur)
          /\ RxDist(in, rcvcur) <= RxDist(in, rxout)
          /\ RxDist(in, rxout) <= NRxPost
      BY <1>0, <2>3, <2>6, <2>7
    <2> QED
      BY <2>1, <2>2, <2>5, <2>6, <2>8, <2>9 DEF RxRing
  <1>7. CASE dma_rxreclaim
    <2>1. /\ rxp' = [i \in RxSlot |-> IF (i - rxin) % NRxd < NRXDACTIVE(rxin, rxout)
                                      THEN NULL ELSE rxp[i]]
          /\ rxin' = rxout /\ rxout' = rxout /\ rcv = "reset" /\ rcv' = "down"
          /\ UNCHANGED <<rcvptr, rcvcur, rcvstat, rcvmore>>
      BY <1>7 DEF dma_rxreclaim
    <2>2. RxDist(rxout, rxout) = 0
      BY <1>0, RxMacros
    <2>3. ASSUME NEW i \in RxSlot
          PROVE  rxp'[i] = NULL /\ ~(RxDist(rxout, i) < RxDist(rxout, rxout))
      <3>1. (i - rxin) % NRxd = RxDist(rxin, i) /\ NRXDACTIVE(rxin, rxout) = RxDist(rxin, rxout)
            /\ RxDist(rxout, i) \in Nat
        BY <1>0, RxMacros
      <3> QED
        BY <2>1, <2>2, <3>1 DEF RxRing
    <2> QED
      BY <2>1, <2>2, <2>3 DEF RxRing
  <1>8. ASSUME NEW len \in FrameLens, HwRx(len)
        PROVE  RxRing'
    <2>1. /\ rxp' = [rxp EXCEPT ![rcvcur] = [start |-> rcvmore = 0, len |-> len]]
          /\ rcvcur' = NEXTRXD(rcvcur) /\ rcv = "on" /\ rcvcur # rcvptr
          /\ rcvstat' = NEXTRXD(rcvcur) \/ rcvstat' = rcvstat
          /\ UNCHANGED <<rxin, rxout, rcv, rcvptr>>
      BY <1>8 DEF HwRx
    <2>2. rcvptr = rxout /\ RxDist(rxin, rcvstat) <= RxDist(rxin, rcvcur)
          /\ RxDist(rxin, rcvcur) <= RxDist(rxin, rxout)
      BY <2>1 DEF RxRing
    <2>3. /\ RxDist(rxin, rcvcur) < RxDist(rxin, rxout)
          /\ RxDist(rxin, NEXTRXD(rcvcur)) = RxDist(rxin, rcvcur) + 1
      <3>1. NEXTRXD(rcvcur) = IF rcvcur + 1 = NRxd THEN 0 ELSE rcvcur + 1
        BY <1>0, RxNext
      <3> QED
        BY <1>0, <2>1, <2>2, <3>1 DEF RxSlot, RxDist, RingDist
    <2>4. [start |-> rcvmore = 0, len |-> len] # NULL
      <3>1. [start |-> rcvmore = 0, len |-> len] \in Buffers
        BY DEF Buffers
      <3> QED
        BY <3>1
    <2>5. ASSUME NEW i \in RxSlot
          PROVE  rxp'[i] # NULL <=> RxDist(rxin, i) < RxDist(rxin, rxout)
      <3>1. CASE i = rcvcur
        BY <1>0, <2>1, <2>3, <2>4, <3>1 DEF RxTypes
      <3>2. CASE i # rcvcur
        BY <1>0, <2>1, <3>2 DEF RxTypes, RxRing
      <3> QED
        BY <3>1, <3>2
    <2>6. /\ RxDist(rxin, rcvstat') <= RxDist(rxin, NEXTRXD(rcvcur))
          /\ RxDist(rxin, NEXTRXD(rcvcur)) <= RxDist(rxin, rxout)
      <3>1. RxDist(rxin, NEXTRXD(rcvcur)) <= RxDist(rxin, rxout)
        BY <1>0, <2>3
      <3>2. CASE rcvstat' = NEXTRXD(rcvcur)
        BY <1>0, <2>3, <3>1, <3>2
      <3>3. CASE rcvstat' = rcvstat
        BY <1>0, <2>2, <2>3, <3>1, <3>3
      <3> QED
        BY <2>1, <3>2, <3>3
    <2> QED
      BY <2>1, <2>2, <2>5, <2>6 DEF RxRing
  <1> QED
    BY <1>1, <1>2, <1>3, <1>4, <1>5, <1>6, <1>7, <1>8, RxHalfSteps

-----------------------------------------------------------------------------
(***************************************************************************)
(* The two rings together, and the ASSERTs.                                *)
(***************************************************************************)
LEMMA RingsInit ==
  ASSUME Init
  PROVE  TxRing /\ RxRing
  <1>1. TxRing
    BY DEF Init, TxRing
  <1>2. RxDist(0, 0) <= NRxPost /\ \A i \in RxSlot : ~(RxDist(0, i) < RxDist(0, 0))
    BY HndDmaAssumption DEF RxDist, RingDist, RxSlot
  <1>3. RxRing
    BY <1>2 DEF Init, RxRing
  <1> QED
    BY <1>1, <1>3

LEMMA AssertsHold ==
  ASSUME 0 \notin Needs, HndTypes, TxRing, RxRing, HndNoAssert, [Next]_vars
  PROVE  HndNoAssert'
  <1> USE HndDmaAssumption DEF HndTypes
  <1>1. CASE assert_failed' = assert_failed
    BY <1>1 DEF HndNoAssert
  <1>2. CASE dma_detach
    <2>1. txin = txout /\ rxin = rxout
      BY <1>2 DEF dma_detach, TxRing, RxRing
    <2> QED
      BY <1>2, <2>1 DEF dma_detach, HndNoAssert
  <1>3. CASE dma_rx
    <2>1. PICK used \in 0 .. Received :
            assert_failed' = (assert_failed \/
                                \E d \in 0 .. (used - 1) : rxp[(rxin + d) % NRxd] = NULL)
      BY <1>3, DmaRxIs
    <2>2. rcv = "on"
      BY <1>3 DEF dma_rx
    <2>3. RxDist(rxin, rxout) \in 0 .. (NRxd - 1) /\ used \in Nat /\ used <= RxDist(rxin, rxout)
      BY <2>2, ReceivedPosted, RxMacros DEF RxTypes
    <2>4. ASSUME NEW d \in 0 .. (used - 1)
          PROVE  rxp[(rxin + d) % NRxd] # NULL
      <3>1. d \in 0 .. (NRxd - 1) /\ d < RxDist(rxin, rxout)
        BY <2>3
      <3>2. (rxin + d) % NRxd \in RxSlot /\ RxDist(rxin, (rxin + d) % NRxd) = d
        BY <3>1, RxStep DEF RxTypes
      <3> QED
        BY <3>1, <3>2 DEF RxRing
    <2> QED
      BY <2>1, <2>4 DEF HndNoAssert
  <1>4. CASE dma_rxreclaim
    <2>1. assert_failed' = (assert_failed \/
             \E i \in RxSlot : (i - rxin) % NRxd < NRXDACTIVE(rxin, rxout) /\ rxp[i] = NULL)
      BY <1>4 DEF dma_rxreclaim
    <2>2. ASSUME NEW i \in RxSlot, (i - rxin) % NRxd < NRXDACTIVE(rxin, rxout)
          PROVE  rxp[i] # NULL
      BY <2>2, RxMacros DEF RxTypes, RxRing
    <2> QED
      BY <2>1, <2>2 DEF HndNoAssert
  <1>5. ASSUME NEW p \in Pkts, NEW c \in Chains, dma_txfast(p, c) \/ dma_tx(p, c)
        PROVE  HndNoAssert'
    <2>1. TxFree \in Nat
      BY TxFreeIs
    <2>2. PICK k \in 0 .. TxFree : AssertFree(k)
      <3>1. CASE TxRefuse(c)
        BY <2>1, <3>1 DEF TxRefuse
      <3>2. CASE TxPost(p, c) /\ (~NoRoom(c) \/ ~NoRoomFast(c))
        <4>1. AssertFree(c.n) /\ c.n \in 1 .. TxFree
          BY <3>2, PostIs
        <4>2. c.n \in 0 .. TxFree
          BY <2>1, <4>1
        <4> QED
          BY <4>1, <4>2
      <3> QED
        BY <1>5, <3>1, <3>2, TxCallIs
    <2>3. assert_failed' = (assert_failed \/
                    \E i \in TxSlot : (i - txout) % NTxd < k /\ txp[i] # NULL)
      BY <2>2 DEF AssertFree
    <2> QED
      BY <2>3, WrittenFree DEF HndNoAssert
  <1>6. ASSUME NEW k \in 0 .. NRxPost, dma_rxfill(k)
        PROVE  HndNoAssert'
    <2>1. k \in 0 .. Missing /\ assert_failed' = (assert_failed \/
             \E i \in RxSlot : (i - rxout) % NRxd < k /\ rxp[i] # NULL)
      BY <1>6 DEF dma_rxfill
    <2>2. RxDist(rxin, rxout) \in 0 .. (NRxd - 1) /\ NRXDACTIVE(rxin, rxout) = RxDist(rxin, rxout)
      BY RxMacros DEF RxTypes
    <2>3. k \in Nat /\ RxDist(rxin, rxout) + k <= NRxPost
      BY <2>1, <2>2 DEF Missing
    <2>4. ASSUME NEW i \in RxSlot, (i - rxout) % NRxd < k
          PROVE  rxp[i] = NULL
      <3>1. RxDist(rxin, rxout) <= RxDist(rxin, i)
        BY <2>3, <2>4, FilledRange
      <3>2. RxDist(rxin, i) \in Nat
        BY RxMacros DEF RxTypes
      <3>3. ~(RxDist(rxin, i) < RxDist(rxin, rxout))
        BY <2>2, <3>1, <3>2
      <3> QED
        BY <3>3 DEF RxRing
    <2> QED
      BY <2>1, <2>4 DEF HndNoAssert
  <1> QED
    BY <1>1, <1>2, <1>3, <1>4, <1>5, <1>6, AssertSteps

\* No ASSERT of the library is ever false, whatever the sizes of the rings and
\* the lengths of chains and frames, as long as no chain is made of empty
\* buffers only: a descriptor is written only where no packet is left, a buffer
\* posted only where none is, every received descriptor has its buffer, and
\* dma_detach finds both rings empty.
THEOREM HndAssertsHold ==
  ASSUME 0 \notin Needs
  PROVE  Spec => []HndNoAssert
  <1> DEFINE Inv == HndTypes /\ TxRing /\ RxRing /\ HndNoAssert
  <1>1. Init => Inv
    BY HndTypesInit, RingsInit DEF Init, HndNoAssert
  <1>2. Inv /\ [Next]_vars => Inv'
    BY HndTypesStep, TxRingStep, RxRingStep, AssertsHold DEF HndTypes
  <1> QED
    BY <1>1, <1>2, PTL DEF Spec

\* The chip writes a received frame only into a buffer that dma_rxfill posted
\* and that dma_rx has not given back, for every ring size and whether rcvstatus
\* moves on by frames or by descriptors.
THEOREM HndWritesPosted == Spec => []RcvWritesPosted
  <1> DEFINE Inv == HndTypes /\ RxRing
  <1>1. Init => Inv
    BY HndTypesInit, RingsInit
  <1>2. Inv /\ [Next]_vars => Inv'
    BY HndTypesStep, RxRingStep DEF HndTypes
  <1>3. Inv => RcvWritesPosted
    <2> SUFFICES ASSUME Inv, rcv = "on", rcvcur # rcvptr PROVE rxp[rcvcur] # NULL
      BY DEF RcvWritesPosted
    <2>1. rcvptr = rxout /\ RxDist(rxin, rcvcur) <= RxDist(rxin, rxout)
      BY DEF RxRing
    <2>2. RxDist(rxin, rcvcur) < RxDist(rxin, rxout)
      BY <2>1, HndDmaAssumption DEF HndTypes, RxTypes, RxSlot, RxDist, RingDist
    <2> QED
      BY <2>2 DEF RxRing, HndTypes, RxTypes
  <1> QED
    BY <1>1, <1>2, <1>3, PTL DEF Spec

-----------------------------------------------------------------------------
(***************************************************************************)
(* txavail.                                                                *)
(***************************************************************************)
AvailKept == txavail <= TxFree

LEMMA AvailStep ==
  ASSUME TxTypes, AvailKept, [Next]_vars
  PROVE  AvailKept'
  <1> USE HndDmaAssumption
  <1>0. TxTypes' /\ TxFree' \in 0 .. (NTxd - 1)
        /\ TxFree' = NTxd - TxDist(txin', txout') - 1
    <2>1. TxTypes'
      BY TxTypesStep
    <2>2. TxDist(txin', txout') \in 0 .. (NTxd - 1)
          /\ NTXDACTIVE(txin', txout') = TxDist(txin', txout')
      BY <2>1, TxMacros DEF TxTypes
    <2> QED
      BY <2>1, <2>2 DEF TxFree
  <1>1. CASE UNCHANGED txvars
    BY <1>1 DEF AvailKept, TxFree, txvars, ringtx
  <1>2. CASE dma_detach
    BY <1>0, <1>2 DEF AvailKept, dma_detach
  <1>3. CASE dma_txinit
    BY <1>0, <1>3 DEF AvailKept, dma_txinit, TxDist, RingDist
  <1>4. CASE dma_txsuspend \/ dma_txresume \/ dma_txreset \/ HwTx
    BY <1>4 DEF AvailKept, TxFree, dma_txsuspend, dma_txresume, dma_txreset, XmtDisabled, HwTx, ringtx
  <1>5. ASSUME NEW p \in Pkts, NEW c \in Chains, dma_txfast(p, c) \/ dma_tx(p, c)
        PROVE  AvailKept'
    <2>1. txavail' = 0 \/ txavail' = NTxd - NTXDACTIVE(txin', txout') - 1
      BY <1>5, TxCallIs DEF TxRefuse, TxPost
    <2>2. NTXDACTIVE(txin', txout') = TxDist(txin', txout')
      BY <1>0, TxMacros DEF TxTypes
    <2> QED
      BY <1>0, <2>1, <2>2 DEF AvailKept
  <1>6. ASSUME NEW f \in BOOLEAN, dma_getnexttxp(f) \/ dma_txreclaim(f)
        PROVE  AvailKept'
    <2>1. txavail' = NTxd - NTXDACTIVE(txin', txout') - 1
      BY <1>6, ReclaimIs DEF ReclaimTo
    <2>2. NTXDACTIVE(txin', txout') = TxDist(txin', txout')
      BY <1>0, TxMacros DEF TxTypes
    <2> QED
      BY <1>0, <2>1, <2>2 DEF AvailKept
  <1>7. CASE dma_txblock
    BY <1>0, <1>7 DEF AvailKept, dma_txblock
  <1>8. CASE dma_txunblock
    BY <1>0, <1>8 DEF AvailKept, dma_txunblock, TxFree
  <1> QED
    BY <1>1, <1>2, <1>3, <1>4, <1>5, <1>6, <1>7, <1>8, TxHalfSteps

\* txavail, which the callers read instead of asking, never promises a
\* descriptor that is not there: a packet that needs no more than txavail is
\* never refused by dma_tx or dma_txfast, after any sequence of refused chains,
\* reclaims, txblock and txunblock, and for every ring and chain.
THEOREM HndAvailHonest == Spec => TxAvailHonest
  <1>1. Init => AvailKept
    <2> SUFFICES ASSUME Init PROVE AvailKept
      OBVIOUS
    <2>1. TxFree \in 0 .. (NTxd - 1)
      BY HndTypesInit, TxFreeIs DEF HndTypes
    <2> QED
      BY <2>1, HndDmaAssumption DEF Init, AvailKept
  <1> DEFINE Honest == \A p \in Pkts, c \in Chains :
       /\ c.n + (IF "tail" \in c.empty THEN 1 ELSE 0) <= txavail
       /\ dma_txfast(p, c) \/ dma_tx(p, c)
       => \E i \in TxSlot : txp'[i] = p
  <1>2. HndTypes /\ AvailKept => Honest
    <2> SUFFICES ASSUME HndTypes, AvailKept, NEW p \in Pkts, NEW c \in Chains,
                        c.n + (IF "tail" \in c.empty THEN 1 ELSE 0) <= txavail,
                        dma_txfast(p, c) \/ dma_tx(p, c)
                 PROVE  \E i \in TxSlot : txp'[i] = p
      OBVIOUS
    <2>1. TxTypes /\ c.n \in Nat /\ txavail \in Nat /\ TxFree \in Nat /\ txavail <= TxFree
      <3>1. TxTypes /\ txavail \in Nat
        BY HndDmaAssumption DEF HndTypes, TxTypes
      <3>2. TxFree \in Nat
        BY <3>1, TxFreeIs, HndDmaAssumption
      <3>3. c.n \in Nat
        BY HndDmaAssumption DEF Chains
      <3> QED
        BY <3>1, <3>2, <3>3 DEF AvailKept
    <2>2. ~NoRoom(c) /\ ~NoRoomFast(c)
      BY <2>1 DEF NoRoom, NoRoomFast
    <2>3. TxPost(p, c)
      BY <2>2 DEF dma_tx, dma_txfast
    <2> DEFINE last == PREVTXD((txout + c.n) % NTxd)
    <2>4. last \in TxSlot
      BY <2>1, <2>2, ChainRoom, TxNext
    <2>5. txp' = [txp EXCEPT ![last] = p]
      BY <2>3 DEF TxPost
    <2> HIDE DEF last
    <2>6. txp'[last] = p
      BY <2>1, <2>4, <2>5 DEF TxTypes
    <2> QED
      BY <2>4, <2>6
  <1>3. HndTypes /\ AvailKept /\ [Next]_vars => [Honest]_vars
    BY <1>2
  <1>4. HndTypes /\ AvailKept /\ [Next]_vars => (HndTypes /\ AvailKept)'
    BY HndTypesStep, AvailStep DEF HndTypes
  <1> QED
    BY <1>1, <1>3, <1>4, HndTypesInit, PTL DEF Spec, TxAvailHonest

-----------------------------------------------------------------------------
(***************************************************************************)
(* The frames the chip finds.  Slot by slot, which is the form that every  *)
(* step keeps: a descriptor of the ring is live, has EOF exactly if it has *)
(* a packet, has SOF exactly if the one before it has EOF, and EOF if it   *)
(* is the last.  A chain whose first buffer is empty would have no SOF, so *)
(* the callers are assumed to send none.                                   *)
(***************************************************************************)
Frames ==
  xmt \in {"on", "suspended"} =>
    \A i \in TxSlot : TxDist(txin, i) < TxDist(txin, txout) =>
      /\ txd[i] # NULL
      /\ txd[i].eof <=> txp[i] # NULL
      /\ i # txin => (txd[i].sof <=> txd[PREVTXD(i)].eof)
      /\ NEXTTXD(i) = txout => txd[i].eof

\* The descriptor before one in the ring.
LEMMA TxBefore ==
  ASSUME NEW a \in TxSlot, NEW i \in TxSlot, a # i
  PROVE  PREVTXD(i) \in TxSlot /\ TxDist(a, PREVTXD(i)) = TxDist(a, i) - 1
         /\ NEXTTXD(PREVTXD(i)) = i
  <1>1. NTxd \in Nat /\ NTxd > 1 /\ a \in Nat /\ a < NTxd /\ i \in Nat /\ i < NTxd
    BY HndDmaAssumption DEF TxSlot
  <1> DEFINE b == PREVTXD(i)
  <1>2. b \in TxSlot /\ b = IF i = 0 THEN NTxd - 1 ELSE i - 1
    BY TxNext
  <1> HIDE DEF b
  <1>3. NEXTTXD(b) = IF b + 1 = NTxd THEN 0 ELSE b + 1
    BY <1>2, TxNext
  <1>4. NEXTTXD(b) = i
    BY <1>1, <1>2, <1>3
  <1>5. TxDist(a, b) = TxDist(a, i) - 1
    BY <1>1, <1>2 DEF TxDist, RingDist
  <1> QED
    BY <1>2, <1>4, <1>5 DEF b

LEMMA TxAfter ==
  ASSUME NEW a \in TxSlot, NEW i \in TxSlot, NEXTTXD(i) # a
  PROVE  NEXTTXD(i) \in TxSlot /\ TxDist(a, NEXTTXD(i)) = TxDist(a, i) + 1
  <1>1. NTxd \in Nat /\ NTxd > 1 /\ a \in Nat /\ a < NTxd /\ i \in Nat /\ i < NTxd
    BY HndDmaAssumption DEF TxSlot
  <1>2. NEXTTXD(i) \in TxSlot /\ NEXTTXD(i) = IF i + 1 = NTxd THEN 0 ELSE i + 1
    BY TxNext
  <1> QED
    BY <1>1, <1>2 DEF TxDist, RingDist

\* The walk over a chain writes past txout only, whether the chain is taken...
LEMMA FilledAt ==
  ASSUME TxTypes, NEW c \in Chains, c.n <= TxFree, NEW i \in TxSlot
  PROVE  /\ TxDist(txin, i) < TxDist(txin, txout) => Filled(c, c.n, TRUE)[i] = txd[i]
         /\ TxDist(txout, i) < c.n
              => Filled(c, c.n, TRUE)[i] = [sof |-> i = txout /\ "head" \notin c.empty,
                                            eof |-> TxDist(txout, i) = c.n - 1]
  <1>1. /\ (i - txout) % NTxd = TxDist(txout, i) /\ TxDist(txout, i) \in Nat
        /\ (TxDist(txout, i) = 0 <=> txout = i)
        /\ TxDist(txin, i) \in Nat /\ TxDist(txin, txout) \in Nat
    BY TxMacros, HndDmaAssumption DEF TxTypes
  <1>2. TxFree \in Nat /\ c.n \in Nat
    <2>1. TxFree \in Nat
      BY TxFreeIs, HndDmaAssumption
    <2>2. c.n \in Nat
      BY HndDmaAssumption DEF Chains
    <2> QED
      BY <2>1, <2>2
  <1>3. TxDist(txin, i) < TxDist(txin, txout) => ~(TxDist(txout, i) < c.n)
    BY <1>1, <1>2, TxPast
  <1>4. Filled(c, c.n, TRUE)[i] =
          IF TxDist(txout, i) < c.n
          THEN [sof |-> TxDist(txout, i) = 0 /\ "head" \notin c.empty,
                eof |-> TxDist(txout, i) = c.n - 1]
          ELSE txd[i]
    BY <1>1 DEF Filled
  <1> QED
    BY <1>1, <1>3, <1>4

\* ... or refused halfway.
LEMMA FilledHalf ==
  ASSUME TxTypes, NEW c \in Chains, NEW i \in TxSlot, TxDist(txin, i) < TxDist(txin, txout)
  PROVE  Filled(c, TxFree, FALSE)[i] = txd[i]
  <1>1. /\ (i - txout) % NTxd = TxDist(txout, i) /\ TxDist(txout, i) \in Nat
        /\ TxDist(txin, i) \in Nat /\ TxDist(txin, txout) \in Nat /\ TxFree \in Nat
    BY TxMacros, TxFreeIs, HndDmaAssumption DEF TxTypes
  <1>2. ~(TxDist(txout, i) < TxFree)
    BY <1>1, TxPast
  <1> QED
    BY <1>1, <1>2 DEF Filled

LEMMA FramesPost ==
  ASSUME 0 \notin Needs, "head" \notin Holes, TxTypes, TxRing, Frames,
         NEW p \in Pkts, NEW c \in Chains,
         TxCalled(p), TxPost(p, c), ~NoRoom(c) \/ ~NoRoomFast(c)
  PROVE  Frames'
  <1> USE HndDmaAssumption
  <1> DEFINE out == (txout + c.n) % NTxd
             last == PREVTXD(out)
  <1>1. /\ c.n \in 1 .. TxFree
        /\ txout' = out
        /\ txp' = [txp EXCEPT ![last] = p]
        /\ txd' = Filled(c, c.n, TRUE)
        /\ UNCHANGED <<txin, xmt, xmtcur>>
    BY PostIs
  <1>2. /\ out \in TxSlot /\ last \in TxSlot
        /\ TxDist(txin, out) = TxDist(txin, txout) + c.n
        /\ TxDist(txout, last) = c.n - 1
        /\ TxDist(txin, last) = TxDist(txin, txout) + c.n - 1
    BY <1>1, PostedEnd
  <1>3. NEXTTXD(last) = out
    <2>1. txout # out
      BY <1>1, <1>2, TxMacros DEF TxTypes
    <2> QED
      BY <1>2, <2>1, TxBefore DEF TxTypes
  <1> HIDE DEF out, last
  <1>4. /\ txin \in TxSlot /\ txout \in TxSlot /\ c.n \in Nat /\ c.n > 0
        /\ TxFree = NTxd - TxDist(txin, txout) - 1
        /\ TxFree \in Nat /\ TxDist(txin, txout) \in 0 .. (NTxd - 1)
        /\ c.n \in 0 .. TxFree /\ c.n <= TxFree /\ NTxd \in Nat
    BY <1>1, TxFreeIs, TxMacros DEF TxTypes
  <1>5. "head" \notin c.empty
    BY DEF Chains
  <1>6. xmt \in {"on", "suspended"} /\ NULL # p
    BY DEF TxCalled
  <1>7. ASSUME NEW i \in TxSlot, TxDist(txin, i) < TxDist(txin, txout)
        PROVE  /\ txd'[i] = txd[i] /\ txp'[i] = txp[i]
               /\ txd[i] # NULL
               /\ txd[i].eof <=> txp[i] # NULL
               /\ i # txin => (txd[i].sof <=> txd[PREVTXD(i)].eof)
               /\ NEXTTXD(i) = txout => txd[i].eof
    <2>1. txd'[i] = txd[i]
      <3>1. Filled(c, c.n, TRUE)[i] = txd[i]
        BY <1>4, <1>7, FilledAt, ZenonT(60)
      <3> QED
        BY <1>1, <3>1
    <2>2. i # last
      BY <1>2, <1>4, <1>7
    <2>3. txp'[i] = txp[i]
      BY <1>1, <2>2 DEF TxTypes
    <2> QED
      BY <1>6, <1>7, <2>1, <2>3 DEF Frames
  <1>8. ASSUME NEW i \in TxSlot, TxDist(txout, i) < c.n
        PROVE  /\ txd'[i] = [sof |-> i = txout, eof |-> i = last]
               /\ txp'[i] # NULL <=> i = last
    <2>1. txd'[i] = [sof |-> i = txout /\ "head" \notin c.empty,
                     eof |-> TxDist(txout, i) = c.n - 1]
      <3>1. Filled(c, c.n, TRUE)[i] = [sof |-> i = txout /\ "head" \notin c.empty,
                                      eof |-> TxDist(txout, i) = c.n - 1]
        BY <1>4, <1>8, FilledAt, ZenonT(60)
      <3> QED
        BY <1>1, <3>1
    <2>2. TxDist(txout, i) = TxDist(txout, last) <=> i = last
      BY <1>2, <1>4 DEF TxSlot, TxDist, RingDist
    <2>3. txp[i] = NULL
      <3>1. TxDist(txin, i) \in Nat /\ TxDist(txout, i) \in Nat
        BY <1>4, TxMacros
      <3>2. ~(TxDist(txin, i) < TxDist(txin, txout))
        BY <1>4, <1>8, <3>1, TxPast
      <3> QED
        BY <3>2 DEF TxRing
    <2>4. txp'[i] = IF i = last THEN p ELSE txp[i]
      BY <1>1, <1>2 DEF TxTypes
    <2> QED
      BY <1>2, <1>5, <1>6, <2>1, <2>2, <2>3, <2>4
  <1>9. ASSUME NEW i \in TxSlot, TxDist(txin, i) < TxDist(txin, out)
        PROVE  /\ txd'[i] # NULL
               /\ txd'[i].eof <=> txp'[i] # NULL
               /\ i # txin => (txd'[i].sof <=> txd'[PREVTXD(i)].eof)
               /\ NEXTTXD(i) = out => txd'[i].eof
    <2>0. TxDist(txin, i) \in Nat /\ TxDist(txout, i) \in Nat
      BY <1>4, TxMacros
    <2>1. CASE TxDist(txin, i) < TxDist(txin, txout)
      <3>1. i # txin => txd'[PREVTXD(i)] = txd[PREVTXD(i)]
        <4> SUFFICES ASSUME i # txin PROVE txd'[PREVTXD(i)] = txd[PREVTXD(i)]
          OBVIOUS
        <4>1. PREVTXD(i) \in TxSlot /\ TxDist(txin, PREVTXD(i)) < TxDist(txin, txout)
          BY <1>4, <2>0, <2>1, TxBefore
        <4> QED
          BY <4>1, <1>7
      <3>2. NEXTTXD(i) # out
        <4>1. CASE NEXTTXD(i) = txin
          BY <1>2, <1>4, <4>1, TxMacros
        <4>2. CASE NEXTTXD(i) # txin
          BY <1>2, <1>4, <2>0, <2>1, <4>2, TxAfter
        <4> QED
          BY <4>1, <4>2
      <3> QED
        BY <1>7, <2>1, <3>1, <3>2
    <2>2. CASE ~(TxDist(txin, i) < TxDist(txin, txout))
      <3>1. TxDist(txout, i) = TxDist(txin, i) - TxDist(txin, txout)
        BY <1>4, <2>0, <2>2, TxPast
      <3>2. TxDist(txout, i) < c.n
        BY <1>2, <1>4, <1>9, <2>0, <3>1
      <3>3. /\ txd'[i] = [sof |-> i = txout, eof |-> i = last]
            /\ txp'[i] # NULL <=> i = last
        BY <1>8, <3>2
      <3>4. txd'[i].sof = (i = txout) /\ txd'[i].eof = (i = last) /\ txd'[i] # NULL
        <4>1. [sof |-> i = txout, eof |-> i = last] \in [sof : BOOLEAN, eof : BOOLEAN]
          OBVIOUS
        <4> QED
          BY <3>3, <4>1, NullAssumption, ZenonT(40)
      <3>5. NEXTTXD(i) = out => i = last
        BY <1>2, <1>3, <1>4, TxNext DEF TxSlot
      <3>6. i # txin => (i = txout <=> txd'[PREVTXD(i)].eof)
        <4> SUFFICES ASSUME i # txin PROVE i = txout <=> txd'[PREVTXD(i)].eof
          OBVIOUS
        <4>1. CASE i = txout
          <5>1. PREVTXD(i) \in TxSlot /\ NEXTTXD(PREVTXD(i)) = txout
                /\ TxDist(txin, PREVTXD(i)) = TxDist(txin, txout) - 1
            BY <1>4, <4>1, TxBefore
          <5>2. TxDist(txin, PREVTXD(i)) < TxDist(txin, txout)
            BY <1>4, <5>1
          <5> QED
            BY <1>7, <4>1, <5>1, <5>2
        <4>2. CASE i # txout
          <5>1. PREVTXD(i) \in TxSlot /\ NEXTTXD(PREVTXD(i)) = i
                /\ TxDist(txout, PREVTXD(i)) = TxDist(txout, i) - 1
            BY <1>4, <4>2, TxBefore
          <5>2. TxDist(txout, PREVTXD(i)) < c.n /\ PREVTXD(i) # last
            BY <1>2, <1>4, <2>0, <3>2, <5>1
          <5>3. txd'[PREVTXD(i)] = [sof |-> PREVTXD(i) = txout, eof |-> PREVTXD(i) = last]
            BY <1>8, <5>1, <5>2
          <5>4. txd'[PREVTXD(i)].eof = (PREVTXD(i) = last)
            BY <5>3
          <5> QED
            BY <4>2, <5>2, <5>4
        <4> QED
          BY <4>1, <4>2
      <3> QED
        BY <3>3, <3>4, <3>5, <3>6
    <2> QED
      BY <2>1, <2>2
  <1> QED
    <2>1. txin' = txin /\ txout' = out
      BY <1>1
    <2> QED
      BY <2>1, <1>9 DEF Frames, TxDist, RingDist, PREVTXD, NEXTTXD, TxSlot

LEMMA FramesReclaim ==
  ASSUME TxTypes, TxRing, Frames, NEW end \in TxSlot,
         TxDist(txin, end) <= TxDist(txin, txout), ReclaimTo(end),
         xmt \in {"on", "suspended"}
  PROVE  Frames'
  <1>1. txin' = end /\ txout' = txout /\ txin \in TxSlot
    BY DEF ReclaimTo, TxTypes
  <1>2. ASSUME NEW i \in TxSlot, TxDist(end, i) < TxDist(end, txout)
        PROVE  /\ txd'[i] = txd[i] /\ txp'[i] = txp[i]
               /\ TxDist(txin, i) < TxDist(txin, txout)
               /\ TxDist(txin, end) <= TxDist(txin, i)
    <2>1. /\ TxDist(txin, i) < TxDist(txin, txout)
          /\ TxDist(txin, end) <= TxDist(txin, i)
      BY <1>2, ReclaimedRing
    <2>2. TxDist(txin, end) \in Nat /\ TxDist(txin, i) \in Nat
      BY <1>1, TxMacros, HndDmaAssumption
    <2>3. ~(TxDist(txin, i) < TxDist(txin, end))
      BY <2>1, <2>2
    <2> QED
      BY <2>1, <2>3, ReclaimedRing
  <1>3. ASSUME NEW i \in TxSlot, TxDist(end, i) < TxDist(end, txout)
        PROVE  /\ txd'[i] # NULL
               /\ txd'[i].eof <=> txp'[i] # NULL
               /\ i # end => (txd'[i].sof <=> txd'[PREVTXD(i)].eof)
               /\ NEXTTXD(i) = txout => txd'[i].eof
    <2>1. /\ txd[i] # NULL
          /\ txd[i].eof <=> txp[i] # NULL
          /\ i # txin => (txd[i].sof <=> txd[PREVTXD(i)].eof)
          /\ NEXTTXD(i) = txout => txd[i].eof
      BY <1>2, <1>3 DEF Frames
    <2>2. ASSUME i # end PROVE i # txin /\ txd'[PREVTXD(i)] = txd[PREVTXD(i)]
      <3>1. i # txin
        <4>1. TxDist(txin, txin) = 0 /\ TxDist(txin, end) \in Nat
              /\ (TxDist(txin, end) = 0 <=> txin = end)
          BY <1>1, TxMacros, HndDmaAssumption
        <4> QED
          BY <1>2, <1>3, <2>2, <4>1
      <3>2. PREVTXD(i) \in TxSlot /\ TxDist(end, PREVTXD(i)) = TxDist(end, i) - 1
        BY <2>2, TxBefore
      <3>3. TxDist(end, i) \in Nat /\ TxDist(end, txout) \in Nat
        BY TxMacros, HndDmaAssumption DEF TxTypes
      <3>4. TxDist(end, PREVTXD(i)) < TxDist(end, txout)
        BY <1>3, <3>2, <3>3
      <3> QED
        BY <1>2, <3>1, <3>2, <3>4
    <2> QED
      BY <1>2, <1>3, <2>1, <2>2
  <1> QED
    BY <1>1, <1>3 DEF Frames, TxDist, RingDist, PREVTXD, NEXTTXD, TxSlot

LEMMA FramesStep ==
  ASSUME 0 \notin Needs, "head" \notin Holes, TxTypes, TxRing, Frames, [Next]_vars
  PROVE  Frames'
  <1>1. CASE UNCHANGED txvars
    BY <1>1 DEF Frames, txvars, ringtx
  <1>2. CASE dma_detach
    BY <1>2 DEF Frames, dma_detach
  <1>3. CASE dma_txinit
    <2>1. \A i \in TxSlot : ~(TxDist(0, i) < TxDist(0, 0))
      BY HndDmaAssumption DEF TxDist, RingDist, TxSlot
    <2> QED
      BY <1>3, <2>1 DEF Frames, dma_txinit
  <1>4. CASE dma_txsuspend \/ dma_txresume \/ dma_txreset
    <2>1. UNCHANGED <<txin, txout, txp, txd>> /\ xmt \in {"on", "suspended"}
      BY <1>4 DEF dma_txsuspend, dma_txresume, dma_txreset, XmtDisabled, ringtx
    <2> QED
      BY <2>1 DEF Frames
  <1>5. ASSUME NEW p \in Pkts, NEW c \in Chains, dma_txfast(p, c) \/ dma_tx(p, c)
        PROVE  Frames'
    <2>1. TxCalled(p)
      BY <1>5, TxCallIs
    <2>2. CASE TxRefuse(c)
      <3>1. txd' = Filled(c, TxFree, FALSE) /\ UNCHANGED <<txin, txout, txp, xmt>>
        BY <2>2 DEF TxRefuse
      <3>2. xmt \in {"on", "suspended"} /\ txin \in TxSlot /\ txout \in TxSlot
        BY <2>1 DEF TxCalled, TxTypes
      <3>3. ASSUME NEW i \in TxSlot, TxDist(txin, i) < TxDist(txin, txout)
            PROVE  txd'[i] = txd[i] /\ (i # txin => txd'[PREVTXD(i)] = txd[PREVTXD(i)])
        <4>1. txd'[i] = txd[i]
          BY <3>1, <3>3, FilledHalf
        <4>2. ASSUME i # txin PROVE txd'[PREVTXD(i)] = txd[PREVTXD(i)]
          <5>1. PREVTXD(i) \in TxSlot /\ TxDist(txin, PREVTXD(i)) = TxDist(txin, i) - 1
            BY <3>2, <4>2, TxBefore
          <5>2. TxDist(txin, i) \in Nat /\ TxDist(txin, txout) \in Nat
            BY <3>2, TxMacros, HndDmaAssumption
          <5>3. TxDist(txin, PREVTXD(i)) < TxDist(txin, txout)
            BY <3>3, <5>1, <5>2
          <5> QED
            BY <3>1, <5>1, <5>3, FilledHalf
        <4> QED
          BY <4>1, <4>2
      <3>4. ASSUME NEW i \in TxSlot, TxDist(txin, i) < TxDist(txin, txout)
            PROVE  /\ txd'[i] # NULL
                   /\ txd'[i].eof <=> txp[i] # NULL
                   /\ i # txin => (txd'[i].sof <=> txd'[PREVTXD(i)].eof)
                   /\ NEXTTXD(i) = txout => txd'[i].eof
        BY <3>2, <3>3, <3>4 DEF Frames
      <3> QED
        BY <3>1, <3>4 DEF Frames
    <2>3. CASE TxPost(p, c) /\ (~NoRoom(c) \/ ~NoRoomFast(c))
      BY <2>1, <2>3, FramesPost
    <2> QED
      BY <1>5, <2>2, <2>3, TxCallIs
  <1>6. ASSUME NEW f \in BOOLEAN, dma_getnexttxp(f) \/ dma_txreclaim(f)
        PROVE  Frames'
    <2>1. PICK end \in TxSlot :
            /\ ReclaimTo(end)
            /\ TxDist(txin, end) <= TxDist(txin, TxEnd(f))
            /\ xmt' = xmt \/ (f /\ xmt' = "down" /\ end = txout)
      BY <1>6, ReclaimIs
    <2>2. ReclaimCalled(f)
      BY <1>6, ReclaimIs
    <2>3. /\ TxDist(txin, TxEnd(f)) <= TxDist(txin, txout)
          /\ TxDist(txin, TxEnd(f)) \in Nat /\ TxDist(txin, end) \in Nat /\ TxDist(txin, txout) \in Nat
      BY <2>2, ReclaimEnd, TxMacros, HndDmaAssumption DEF TxTypes, TxEnd
    <2>4. TxDist(txin, end) <= TxDist(txin, txout)
      BY <2>1, <2>3
    <2>5. CASE xmt \in {"on", "suspended"}
      BY <2>1, <2>4, <2>5, FramesReclaim
    <2>6. CASE xmt \notin {"on", "suspended"}
      BY <2>1, <2>6 DEF Frames
    <2> QED
      BY <2>5, <2>6
  <1>7. CASE dma_txblock \/ dma_txunblock
    BY <1>7 DEF dma_txblock, dma_txunblock, Frames
  <1>8. CASE HwTx
    BY <1>8 DEF HwTx, Frames
  <1> QED
    BY <1>1, <1>2, <1>3, <1>4, <1>5, <1>6, <1>7, <1>8, TxHalfSteps

\* The form of the invariant that the chip sees: counted from txin.
LEMMA FramesAt ==
  ASSUME TxTypes, TxRing, Frames
  PROVE  TxFramesWhole
  <1> SUFFICES ASSUME xmt \in {"on", "suspended"}
               PROVE  TxFramesWhole
    BY DEF TxFramesWhole
  <1> DEFINE n == NTXDACTIVE(txin, xmtptr)
             at(k) == (txin + k) % NTxd
             sent == NTXDACTIVE(txin, xmtcur)
  <1>1. /\ txin \in TxSlot /\ txout \in TxSlot /\ xmtcur \in TxSlot /\ NTxd \in Nat
        /\ xmtptr = txout /\ TxDist(txin, xmtcur) <= TxDist(txin, txout)
    BY HndDmaAssumption DEF TxTypes, TxRing
  <1>2. n = TxDist(txin, txout) /\ n \in 0 .. (NTxd - 1) /\ sent <= n
    BY <1>1, TxMacros
  <1> HIDE DEF n
  <1>3. ASSUME NEW k \in 0 .. (n - 1)
        PROVE  /\ at(k) \in TxSlot /\ TxDist(txin, at(k)) = k
               /\ txd[at(k)] # NULL
               /\ txd[at(k)].eof <=> txp[at(k)] # NULL
               /\ at(k) # txin => (txd[at(k)].sof <=> txd[PREVTXD(at(k))].eof)
               /\ NEXTTXD(at(k)) = txout => txd[at(k)].eof
    <2>1. k \in 0 .. (NTxd - 1) /\ k < n
      BY <1>1, <1>2
    <2>2. at(k) \in TxSlot /\ TxDist(txin, at(k)) = k
      BY <1>1, <2>1, TxStep
    <2> HIDE DEF at
    <2> QED
      BY <1>2, <2>1, <2>2 DEF Frames
  <1>4. ASSUME NEW k \in 0 .. (n - 1), k > 0
        PROVE  at(k) # txin /\ PREVTXD(at(k)) = at(k - 1)
    <2>1. k - 1 \in 0 .. (n - 1) /\ k \in 0 .. (NTxd - 1) /\ k - 1 \in 0 .. (NTxd - 1)
      BY <1>1, <1>2, <1>4
    <2>2. TxDist(txin, at(k)) = k /\ at(k) \in TxSlot
      BY <1>3
    <2>3. at(k) # txin
      BY <1>1, <1>4, <2>2, TxMacros
    <2>4. at(k - 1) = RingAt(NTxd, txin, k - 1) /\ at(k) = RingAt(NTxd, txin, k)
      BY <1>1, <2>1, TxStep
    <2>5. PREVTXD(at(k)) = IF at(k) = 0 THEN NTxd - 1 ELSE at(k) - 1
      BY <2>2, TxNext
    <2> HIDE DEF at
    <2>6. PREVTXD(at(k)) = at(k - 1)
      BY <1>1, <1>4, <2>1, <2>4, <2>5 DEF RingAt, TxSlot
    <2> QED
      BY <2>3, <2>6
  <1>5. n > 0 => NEXTTXD(at(n - 1)) = txout /\ n - 1 \in 0 .. (n - 1)
    <2> SUFFICES ASSUME n > 0 PROVE NEXTTXD(at(n - 1)) = txout /\ n - 1 \in 0 .. (n - 1)
      OBVIOUS
    <2>1. n - 1 \in 0 .. (n - 1) /\ n - 1 \in 0 .. (NTxd - 1)
      BY <1>1, <1>2
    <2>2. at(n - 1) \in TxSlot /\ at(n - 1) = RingAt(NTxd, txin, n - 1)
      BY <1>1, <2>1, TxStep
    <2>3. NEXTTXD(at(n - 1)) = IF at(n - 1) + 1 = NTxd THEN 0 ELSE at(n - 1) + 1
      BY <2>2, TxNext
    <2>4. txout = RingAt(NTxd, txin, n)
      BY <1>1, <1>2, RingDistAt, HndDmaAssumption DEF TxDist, TxSlot
    <2> HIDE DEF at
    <2>5. NEXTTXD(at(n - 1)) = txout
      BY <1>1, <1>2, <2>1, <2>2, <2>3, <2>4 DEF RingAt, TxSlot
    <2> QED
      BY <2>1, <2>5
  <1>6. n > 0 => txd[at(n - 1)] # NULL /\ txd[at(n - 1)].eof
    BY <1>3, <1>5
  <1>7. \A k \in 0 .. (n - 1) :
          /\ txd[at(k)] # NULL
          /\ txd[at(k)].eof <=> txp[at(k)] # NULL
          /\ k > 0 => (txd[at(k)].sof <=> txd[at(k - 1)].eof)
    <2> SUFFICES ASSUME NEW k \in 0 .. (n - 1)
                 PROVE  /\ txd[at(k)] # NULL
                        /\ txd[at(k)].eof <=> txp[at(k)] # NULL
                        /\ k > 0 => (txd[at(k)].sof <=> txd[at(k - 1)].eof)
      OBVIOUS
    <2>1. k > 0 => (txd[at(k)].sof <=> txd[at(k - 1)].eof)
      BY <1>3, <1>4
    <2> QED
      BY <1>3, <2>1
  <1> QED
    BY <1>2, <1>6, <1>7 DEF TxFramesWhole, n

\* Between its current descriptor and the posted end the chip only ever finds
\* whole frames, each with its packet on the last descriptor, although chains
\* are refused halfway, packets are taken back one at a time and the engine is
\* suspended and resumed at any moment: for every ring size and every chain of
\* at least one descriptor whose first buffer is not empty.
THEOREM HndFramesWhole ==
  ASSUME 0 \notin Needs, "head" \notin Holes
  PROVE  Spec => []TxFramesWhole
  <1> DEFINE Inv == HndTypes /\ TxRing /\ Frames
  <1>1. Init => Inv
    BY HndTypesInit, RingsInit DEF Init, Frames
  <1>2. Inv /\ [Next]_vars => Inv'
    BY HndTypesStep, TxRingStep, FramesStep DEF HndTypes
  <1>3. Inv => TxFramesWhole
    BY FramesAt DEF HndTypes
  <1> QED
    BY <1>1, <1>2, <1>3, PTL DEF Spec

-----------------------------------------------------------------------------
(***************************************************************************)
(* Giants.  The recursive function SkipLen exists: it can be built up to   *)
(* every n.                                                                *)
(***************************************************************************)
SkipStep(s, b) ==
  CASE s > BufSize -> s - BufSize
    [] s = 0 /\ b # NULL /\ b.len > Fits -> b.len - Fits
    [] OTHER -> 0

SkipBody(f, d) == IF d = 0 THEN 0 ELSE SkipStep(f[d - 1], rxp[(rxin + d - 1) % NRxd])

SkipTo(n) == \E f : f = [d \in 0 .. n |-> SkipBody(f, d)]

LEMMA SkipToNext ==
  ASSUME NEW n \in Nat, SkipTo(n)
  PROVE  SkipTo(n + 1)
  <1>1. PICK f : f = [d \in 0 .. n |-> SkipBody(f, d)]
    BY DEF SkipTo
  <1> DEFINE g == [d \in 0 .. (n + 1) |-> IF d = n + 1 THEN SkipBody(f, n + 1) ELSE f[d]]
  <1>2. ASSUME NEW d \in 0 .. (n + 1) PROVE g[d] = SkipBody(g, d)
    <2>1. CASE d = 0
      <3>1. g[d] = f[d] /\ f[d] = SkipBody(f, d)
        BY <1>1, <2>1
      <3> QED
        BY <2>1, <3>1 DEF SkipBody
    <2>2. CASE d # 0
      <3>1. d - 1 \in 0 .. n /\ d - 1 \in 0 .. (n + 1) /\ d - 1 # n + 1
        BY <2>2
      <3>2. g[d - 1] = f[d - 1]
        BY <3>1
      <3>3. g[d] = SkipBody(f, d)
        <4>1. CASE d = n + 1
          BY <4>1
        <4>2. CASE d # n + 1
          <5>1. d \in 0 .. n
            BY <4>2
          <5>2. g[d] = f[d]
            BY <4>2
          <5>3. f[d] = SkipBody(f, d)
            BY <1>1, <5>1
          <5> QED
            BY <5>2, <5>3
        <4> QED
          BY <4>1, <4>2
      <3> HIDE DEF g
      <3> QED
        BY <3>2, <3>3 DEF SkipBody
    <2> QED
      BY <2>1, <2>2
  <1>3. g = [d \in 0 .. (n + 1) |-> g[d]]
    OBVIOUS
  <1> HIDE DEF g
  <1>4. g = [d \in 0 .. (n + 1) |-> SkipBody(g, d)]
    BY <1>2, <1>3
  <1> QED
    BY <1>4 DEF SkipTo

LEMMA SkipToAll ==
  ASSUME NEW n \in Nat
  PROVE  SkipTo(n)
  <1> DEFINE T == {m \in Nat : ~SkipTo(m)}
  <1> SUFFICES ASSUME T # {} PROVE FALSE
    OBVIOUS
  <1>1. PICK m \in T : \A y \in T : m <= y
    BY LeastNat
  <1>2. CASE m = 0
    <2> DEFINE f == [d \in 0 .. 0 |-> 0]
    <2>1. f = [d \in 0 .. 0 |-> SkipBody(f, d)]
      BY DEF SkipBody
    <2>2. SkipTo(0)
      BY <2>1 DEF SkipTo
    <2> QED
      BY <1>2, <2>2
  <1>3. CASE m # 0
    <2>1. m - 1 \in Nat /\ m - 1 \notin T /\ (m - 1) + 1 = m
      BY <1>1, <1>3
    <2>2. SkipTo(m - 1)
      BY <2>1
    <2>3. SkipTo(m)
      BY <2>1, <2>2, SkipToNext
    <2> QED
      BY <2>3
  <1> QED
    BY <1>2, <1>3

LEMMA SkipLenIs ==
  SkipLen = [d \in 0 .. NRxd |-> SkipBody(SkipLen, d)]
  <1>1. \E f : f = [d \in 0 .. NRxd |-> SkipBody(f, d)]
    BY SkipToAll, HndDmaAssumption DEF SkipTo
  <1>2. SkipLen = CHOOSE f : f = [d \in 0 .. NRxd |-> SkipBody(f, d)]
    BY DEF SkipLen, SkipBody, SkipStep
  <1> QED
    BY <1>1, <1>2

\* ceil(x / b)
LEMMA CeilDiv ==
  ASSUME NEW x \in Nat, x > 0, NEW b \in Nat, b > 0
  PROVE  LET m == (x + b - 1) \div b IN
         m \in Nat /\ m > 0 /\ (m - 1) * b < x /\ x <= m * b
  <1> DEFINE m == (x + b - 1) \div b
             y == (x + b - 1) % b
  <1>1. m \in Int /\ y \in 0 .. (b - 1) /\ x + b - 1 = b * m + y
    OBVIOUS
  <1> HIDE DEF m, y
  <1>2. b * m = m * b /\ (m - 1) * b = m * b - b
    BY <1>1
  <1>3. (m - 1) * b < x /\ x <= m * b
    BY <1>1, <1>2
  <1>4. m > 0
    <2>1. CASE m <= 0
      <3>1. m * b <= 0
        BY <1>1, <2>1
      <3> QED
        BY <1>3, <3>1, <1>1
    <2> QED
      BY <2>1, <1>1
  <1> QED
    BY <1>1, <1>3, <1>4 DEF m

(***************************************************************************)
(* How a giant lies in the ring.  left[i] is the number of descriptors     *)
(* that were still to come of the frame the chip was in when it reached    *)
(* slot i; such a function exists for what lies between rxin and the chip. *)
(* It ends in rcvmore, and is 0 at rxin, at the start of a frame and where *)
(* a status that moves on by frames stands.                                *)
(***************************************************************************)
Parts(len) == IF len <= Fits THEN 0 ELSE (len - Fits + BufSize - 1) \div BufSize

LaidOut(left) ==
  /\ left \in [RxSlot -> Nat]
  /\ left[rxin] = 0 /\ left[rcvstat] = 0 /\ left[rcvcur] = rcvmore
  /\ \A i \in RxSlot : RxDist(rxin, i) < RxDist(rxin, rcvcur) =>
       /\ rxp[i].start <=> left[i] = 0
       /\ left[NEXTRXD(i)] = IF left[i] > 0 THEN left[i] - 1 ELSE Parts(rxp[i].len)

Giants == rcv = "on" => \E left \in [RxSlot -> Nat] : LaidOut(left)

\* skiplen, in bytes, and the number of descriptors it stands for.
Stands(s, m) ==
  IF m = 0 THEN s = 0 ELSE s \in Nat /\ (m - 1) * BufSize < s /\ s <= m * BufSize

LEMMA StandsStart ==
  ASSUME NEW len \in Nat, len > Fits
  PROVE  Parts(len) \in Nat /\ Stands(len - Fits, Parts(len))
  <1>1. BufSize \in Nat /\ BufSize > 0 /\ Fits \in Nat
    BY HndDmaAssumption DEF Fits
  <1> DEFINE x == len - Fits
             m == (x + BufSize - 1) \div BufSize
  <1>2. x \in Nat /\ x > 0
    BY <1>1
  <1>3. ~(len <= Fits)
    BY <1>1
  <1>4. Parts(len) = m
    BY <1>3 DEF Parts
  <1> HIDE DEF x
  <1>5. m \in Nat /\ m > 0 /\ (m - 1) * BufSize < x /\ x <= m * BufSize
    BY <1>1, <1>2, CeilDiv
  <1> HIDE DEF m
  <1>6. Stands(x, m)
    BY <1>2, <1>5 DEF Stands
  <1> QED
    BY <1>4, <1>5, <1>6 DEF x

LEMMA StandsMore ==
  ASSUME NEW s, NEW m \in Nat, m > 0, Stands(s, m)
  PROVE  /\ s \in Nat /\ s # 0
         /\ s > BufSize => Stands(s - BufSize, m - 1)
         /\ ~(s > BufSize) => m = 1
  <1>1. BufSize \in Nat /\ BufSize > 0
    BY HndDmaAssumption
  <1>2. s \in Nat /\ (m - 1) * BufSize < s /\ s <= m * BufSize
    BY DEF Stands
  <1>3. (m - 1) * BufSize = m * BufSize - BufSize /\ m * BufSize \in Nat
        /\ (m - 1) * BufSize \in Nat
    BY <1>1
  <1>4. s # 0
    BY <1>2, <1>3
  <1>5. ASSUME s > BufSize PROVE Stands(s - BufSize, m - 1)
    <2>1. m # 1
      BY <1>1, <1>2, <1>3, <1>5
    <2>2. m - 1 \in Nat /\ m - 1 # 0
      BY <2>1
    <2>3. ((m - 1) - 1) * BufSize = m * BufSize - BufSize - BufSize
      BY <1>1
    <2>4. s - BufSize \in Nat /\ ((m - 1) - 1) * BufSize < s - BufSize
          /\ s - BufSize <= (m - 1) * BufSize
      BY <1>1, <1>2, <1>3, <1>5, <2>3
    <2> QED
      BY <2>2, <2>4 DEF Stands
  <1>6. ASSUME ~(s > BufSize) PROVE m = 1
    <2>1. CASE m > 1
      <3>1. m - 2 \in Nat
        BY <2>1
      <3>2. (m - 2) * BufSize \in Nat /\ (m - 1) * BufSize = (m - 2) * BufSize + BufSize
        BY <1>1, <3>1
      <3> QED
        BY <1>1, <1>2, <1>6, <3>2
    <2> QED
      BY <2>1
  <1> QED
    BY <1>2, <1>4, <1>5, <1>6

\* One buffer: what skiplen stands for goes down with what the chip counted,
\* unless the buffer is a frame that fits, which ends the walk.
LEMMA StandsStep ==
  ASSUME NEW s, NEW m \in Nat, Stands(s, m), NEW b \in Buffers,
         ~(s = 0 /\ b.len <= Fits)
  PROVE  Stands(SkipStep(s, b), IF m > 0 THEN m - 1 ELSE Parts(b.len))
  <1>1. BufSize \in Nat /\ BufSize > 0 /\ Fits \in Nat /\ b.len \in Nat /\ b # NULL
    <2>1. b.len \in Nat
      <3>1. b.len \in FrameLens \cup {0}
        BY DEF Buffers
      <3>2. FrameLens \cup {0} \subseteq Nat
        BY HndDmaAssumption
      <3> QED
        BY <3>1, <3>2
    <2> QED
      BY <2>1, HndDmaAssumption, NullAssumption DEF Fits
  <1>2. CASE m = 0
    <2>1. s = 0 /\ b.len > Fits
      BY <1>1, <1>2 DEF Stands
    <2>2. ~(s > BufSize)
      BY <1>1, <2>1
    <2>3. SkipStep(s, b) = b.len - Fits
      BY <1>1, <2>1, <2>2 DEF SkipStep
    <2>4. Stands(b.len - Fits, Parts(b.len))
      BY <1>1, <2>1, StandsStart
    <2> QED
      BY <1>2, <2>3, <2>4
  <1>3. CASE m # 0
    <2>0. m > 0
      BY <1>3
    <2>1. s \in Nat /\ s # 0 /\ (s > BufSize => Stands(s - BufSize, m - 1))
          /\ (~(s > BufSize) => m = 1)
      BY <2>0, StandsMore
    <2>2. CASE s > BufSize
      <3>1. ~(s = 0)
        BY <2>1
      <3>2. SkipStep(s, b) = s - BufSize
        BY <2>2, <3>1 DEF SkipStep
      <3> QED
        BY <2>0, <2>1, <2>2, <3>2
    <2>3. CASE ~(s > BufSize)
      <3>1. SkipStep(s, b) = 0
        BY <2>1, <2>3 DEF SkipStep
      <3>2. m = 1
        BY <2>1, <2>3
      <3> QED
        BY <3>1, <3>2 DEF Stands
    <2> QED
      BY <2>2, <2>3
  <1> QED
    BY <1>2, <1>3

-----------------------------------------------------------------------------
\* The buffers dma_rx walks over, the ones it returns at, and how many it uses.
RxAt(d) == rxp[(rxin + d) % NRxd]
Good == {d \in 0 .. (Received - 1) : SkipLen[d] = 0 /\ RxAt(d).len <= Fits}

\* The walk: up to the first good frame, skiplen stands for what is left of the
\* frame the walk is in.
LEMMA WalkFollows ==
  ASSUME RxTypes, RxRing, rcv = "on", NEW left \in [RxSlot -> Nat], LaidOut(left),
         NEW e \in Nat, e < Received, \A d \in Good : e <= d
  PROVE  \A d \in 0 .. e : Stands(SkipLen[d], left[(rxin + d) % NRxd])
  <1> USE HndDmaAssumption
  <1> DEFINE P(d) == Stands(SkipLen[d], left[(rxin + d) % NRxd])
             T == {d \in Nat : d <= e /\ ~P(d)}
  <1>1. /\ rxin \in RxSlot /\ NRxd \in Nat /\ NRxd > 1 /\ rcvcur \in RxSlot /\ rxout \in RxSlot
        /\ rxp \in [RxSlot -> Buffers \cup {NULL}]
        /\ Received \in Nat /\ Received <= RxDist(rxin, rcvstat)
        /\ Received <= RxDist(rxin, rxout)
        /\ RxDist(rxin, rcvstat) <= RxDist(rxin, rcvcur)
        /\ RxDist(rxin, rcvstat) \in 0 .. (NRxd - 1)
        /\ RxDist(rxin, rcvcur) \in 0 .. (NRxd - 1)
        /\ RxDist(rxin, rxout) \in 0 .. (NRxd - 1)
    BY ReceivedPosted, RxMacros DEF RxTypes, RxRing
  <1>2. P(0)
    <2>1. 0 \in 0 .. (NRxd - 1) /\ 0 \in 0 .. NRxd
      BY <1>1
    <2>2. (rxin + 0) % NRxd \in RxSlot /\ RxDist(rxin, (rxin + 0) % NRxd) = 0
      BY <1>1, <2>1, RxStep
    <2>3. (rxin + 0) % NRxd = rxin
      BY <1>1, <2>2, RxMacros
    <2>4. SkipLen[0] = 0
      BY <2>1, SkipLenIs DEF SkipBody
    <2> QED
      BY <2>3, <2>4 DEF Stands, LaidOut
  <1>3. ASSUME NEW d \in Nat, d + 1 <= e, P(d) PROVE P(d + 1)
    <2>1. d \in 0 .. (NRxd - 1) /\ d + 1 \in 0 .. (NRxd - 1) /\ d + 1 \in 0 .. NRxd
          /\ d < RxDist(rxin, rcvcur) /\ d < RxDist(rxin, rxout) /\ d + 1 # 0
          /\ d \in 0 .. (Received - 1)
      BY <1>1, <1>3
    <2> DEFINE i == (rxin + d) % NRxd
               j == (rxin + (d + 1)) % NRxd
               b == rxp[i]
               m == left[i]
               s == SkipLen[d]
    <2>2. i \in RxSlot /\ RxDist(rxin, i) = d /\ i = RingAt(NRxd, rxin, d)
          /\ j \in RxSlot /\ j = RingAt(NRxd, rxin, d + 1)
      BY <1>1, <2>1, RxStep
    <2>3. j = NEXTRXD(i)
      <3>1. NEXTRXD(i) = IF i + 1 = NRxd THEN 0 ELSE i + 1
        BY <2>2, RxNext
      <3> HIDE DEF i, j
      <3>2. rxin \in Nat /\ rxin < NRxd /\ NRxd \in Nat /\ d + 1 < NRxd
        BY <1>1, <2>1 DEF RxSlot
      <3>3. /\ i = IF rxin + d < NRxd THEN rxin + d ELSE rxin + d - NRxd
            /\ j = IF rxin + (d + 1) < NRxd THEN rxin + (d + 1) ELSE rxin + (d + 1) - NRxd
        BY <2>2 DEF RingAt
      <3> QED
        BY <3>1, <3>2, <3>3
    <2>4. b # NULL /\ b \in Buffers
      <3> HIDE DEF i
      <3>1. rxp[i] # NULL
        BY <2>1, <2>2 DEF RxRing
      <3> QED
        BY <1>1, <2>2, <3>1
    <2>5. d \notin Good
      BY <1>3, <1>1, <2>1
    <2>6. ~(s = 0 /\ b.len <= Fits)
      BY <2>1, <2>5 DEF Good, RxAt
    <2>7. SkipLen[d + 1] = SkipStep(s, b)
      <3>1. SkipLen[d + 1] = SkipBody(SkipLen, d + 1)
        BY <2>1, SkipLenIs
      <3>2. (d + 1) - 1 = d /\ rxin + (d + 1) - 1 = rxin + d
        BY <1>1, <2>1 DEF RxSlot
      <3> QED
        BY <2>1, <3>1, <3>2 DEF SkipBody
    <2>8. left[j] = IF m > 0 THEN m - 1 ELSE Parts(b.len)
      <3> HIDE DEF i, j
      <3>1. RxDist(rxin, i) < RxDist(rxin, rcvcur)
        BY <2>1, <2>2
      <3> QED
        BY <2>2, <2>3, <3>1 DEF LaidOut
    <2>9. m \in Nat /\ Stands(s, m)
      BY <1>3, <2>2
    <2> HIDE DEF b, m, s, i
    <2>10. Stands(SkipStep(s, b), IF m > 0 THEN m - 1 ELSE Parts(b.len))
      BY <2>4, <2>6, <2>9, StandsStep
    <2> QED
      BY <2>7, <2>8, <2>10
  <1> HIDE DEF P
  <1>4. T = {}
    <2> SUFFICES ASSUME T # {} PROVE FALSE
      OBVIOUS
    <2>1. PICK d \in T : \A y \in T : d <= y
      BY LeastNat
    <2>2. d # 0
      BY <1>2
    <2>3. d - 1 \in Nat /\ d - 1 \notin T /\ (d - 1) + 1 = d /\ d <= e /\ d - 1 <= e
      BY <2>1, <2>2
    <2>4. P(d - 1)
      BY <2>3
    <2>5. P(d)
      BY <1>3, <2>3, <2>4
    <2> QED
      BY <2>5
  <1>5. \A d \in 0 .. e : P(d)
    BY <1>4
  <1> QED
    BY <1>5 DEF P

\* What dma_rx does, in the terms above.
LEMMA DmaRxWalk ==
  ASSUME dma_rx, RxTypes
  PROVE  \E first \in Int, used \in Nat :
           /\ IF Good = {} THEN first = Received /\ used = Received
              ELSE first \in Good /\ (\A e \in Good : first <= e) /\ used = first + 1
           /\ rx_wrong' = rx_wrong
                \cup {w \in {"middle"} : Good # {} /\ ~RxAt(first).start}
                \cup {w \in {"frame"} : \E d \in (0 .. (used - 1)) \ {first} :
                                          RxAt(d).start /\ RxAt(d).len <= Fits}
           /\ rxp' = [i \in RxSlot |-> IF (i - rxin) % NRxd < used THEN NULL ELSE rxp[i]]
           /\ rxin' = (rxin + used) % NRxd
           /\ UNCHANGED <<rxout, rcv, rcvptr, rcvcur, rcvstat, rcvmore>>
           /\ rcv = "on"
  <1> DEFINE first == IF Good = {} THEN Received
                      ELSE CHOOSE d \in Good : \A e \in Good : d <= e
             used == IF Good = {} THEN Received ELSE first + 1
  <1>1. Received \in Nat
    BY ReceivedIs, HndDmaAssumption
  <1>2. Good \subseteq Nat
    <2>1. 0 .. (Received - 1) \subseteq Nat
      BY <1>1
    <2>2. Good \subseteq 0 .. (Received - 1)
      BY ZenonT(60) DEF Good
    <2> QED
      BY <2>1, <2>2, Zenon
  <1>3. /\ rx_wrong' = rx_wrong
             \cup {w \in {"middle"} : Good # {} /\ ~RxAt(first).start}
             \cup {w \in {"frame"} : \E d \in (0 .. (used - 1)) \ {first} :
                                       RxAt(d).start /\ RxAt(d).len <= Fits}
        /\ rxp' = [i \in RxSlot |-> IF (i - rxin) % NRxd < used THEN NULL ELSE rxp[i]]
        /\ rxin' = (rxin + used) % NRxd
        /\ UNCHANGED <<rxout, rcv, rcvptr, rcvcur, rcvstat, rcvmore>>
        /\ rcv = "on"
    BY DEF dma_rx, Good, RxAt
  <1>4. /\ IF Good = {} THEN first = Received /\ used = Received
           ELSE first \in Good /\ (\A e \in Good : first <= e) /\ used = first + 1
        /\ first \in Int /\ used \in Nat
    <2>1. CASE Good = {}
      BY <1>1, <2>1
    <2>2. CASE Good # {}
      <3>1. \E d \in Good : \A e \in Good : d <= e
        BY <1>2, <2>2, LeastNat
      <3>2. first \in Good /\ (\A e \in Good : first <= e) /\ used = first + 1
        BY <2>2, <3>1
      <3> HIDE DEF first, used
      <3>3. first \in Nat
        BY <1>2, <3>2
      <3>4. first \in Int /\ used \in Nat
        BY <3>2, <3>3
      <3> QED
        BY <2>2, <3>2, <3>4
    <2> QED
      BY <2>1, <2>2
  <1> HIDE DEF first, used
  <1> QED
    BY <1>3, <1>4

\* dma_rx makes no mistake, and stops where a frame begins.
LEMMA GiantsTaken ==
  ASSUME RxTypes, RxRing, Giants, dma_rx
  PROVE  rx_wrong' = rx_wrong /\ Giants'
  <1> USE HndDmaAssumption
  <1>1. PICK first \in Int, used \in Nat :
           /\ IF Good = {} THEN first = Received /\ used = Received
              ELSE first \in Good /\ (\A e \in Good : first <= e) /\ used = first + 1
           /\ rx_wrong' = rx_wrong
                \cup {w \in {"middle"} : Good # {} /\ ~RxAt(first).start}
                \cup {w \in {"frame"} : \E d \in (0 .. (used - 1)) \ {first} :
                                          RxAt(d).start /\ RxAt(d).len <= Fits}
           /\ rxp' = [i \in RxSlot |-> IF (i - rxin) % NRxd < used THEN NULL ELSE rxp[i]]
           /\ rxin' = (rxin + used) % NRxd
           /\ UNCHANGED <<rxout, rcv, rcvptr, rcvcur, rcvstat, rcvmore>>
           /\ rcv = "on"
    BY DmaRxWalk
  <1>2. PICK left \in [RxSlot -> Nat] : LaidOut(left)
    BY <1>1 DEF Giants
  <1>3. /\ rxin \in RxSlot /\ NRxd \in Nat /\ NRxd > 1 /\ rcvcur \in RxSlot /\ rxout \in RxSlot
        /\ rcvstat \in RxSlot
        /\ Received \in Nat /\ Received <= RxDist(rxin, rcvstat)
        /\ RxDist(rxin, rcvstat) <= RxDist(rxin, rcvcur)
        /\ RxDist(rxin, rcvcur) <= RxDist(rxin, rxout)
        /\ RxDist(rxin, rcvstat) \in 0 .. (NRxd - 1)
        /\ RxDist(rxin, rcvcur) \in 0 .. (NRxd - 1)
        /\ RxDist(rxin, rxout) \in 0 .. (NRxd - 1)
    BY <1>1, ReceivedPosted, RxMacros DEF RxTypes, RxRing
  <1>4. Good \subseteq 0 .. (Received - 1)
    BY DEF Good
  <1>5. used <= Received /\ used \in 0 .. (NRxd - 1) /\ first \in Nat
    BY <1>1, <1>3, <1>4
  <1>6. ASSUME NEW d \in Nat, d < Received, \A e \in Good : d <= e
        PROVE  /\ (rxin + d) % NRxd \in RxSlot
               /\ Stands(SkipLen[d], left[(rxin + d) % NRxd])
               /\ RxAt(d).start <=> SkipLen[d] = 0
    <2>1. d \in 0 .. d /\ d \in 0 .. (NRxd - 1)
      BY <1>3, <1>6
    <2>2. Stands(SkipLen[d], left[(rxin + d) % NRxd])
      BY <1>1, <1>2, <1>6, <2>1, WalkFollows
    <2> DEFINE i == (rxin + d) % NRxd
    <2>3. i \in RxSlot /\ RxDist(rxin, i) = d
      BY <1>3, <2>1, RxStep
    <2>4. RxAt(d) = rxp[i]
      BY DEF RxAt
    <2>5. Stands(SkipLen[d], left[i])
      BY <2>2
    <2> HIDE DEF i
    <2>6. RxDist(rxin, i) < RxDist(rxin, rcvcur)
      BY <1>3, <1>6, <2>3
    <2>7. rxp[i].start <=> left[i] = 0
      BY <1>2, <2>3, <2>6 DEF LaidOut
    <2>8. left[i] = 0 <=> SkipLen[d] = 0
      <3>1. left[i] \in Nat
        BY <2>3
      <3>2. left[i] = 0 => SkipLen[d] = 0
        BY <2>5 DEF Stands
      <3>3. ASSUME left[i] # 0 PROVE SkipLen[d] # 0
        <4>1. left[i] > 0
          BY <3>1, <3>3
        <4> QED
          BY <2>5, <3>1, <4>1, StandsMore
      <3> QED
        BY <3>2, <3>3
    <2> QED
      BY <2>3, <2>4, <2>5, <2>7, <2>8 DEF i
  <1>7. ~(Good # {} /\ ~RxAt(first).start)
    <2> SUFFICES ASSUME Good # {} PROVE RxAt(first).start
      OBVIOUS
    <2>1. (\A e \in Good : first <= e) /\ first \in Good
      BY <1>1
    <2>2. first \in Nat /\ first < Received
      BY <1>3, <1>4, <1>5, <2>1
    <2>3. SkipLen[first] = 0
      BY <2>1 DEF Good
    <2> QED
      BY <1>6, <2>1, <2>2, <2>3
  <1>8. ~ \E d \in (0 .. (used - 1)) \ {first} : RxAt(d).start /\ RxAt(d).len <= Fits
    <2> SUFFICES ASSUME NEW d \in 0 .. (used - 1), d # first,
                        RxAt(d).start, RxAt(d).len <= Fits
                 PROVE  FALSE
      OBVIOUS
    <2>1. d \in Nat /\ d < Received /\ d \in 0 .. (Received - 1)
      BY <1>3, <1>5
    <2>2. \A e \in Good : d <= e
      <3>1. CASE Good = {}
        BY <3>1
      <3>2. CASE Good # {}
        <4>1. first \in Good /\ (\A e \in Good : first <= e) /\ used = first + 1
          BY <1>1, <3>2
        <4>2. d <= first
          BY <1>5, <2>1, <4>1
        <4> QED
          BY <1>3, <1>4, <1>5, <2>1, <4>1, <4>2
      <3> QED
        BY <3>1, <3>2
    <2>3. SkipLen[d] = 0
      BY <1>6, <2>1, <2>2
    <2>4. d \in Good
      BY <2>1, <2>3 DEF Good
    <2> QED
      BY <1>1, <2>1, <2>2, <2>4, <1>5, <1>4, <1>3
  <1>9. rx_wrong' = rx_wrong
    BY <1>1, <1>7, <1>8
  <1> DEFINE in == (rxin + used) % NRxd
  <1>10. in \in RxSlot /\ RxDist(rxin, in) = used /\ in = RingAt(NRxd, rxin, used)
    BY <1>3, <1>5, RxStep
  <1>11. left[in] = 0
    <2>1. CASE Good = {}
      <3>1. used = Received /\ used \in Nat
        BY <1>1, <2>1
      <3>2. CASE rxin = rxout
        <4>1. RxDist(rxin, rxout) = 0 /\ used = 0
          BY <1>3, <3>1, <3>2, RxMacros DEF Received
        <4>2. in = rxin
          BY <1>3, <1>10, <4>1, RxMacros
        <4> QED
          BY <1>2, <4>2 DEF LaidOut
      <3>3. CASE rxin # rxout
        <4>1. used = RxDist(rxin, rcvstat)
          BY <3>1, <3>3, ReceivedIs
        <4> HIDE DEF in
        <4>2. in = rcvstat
          <5>1. RxDist(in, rcvstat) = 0
            BY <1>3, <1>10, <4>1, RxFrom
          <5> QED
            BY <1>3, <1>10, <5>1, RxMacros
        <4> QED
          BY <1>2, <4>2 DEF LaidOut
      <3> QED
        BY <3>2, <3>3
    <2>2. CASE Good # {}
      <3>1. first \in Good /\ (\A e \in Good : first <= e) /\ used = first + 1
        BY <1>1, <2>2
      <3>2. first \in Nat /\ first < Received /\ first \in 0 .. (NRxd - 1)
        BY <1>3, <1>4, <1>5, <3>1
      <3>3. SkipLen[first] = 0 /\ RxAt(first).len <= Fits
        BY <3>1 DEF Good
      <3> DEFINE i == (rxin + first) % NRxd
      <3>4. i \in RxSlot /\ RxDist(rxin, i) = first /\ i = RingAt(NRxd, rxin, first)
        BY <1>3, <3>2, RxStep
      <3>5. RxAt(first) = rxp[i] /\ RxAt(first).start
        BY <1>7, <2>2 DEF RxAt
      <3> HIDE DEF i, in
      <3>6. RxDist(rxin, i) < RxDist(rxin, rcvcur)
        BY <1>3, <3>2, <3>4
      <3>7. left[i] = 0 /\ left[NEXTRXD(i)] = IF left[i] > 0 THEN left[i] - 1 ELSE Parts(rxp[i].len)
        BY <1>2, <3>4, <3>5, <3>6 DEF LaidOut
      <3>8. Parts(rxp[i].len) = 0
        BY <3>3, <3>5 DEF Parts
      <3>9. NEXTRXD(i) = in
        <4>1. NEXTRXD(i) = IF i + 1 = NRxd THEN 0 ELSE i + 1
          BY <3>4, RxNext
        <4>2. rxin \in Nat /\ rxin < NRxd /\ first + 1 < NRxd
          BY <1>3, <1>5, <3>1 DEF RxSlot
        <4>3. /\ i = IF rxin + first < NRxd THEN rxin + first ELSE rxin + first - NRxd
              /\ in = IF rxin + (first + 1) < NRxd THEN rxin + (first + 1)
                      ELSE rxin + (first + 1) - NRxd
          BY <1>10, <3>1, <3>4 DEF RingAt
        <4> QED
          BY <1>3, <3>2, <4>1, <4>2, <4>3
      <3>10. left[NEXTRXD(i)] = 0
        BY <3>7, <3>8
      <3> QED
        BY <3>9, <3>10
    <2> QED
      BY <2>1, <2>2
  <1>12. rxin' = in
    BY <1>1
  <1> HIDE DEF in
  <1>13. ASSUME NEW i \in RxSlot, RxDist(in, i) < RxDist(in, rcvcur)
         PROVE  rxp'[i] = rxp[i] /\ RxDist(rxin, i) < RxDist(rxin, rcvcur)
    <2>1. /\ RxDist(in, i) = IF used <= RxDist(rxin, i) THEN RxDist(rxin, i) - used
                             ELSE RxDist(rxin, i) - used + NRxd
          /\ RxDist(in, rcvcur) = IF used <= RxDist(rxin, rcvcur) THEN RxDist(rxin, rcvcur) - used
                                  ELSE RxDist(rxin, rcvcur) - used + NRxd
      BY <1>3, <1>10, RxFrom
    <2>2. (i - rxin) % NRxd = RxDist(rxin, i) /\ RxDist(rxin, i) \in 0 .. (NRxd - 1)
      BY <1>3, RxMacros
    <2>3. used <= RxDist(rxin, rcvcur)
      BY <1>3, <1>5
    <2>4. used <= RxDist(rxin, i) /\ RxDist(rxin, i) < RxDist(rxin, rcvcur)
      BY <1>3, <1>5, <1>13, <2>1, <2>2, <2>3
    <2>5. ~((i - rxin) % NRxd < used)
      BY <1>5, <2>2, <2>4
    <2> QED
      BY <1>1, <2>4, <2>5
  <1>14. /\ left[in] = 0 /\ left[rcvstat] = 0 /\ left[rcvcur] = rcvmore
         /\ \A i \in RxSlot : RxDist(in, i) < RxDist(in, rcvcur) =>
              /\ rxp'[i].start <=> left[i] = 0
              /\ left[NEXTRXD(i)] = IF left[i] > 0 THEN left[i] - 1 ELSE Parts(rxp'[i].len)
    BY <1>2, <1>11, <1>13 DEF LaidOut
  <1>15. LaidOut(left)'
    BY <1>1, <1>12, <1>14, SMTT(30)
    DEF LaidOut, RxDist, RingDist, NEXTRXD, Parts, Fits, RxSlot
  <1> QED
    BY <1>9, <1>15 DEF Giants

\* The chip writes one more buffer.
LEMMA GiantsWritten ==
  ASSUME StatusPer = "frame", RxTypes, RxRing, Giants, NEW len \in FrameLens, HwRx(len)
  PROVE  Giants'
  <1> USE HndDmaAssumption
  <1> DEFINE more == IF rcvmore > 0 THEN rcvmore - 1 ELSE Parts(len)
             next == NEXTRXD(rcvcur)
             b == [start |-> rcvmore = 0, len |-> len]
  <1>1. /\ rcv = "on" /\ rcvcur # rcvptr
        /\ rxp' = [rxp EXCEPT ![rcvcur] = b]
        /\ rcvcur' = next /\ rcvmore' = more
        /\ rcvstat' = IF more = 0 THEN next ELSE rcvstat
        /\ UNCHANGED <<rxin, rxout, rcv, rcvptr>>
    BY DEF HwRx, Parts
  <1>2. PICK left \in [RxSlot -> Nat] : LaidOut(left)
    BY <1>1 DEF Giants
  <1>3. more \in Nat
    <2>1. Fits \in Int /\ len \in Nat /\ rcvmore \in Nat
      BY DEF Fits, RxTypes
    <2>2. ~(len <= Fits) => (len - Fits + BufSize - 1) \div BufSize \in Nat
      BY <2>1, PartsType
    <2>3. rcvmore > 0 => rcvmore - 1 \in Nat
      BY <2>1
    <2> QED
      BY <2>2, <2>3 DEF Parts
  <1>4. /\ rxin \in RxSlot /\ rcvcur \in RxSlot /\ rcvstat \in RxSlot /\ rxout \in RxSlot
        /\ rcvptr = rxout /\ NRxd \in Nat /\ NRxd > 1
        /\ RxDist(rxin, rcvstat) <= RxDist(rxin, rcvcur)
        /\ RxDist(rxin, rcvcur) <= RxDist(rxin, rxout)
        /\ rxp \in [RxSlot -> Buffers \cup {NULL}]
    BY <1>1 DEF RxTypes, RxRing
  <1>5. /\ RxDist(rxin, rcvstat) \in 0 .. (NRxd - 1) /\ RxDist(rxin, rcvcur) \in 0 .. (NRxd - 1)
        /\ RxDist(rxin, rxout) \in 0 .. (NRxd - 1) /\ RxDist(rxin, rxin) = 0
    BY <1>4, RxMacros
  <1>6. next \in RxSlot /\ RxDist(rxin, next) = RxDist(rxin, rcvcur) + 1
    <2>1. next \in RxSlot /\ next = IF rcvcur + 1 = NRxd THEN 0 ELSE rcvcur + 1
      BY <1>4, RxNext
    <2> HIDE DEF next
    <2>2. RxDist(rxin, next) = RxDist(rxin, rcvcur) + 1
      BY <1>1, <1>4, <2>1 DEF RxSlot, RxDist, RingDist
    <2> QED
      BY <2>1, <2>2
  <1>7. PICK left2 \in [RxSlot -> Nat] : left2 = [left EXCEPT ![next] = more]
    BY <1>2, <1>3, <1>6
  <1>8. next # rxin /\ next # rcvstat /\ next # rcvcur
    BY <1>4, <1>5, <1>6
  <1>9. left2[rxin] = 0 /\ left2[next] = more /\ left2[rcvstat] = 0 /\ left2[rcvcur] = rcvmore
    BY <1>2, <1>4, <1>6, <1>7, <1>8 DEF LaidOut
  <1>10. left2[rcvstat'] = 0
    BY <1>1, <1>9
  <1>11. ASSUME NEW i \in RxSlot, RxDist(rxin, i) < RxDist(rxin, next)
         PROVE  /\ rxp'[i].start <=> left2[i] = 0
                /\ left2[NEXTRXD(i)] = IF left2[i] > 0 THEN left2[i] - 1 ELSE Parts(rxp'[i].len)
    <2>1. CASE i = rcvcur
      <3>1. rxp'[i] = b /\ NEXTRXD(i) = next
        BY <1>1, <1>4, <2>1
      <3>2. b.start = (rcvmore = 0) /\ b.len = len
        OBVIOUS
      <3> HIDE DEF b
      <3> QED
        BY <1>9, <2>1, <3>1, <3>2
    <2>2. CASE i # rcvcur
      <3>1. RxDist(rxin, i) \in 0 .. (NRxd - 1) /\ RxDist(rxin, i) # RxDist(rxin, rcvcur)
        <4>1. RxDist(rxin, i) \in 0 .. (NRxd - 1)
          BY <1>4, RxMacros
        <4>2. RxDist(rxin, i) # RxDist(rxin, rcvcur)
          BY <1>4, <2>2 DEF RxSlot, RxDist, RingDist
        <4> QED
          BY <4>1, <4>2
      <3>2. RxDist(rxin, i) < RxDist(rxin, rcvcur)
        BY <1>5, <1>6, <1>11, <3>1
      <3>3. /\ rxp[i].start <=> left[i] = 0
            /\ left[NEXTRXD(i)] = IF left[i] > 0 THEN left[i] - 1 ELSE Parts(rxp[i].len)
        BY <1>2, <3>2 DEF LaidOut
      <3>4. rxp'[i] = rxp[i]
        BY <1>1, <1>4, <2>2
      <3>5. i # next
        BY <1>5, <1>6, <3>2, <3>1
      <3>6. NEXTRXD(i) # next /\ NEXTRXD(i) \in RxSlot
        <4>1. NEXTRXD(i) \in RxSlot /\ NEXTRXD(i) = IF i + 1 = NRxd THEN 0 ELSE i + 1
          BY RxNext
        <4>2. next = IF rcvcur + 1 = NRxd THEN 0 ELSE rcvcur + 1
          BY <1>4, RxNext
        <4> HIDE DEF next
        <4>3. i \in Nat /\ i < NRxd /\ rcvcur \in Nat /\ rcvcur < NRxd /\ NRxd \in Nat
          BY <1>4 DEF RxSlot
        <4>4. NEXTRXD(i) # next
          BY <2>2, <4>1, <4>2, <4>3
        <4> QED
          BY <4>1, <4>4
      <3>7. left2[i] = left[i] /\ left2[NEXTRXD(i)] = left[NEXTRXD(i)]
        BY <1>2, <1>7, <3>5, <3>6
      <3> QED
        BY <3>3, <3>4, <3>7
    <2> QED
      BY <2>1, <2>2
  <1> HIDE DEF next, more
  <1>12. LaidOut(left2)'
    BY <1>1, <1>7, <1>9, <1>10, <1>11 DEF LaidOut, RxDist, RingDist, NEXTRXD, Parts, Fits, RxSlot
  <1> QED
    BY <1>7, <1>12 DEF Giants

LEMMA GiantsStep ==
  ASSUME StatusPer = "frame", TxTypes, RxTypes, RxRing, Giants, RxSkipsGiants, [Next]_vars
  PROVE  Giants' /\ RxSkipsGiants'
  <1> USE HndDmaAssumption
  <1>1. CASE UNCHANGED rxvars
    BY <1>1 DEF rxvars, ringrx, Giants, LaidOut, RxSkipsGiants
  <1>2. CASE dma_detach \/ dma_rxreset \/ dma_rxreclaim
    <2>1. rcv' # "on" /\ rx_wrong' = rx_wrong
      BY <1>2 DEF dma_detach, dma_rxreset, RcvDisabled, dma_rxreclaim, ringrx
    <2> QED
      BY <2>1 DEF Giants, RxSkipsGiants
  <1>3. CASE dma_rxinit
    <2> DEFINE left == [i \in RxSlot |-> 0]
    <2>1. rxin' = 0 /\ rcvcur' = 0 /\ rcvstat' = 0 /\ rcvmore' = 0 /\ rx_wrong' = rx_wrong
      BY <1>3 DEF dma_rxinit, RxRing
    <2>2. left \in [RxSlot -> Nat] /\ left[0] = 0 /\ \A i \in RxSlot : ~(RxDist(0, i) < RxDist(0, 0))
      BY DEF RxSlot, RxDist, RingDist
    <2> HIDE DEF left
    <2>3. LaidOut(left)'
      BY <2>1, <2>2 DEF LaidOut
    <2> QED
      BY <2>1, <2>2, <2>3 DEF Giants, RxSkipsGiants
  <1>4. ASSUME NEW k \in 0 .. NRxPost, dma_rxfill(k)
        PROVE  Giants' /\ RxSkipsGiants'
    <2>1. /\ rxp' = [i \in RxSlot |-> IF (i - rxout) % NRxd < k THEN Cleared ELSE rxp[i]]
          /\ rcv = "on" /\ k \in 0 .. Missing
          /\ UNCHANGED <<rxin, rcv, rcvcur, rcvstat, rcvmore, rx_wrong>>
      BY <1>4 DEF dma_rxfill
    <2>2. RxDist(rxin, rxout) \in 0 .. (NRxd - 1) /\ NRXDACTIVE(rxin, rxout) = RxDist(rxin, rxout)
          /\ RxDist(rxin, rcvcur) \in 0 .. (NRxd - 1)
      BY RxMacros DEF RxTypes
    <2>3. k \in Nat /\ RxDist(rxin, rxout) + k <= NRxPost
      BY <2>1, <2>2 DEF Missing
    <2>4. PICK left \in [RxSlot -> Nat] : LaidOut(left)
      BY <2>1 DEF Giants
    <2>5. ASSUME NEW i \in RxSlot, RxDist(rxin, i) < RxDist(rxin, rcvcur)
          PROVE  rxp'[i] = rxp[i]
      <3>1. RxDist(rxin, i) \in Nat /\ RxDist(rxin, rcvcur) <= RxDist(rxin, rxout)
        BY <2>1, RxMacros DEF RxTypes, RxRing
      <3>2. ~(RxDist(rxin, rxout) <= RxDist(rxin, i))
        BY <2>2, <2>5, <3>1
      <3>3. ~((i - rxout) % NRxd < k)
        BY <2>3, <3>2, FilledRange
      <3> QED
        BY <2>1, <3>3
    <2>6. LaidOut(left)'
      BY <2>1, <2>4, <2>5, ZenonT(40)
      DEF LaidOut, RxDist, RingDist, NEXTRXD, Parts, Fits, RxSlot
    <2> QED
      BY <2>1, <2>6 DEF Giants, RxSkipsGiants
  <1>5. CASE dma_rx
    BY <1>5, GiantsTaken DEF RxSkipsGiants
  <1>6. ASSUME NEW len \in FrameLens, HwRx(len)
        PROVE  Giants' /\ RxSkipsGiants'
    BY <1>6, GiantsWritten DEF HwRx, RxSkipsGiants
  <1> QED
    BY <1>1, <1>2, <1>3, <1>4, <1>5, <1>6, RxHalfSteps

\* dma_rx never hands out the middle of a giant and never frees a frame that
\* fits, for every buffer size, offset, frame length and ring size, and whatever
\* the bytes in the middle of a giant look like, as long as rcvstatus moves on
\* by whole frames: skiplen, which does not outlive the call, is then in step
\* with the chip at every buffer of the walk.
THEOREM HndSkipsGiants ==
  ASSUME StatusPer = "frame"
  PROVE  Spec => []RxSkipsGiants
  <1> DEFINE Inv == HndTypes /\ RxRing /\ Giants /\ RxSkipsGiants
  <1>1. Init => Inv
    BY HndTypesInit, RingsInit DEF Init, Giants, RxSkipsGiants
  <1>2. Inv /\ [Next]_vars => Inv'
    BY HndTypesStep, RxRingStep, GiantsStep DEF HndTypes
  <1> QED
    BY <1>1, <1>2, PTL DEF Spec

-----------------------------------------------------------------------------
(***************************************************************************)
(* The queue of packets.  Collected is a recursive function, and exists    *)
(* for the same reason as SkipLen.                                         *)
(***************************************************************************)
CollectBody(f, s, k) ==
  IF k = 0 THEN << >> ELSE IF f[k] = NULL THEN s[k - 1] ELSE Append(s[k - 1], f[k])

CollectTo(f, n) == \E s : s = [k \in 0 .. n |-> CollectBody(f, s, k)]

LEMMA CollectToNext ==
  ASSUME NEW f, NEW n \in Nat, CollectTo(f, n)
  PROVE  CollectTo(f, n + 1)
  <1>1. PICK s : s = [k \in 0 .. n |-> CollectBody(f, s, k)]
    BY DEF CollectTo
  <1> DEFINE g == [k \in 0 .. (n + 1) |-> IF k = n + 1 THEN CollectBody(f, s, n + 1) ELSE s[k]]
  <1>2. ASSUME NEW k \in 0 .. (n + 1) PROVE g[k] = CollectBody(f, g, k)
    <2>1. CASE k = 0
      <3>1. g[k] = s[k] /\ s[k] = CollectBody(f, s, k)
        BY <1>1, <2>1
      <3> QED
        BY <2>1, <3>1 DEF CollectBody
    <2>2. CASE k # 0
      <3>1. k - 1 \in 0 .. n /\ k - 1 \in 0 .. (n + 1) /\ k - 1 # n + 1
        BY <2>2
      <3>2. g[k - 1] = s[k - 1]
        BY <3>1
      <3>3. g[k] = CollectBody(f, s, k)
        <4>1. CASE k = n + 1
          BY <4>1
        <4>2. CASE k # n + 1
          <5>1. k \in 0 .. n
            BY <4>2
          <5>2. g[k] = s[k]
            BY <4>2
          <5>3. s[k] = CollectBody(f, s, k)
            BY <1>1, <5>1
          <5> QED
            BY <5>2, <5>3
        <4> QED
          BY <4>1, <4>2
      <3> HIDE DEF g
      <3> QED
        BY <3>2, <3>3 DEF CollectBody
    <2> QED
      BY <2>1, <2>2
  <1>3. g = [k \in 0 .. (n + 1) |-> g[k]]
    OBVIOUS
  <1> HIDE DEF g
  <1>4. g = [k \in 0 .. (n + 1) |-> CollectBody(f, g, k)]
    BY <1>2, <1>3
  <1> QED
    BY <1>4 DEF CollectTo

LEMMA CollectToAll ==
  ASSUME NEW f, NEW n \in Nat
  PROVE  CollectTo(f, n)
  <1> DEFINE T == {m \in Nat : ~CollectTo(f, m)}
  <1> SUFFICES ASSUME T # {} PROVE FALSE
    OBVIOUS
  <1>1. PICK m \in T : \A y \in T : m <= y
    BY LeastNat
  <1>2. CASE m = 0
    <2> DEFINE s == [k \in 0 .. 0 |-> << >>]
    <2>1. s = [k \in 0 .. 0 |-> CollectBody(f, s, k)]
      BY DEF CollectBody
    <2>2. CollectTo(f, 0)
      BY <2>1 DEF CollectTo
    <2> QED
      BY <1>2, <2>2
  <1>3. CASE m # 0
    <2>1. m - 1 \in Nat /\ m - 1 \notin T /\ (m - 1) + 1 = m
      BY <1>1, <1>3
    <2>2. CollectTo(f, m - 1)
      BY <2>1
    <2>3. CollectTo(f, m)
      BY <2>1, <2>2, CollectToNext
    <2> QED
      BY <2>3
  <1> QED
    BY <1>2, <1>3

LEMMA CollectedIs ==
  ASSUME NEW f, NEW n \in Nat
  PROVE  /\ Collected(f, n)[0] = << >>
         /\ \A k \in 0 .. (n - 1) : Collected(f, n)[k + 1] =
              IF f[k + 1] = NULL THEN Collected(f, n)[k]
              ELSE Append(Collected(f, n)[k], f[k + 1])
  <1>1. \E s : s = [k \in 0 .. n |-> CollectBody(f, s, k)]
    BY CollectToAll DEF CollectTo
  <1>2. Collected(f, n) = CHOOSE s : s = [k \in 0 .. n |-> CollectBody(f, s, k)]
    BY DEF Collected, CollectBody
  <1> DEFINE c == Collected(f, n)
  <1>3. c = [k \in 0 .. n |-> CollectBody(f, c, k)]
    BY <1>1, <1>2
  <1> HIDE DEF c
  <1>4. c[0] = << >>
    BY <1>3 DEF CollectBody
  <1>5. ASSUME NEW k \in 0 .. (n - 1)
        PROVE  c[k + 1] = IF f[k + 1] = NULL THEN c[k] ELSE Append(c[k], f[k + 1])
    <2>1. k + 1 \in 0 .. n /\ k + 1 # 0 /\ (k + 1) - 1 = k
      OBVIOUS
    <2>2. c[k + 1] = CollectBody(f, c, k + 1)
      BY <1>3, <2>1
    <2> QED
      BY <2>1, <2>2 DEF CollectBody
  <1> QED
    BY <1>4, <1>5 DEF c

\* What is collected is a sequence of packets that are there.
LEMMA CollectedSeq ==
  ASSUME NEW S, NULL \notin S, NEW n \in Nat, NEW f \in [1 .. n -> S \cup {NULL}]
  PROVE  \A k \in 0 .. n :
           /\ Collected(f, n)[k] \in Seq(S) /\ Len(Collected(f, n)[k]) <= k
           /\ \A j \in 1 .. Len(Collected(f, n)[k]) :
                \E i \in 1 .. k : Collected(f, n)[k][j] = f[i]
  <1> DEFINE c == Collected(f, n)
             T == {k \in 0 .. n : /\ c[k] \in Seq(S) /\ Len(c[k]) <= k
                                  /\ \A j \in 1 .. Len(c[k]) : \E i \in 1 .. k : c[k][j] = f[i]}
  <1>1. /\ c[0] = << >>
        /\ \A k \in 0 .. (n - 1) :
             c[k + 1] = IF f[k + 1] = NULL THEN c[k] ELSE Append(c[k], f[k + 1])
    BY CollectedIs
  <1> HIDE DEF c
  <1>2. 0 \in T
    <2>1. << >> \in Seq(S) /\ Len(<< >>) = 0 /\ 0 \in 0 .. n
      OBVIOUS
    <2>2. c[0] \in Seq(S) /\ Len(c[0]) = 0 /\ Len(c[0]) <= 0
      BY <1>1, <2>1
    <2>3. \A j \in 1 .. Len(c[0]) : \E i \in 1 .. 0 : c[0][j] = f[i]
      BY <2>2
    <2> QED
      BY <2>1, <2>2, <2>3
  <1>3. ASSUME NEW k \in 0 .. (n - 1), k \in T PROVE k + 1 \in T
    <2>1. k \in Nat /\ k + 1 \in 0 .. n /\ k + 1 \in 1 .. n
      OBVIOUS
    <2>2. c[k] \in Seq(S) /\ Len(c[k]) <= k
          /\ \A j \in 1 .. Len(c[k]) : \E i \in 1 .. k : c[k][j] = f[i]
      BY <1>3
    <2>3. CASE f[k + 1] = NULL
      <3>1. c[k + 1] = c[k]
        BY <1>1, <2>3
      <3>2. \A j \in 1 .. Len(c[k]) : \E i \in 1 .. (k + 1) : c[k][j] = f[i]
        BY <2>1, <2>2
      <3>3. Len(c[k]) <= k + 1
        BY <2>1, <2>2
      <3> QED
        BY <2>1, <2>2, <3>1, <3>2, <3>3
    <2>4. CASE f[k + 1] # NULL
      <3>1. c[k + 1] = Append(c[k], f[k + 1]) /\ f[k + 1] \in S
        BY <1>1, <2>1, <2>4
      <3>2. c[k + 1] \in Seq(S) /\ Len(c[k + 1]) = Len(c[k]) + 1
        BY <2>2, <3>1
      <3>3. Len(c[k + 1]) <= k + 1
        BY <2>1, <2>2, <3>2
      <3>4. ASSUME NEW j \in 1 .. Len(c[k + 1])
            PROVE  \E i \in 1 .. (k + 1) : c[k + 1][j] = f[i]
        <4>1. CASE j = Len(c[k]) + 1
          <5>1. c[k + 1][j] = f[k + 1] /\ k + 1 \in 1 .. (k + 1)
            BY <2>1, <2>2, <3>1, <4>1
          <5> QED
            BY <5>1
        <4>2. CASE j # Len(c[k]) + 1
          <5>1. j \in 1 .. Len(c[k]) /\ c[k + 1][j] = c[k][j]
            BY <2>2, <3>1, <3>2, <4>2
          <5>2. PICK i \in 1 .. k : c[k][j] = f[i]
            BY <2>2, <5>1
          <5>3. i \in 1 .. (k + 1)
            BY <2>1
          <5> QED
            BY <5>1, <5>2, <5>3
        <4> QED
          BY <4>1, <4>2
      <3> QED
        BY <2>1, <3>2, <3>3, <3>4
    <2> QED
      BY <2>3, <2>4
  <1>4. 0 .. n \subseteq T
    <2> HIDE DEF T
    <2> QED
      BY <1>2, <1>3, UpTo
  <1> QED
    BY <1>4 DEF c

\* g is f with a packet after m - 1 descriptors without one.
Longer(f, n, m, g, l) ==
  /\ m > 0 /\ l = n + m
  /\ \A k \in 1 .. n : g[k] = f[k]
  /\ \A k \in 1 .. (m - 1) : g[n + k] = NULL
  /\ g[l] # NULL

LEMMA CollectedAppend ==
  ASSUME NEW n \in Nat, NEW m \in Nat, NEW l \in Nat, NEW f, NEW g, Longer(f, n, m, g, l)
  PROVE  Collected(g, l)[l] = Append(Collected(f, n)[n], g[l])
  <1> USE DEF Longer
  <1> DEFINE c == Collected(f, n)
             e == Collected(g, l)
             T == {k \in 0 .. n : e[k] = c[k]}
             U == {k \in 0 .. (m - 1) : e[n + k] = c[n]}
  <1>1. /\ c[0] = << >>
        /\ \A k \in 0 .. (n - 1) :
             c[k + 1] = IF f[k + 1] = NULL THEN c[k] ELSE Append(c[k], f[k + 1])
    BY CollectedIs
  <1>2. /\ e[0] = << >>
        /\ \A k \in 0 .. ((n + m) - 1) :
             e[k + 1] = IF g[k + 1] = NULL THEN e[k] ELSE Append(e[k], g[k + 1])
    <2>1. /\ e[0] = << >>
          /\ \A k \in 0 .. (l - 1) :
               e[k + 1] = IF g[k + 1] = NULL THEN e[k] ELSE Append(e[k], g[k + 1])
      BY CollectedIs
    <2> HIDE DEF e
    <2> QED
      BY <2>1
  <1> HIDE DEF c, e
  <1>3. 0 .. n \subseteq T
    <2>1. 0 \in T
      BY <1>1, <1>2
    <2>2. ASSUME NEW k \in 0 .. (n - 1), k \in T PROVE k + 1 \in T
      <3>1. k \in 0 .. ((n + m) - 1) /\ k + 1 \in 1 .. n /\ k + 1 \in 0 .. n
        OBVIOUS
      <3> QED
        BY <1>1, <1>2, <2>2, <3>1
    <2> HIDE DEF T
    <2> QED
      BY <2>1, <2>2, UpTo
  <1>4. e[n] = c[n]
    BY <1>3
  <1>5. 0 .. (m - 1) \subseteq U
    <2>1. 0 \in U
      BY <1>4
    <2>2. ASSUME NEW k \in 0 .. ((m - 1) - 1), k \in U PROVE k + 1 \in U
      <3>1. n + k \in 0 .. ((n + m) - 1) /\ k + 1 \in 1 .. (m - 1) /\ k + 1 \in 0 .. (m - 1)
            /\ (n + k) + 1 = n + (k + 1)
        OBVIOUS
      <3>2. g[(n + k) + 1] = NULL
        BY <3>1
      <3>3. e[(n + k) + 1] = e[n + k]
        BY <1>2, <3>1, <3>2
      <3> QED
        BY <2>2, <3>1, <3>3
    <2>3. m - 1 \in Nat
      OBVIOUS
    <2> HIDE DEF U
    <2> QED
      BY <2>1, <2>2, <2>3, UpTo
  <1>6. e[n + (m - 1)] = c[n]
    BY <1>5
  <1>7. n + (m - 1) \in 0 .. ((n + m) - 1) /\ (n + (m - 1)) + 1 = n + m
    OBVIOUS
  <1>8. e[(n + (m - 1)) + 1] = Append(e[n + (m - 1)], g[(n + (m - 1)) + 1])
    BY <1>2, <1>7
  <1> QED
    BY <1>6, <1>7, <1>8 DEF c, e

\* g is f without its first m descriptors.
Shorter(f, n, m, g, l) ==
  /\ m \in 0 .. n /\ l = n - m
  /\ f \in [1 .. n -> Pkts \cup {NULL}] /\ g \in [1 .. l -> Pkts \cup {NULL}]
  /\ \A k \in 1 .. l : g[k] = f[k + m]

\* What g collects is what f collects without its first elements.
Dropped(f, n, m, g, l) ==
  /\ Len(Collected(f, n)[m]) \in 0 .. Len(Collected(f, n)[n])
  /\ Collected(g, l)[l] =
       SubSeq(Collected(f, n)[n], Len(Collected(f, n)[m]) + 1, Len(Collected(f, n)[n]))

LEMMA CollectedDrop ==
  ASSUME NEW n \in Nat, NEW m \in Nat, NEW l \in Nat, NEW f, NEW g, Shorter(f, n, m, g, l)
  PROVE  Dropped(f, n, m, g, l)
  <1> USE DEF Shorter, Dropped
  <1>0. l = n - m /\ m \in 0 .. n /\ NULL \notin Pkts
    BY HndDmaAssumption
  <1> DEFINE c == Collected(f, n)
             e == Collected(g, l)
             T == {k \in 0 .. l : c[k + m] = c[m] \o e[k]}
  <1>1. \A k \in 0 .. (n - 1) :
          c[k + 1] = IF f[k + 1] = NULL THEN c[k] ELSE Append(c[k], f[k + 1])
    BY CollectedIs
  <1>2. /\ e[0] = << >>
        /\ \A k \in 0 .. (l - 1) :
             e[k + 1] = IF g[k + 1] = NULL THEN e[k] ELSE Append(e[k], g[k + 1])
    BY CollectedIs
  <1>3. \A k \in 0 .. n : c[k] \in Seq(Pkts)
    BY <1>0, CollectedSeq
  <1>4. \A k \in 0 .. l : e[k] \in Seq(Pkts)
    BY <1>0, CollectedSeq
  <1> HIDE DEF c, e
  <1>5. 0 .. l \subseteq T
    <2>1. 0 \in T
      <3>1. c[m] \in Seq(Pkts)
        BY <1>3
      <3>2. c[m] \o << >> = c[m]
        BY <3>1
      <3>3. 0 + m = m /\ 0 \in 0 .. l
        OBVIOUS
      <3> QED
        BY <1>2, <3>2, <3>3
    <2>2. ASSUME NEW k \in 0 .. (l - 1), k \in T PROVE k + 1 \in T
      <3>1. /\ k + m \in 0 .. (n - 1) /\ k + 1 \in 1 .. l /\ k + 1 \in 0 .. l /\ k \in 0 .. l
            /\ (k + m) + 1 = (k + 1) + m /\ m \in 0 .. n /\ (k + 1) + m \in 1 .. n
        BY <1>0
      <3>2. g[k + 1] = f[(k + 1) + m]
        BY <3>1
      <3>3. c[(k + 1) + m] = IF g[k + 1] = NULL THEN c[k + m] ELSE Append(c[k + m], g[k + 1])
        BY <1>1, <3>1, <3>2
      <3>4. c[k + m] = c[m] \o e[k]
        BY <2>2
      <3>5. CASE g[k + 1] = NULL
        BY <1>2, <3>1, <3>3, <3>4, <3>5
      <3>6. CASE g[k + 1] # NULL
        <4>1. e[k + 1] = Append(e[k], g[k + 1]) /\ c[(k + 1) + m] = Append(c[m] \o e[k], g[k + 1])
          BY <1>2, <3>3, <3>4, <3>6
        <4>2. c[m] \in Seq(Pkts) /\ e[k] \in Seq(Pkts) /\ g[k + 1] \in Pkts
          BY <1>0, <1>3, <1>4, <3>1, <3>6
        <4>3. Append(c[m] \o e[k], g[k + 1]) = c[m] \o Append(e[k], g[k + 1])
          <5> DEFINE x == c[m]
                     y == e[k]
                     z == g[k + 1]
          <5>1. x \in Seq(Pkts) /\ y \in Seq(Pkts) /\ z \in Pkts
            BY <4>2
          <5> HIDE DEF x, y, z
          <5>2. Append(x \o y, z) = x \o Append(y, z)
            <6> DEFINE u == Append(x \o y, z)
                       v == x \o Append(y, z)
            <6>1. u \in Seq(Pkts) /\ v \in Seq(Pkts) /\ Len(u) = Len(x) + Len(y) + 1 /\ Len(v) = Len(u)
              BY <5>1
            <6>2. ASSUME NEW j \in 1 .. Len(u) PROVE u[j] = v[j]
              <7>1. Len(x) \in Nat /\ Len(y) \in Nat /\ j \in Nat /\ 1 <= j
                    /\ j <= Len(x) + Len(y) + 1
                BY <5>1, <6>1
              <7>2. CASE j <= Len(x)
                BY <5>1, <7>1, <7>2
              <7>3. CASE j > Len(x) /\ j <= Len(x) + Len(y)
                BY <5>1, <7>1, <7>3
              <7>4. CASE j = Len(x) + Len(y) + 1
                BY <5>1, <7>1, <7>4
              <7> QED
                BY <7>1, <7>2, <7>3, <7>4
            <6> HIDE DEF u, v
            <6>3. u = v
              BY <6>1, <6>2
            <6> QED
              BY <6>3 DEF u, v
          <5> QED
            BY <5>2 DEF x, y, z
        <4> QED
          BY <3>1, <4>1, <4>3
      <3> QED
        BY <3>5, <3>6
    <2> HIDE DEF T
    <2> QED
      BY <2>1, <2>2, UpTo
  <1>6. c[n] = c[m] \o e[l]
    <2>1. l \in 0 .. l /\ l + m = n
      BY <1>0
    <2>2. c[l + m] = c[m] \o e[l]
      BY <1>5, <2>1
    <2> QED
      BY <2>1, <2>2
  <1>7. c[m] \in Seq(Pkts) /\ e[l] \in Seq(Pkts)
    BY <1>3, <1>4
  <1>8. Len(c[m]) \in 0 .. Len(c[n]) /\ e[l] = SubSeq(c[n], Len(c[m]) + 1, Len(c[n]))
    <2> DEFINE x == c[m]
               y == e[l]
    <2>1. x \in Seq(Pkts) /\ y \in Seq(Pkts) /\ c[n] = x \o y
      BY <1>6, <1>7
    <2> HIDE DEF x, y
    <2>2. Len(x) \in 0 .. Len(x \o y) /\ y = SubSeq(x \o y, Len(x) + 1, Len(x \o y))
      BY <2>1, ConcatSub
    <2>3. Len(x) \in 0 .. Len(c[n]) /\ y = SubSeq(c[n], Len(x) + 1, Len(c[n]))
      BY <2>1, <2>2
    <2> QED
      BY <2>3 DEF x, y
  <1> QED
    BY <1>0, <1>8 DEF c, e

\* The ring as such a function.
LEMMA TxSavedIs ==
  ASSUME TxTypes
  PROVE  /\ NTXDACTIVE(txin, txout) = TxDist(txin, txout) /\ TxDist(txin, txout) \in 0 .. (NTxd - 1)
         /\ TxSaved \in [1 .. TxDist(txin, txout) -> Pkts \cup {NULL}]
         /\ \A k \in 1 .. TxDist(txin, txout) :
              /\ RingAt(NTxd, txin, k - 1) \in TxSlot
              /\ TxSaved[k] = txp[RingAt(NTxd, txin, k - 1)]
         /\ TxQueue = Collected(TxSaved, TxDist(txin, txout))[TxDist(txin, txout)]
  <1>1. /\ NTXDACTIVE(txin, txout) = TxDist(txin, txout) /\ TxDist(txin, txout) \in 0 .. (NTxd - 1)
        /\ txin \in TxSlot /\ NTxd \in Nat /\ NTxd > 1
        /\ txp \in [TxSlot -> Pkts \cup {NULL}]
    BY TxMacros, HndDmaAssumption DEF TxTypes
  <1> DEFINE n == TxDist(txin, txout)
  <1>2. TxSaved = [k \in 1 .. n |-> txp[(txin + k - 1) % NTxd]]
    BY <1>1 DEF TxSaved
  <1>3. TxQueue = Collected(TxSaved, n)[n]
    BY <1>1 DEF TxQueue
  <1>4. n \in 0 .. (NTxd - 1)
    BY <1>1
  <1> HIDE DEF n
  <1>5. ASSUME NEW k \in 1 .. n
        PROVE  /\ RingAt(NTxd, txin, k - 1) \in TxSlot
               /\ (txin + k - 1) % NTxd = RingAt(NTxd, txin, k - 1)
    <2>1. k - 1 \in 0 .. (NTxd - 1) /\ txin + k - 1 = txin + (k - 1)
      BY <1>1, <1>4 DEF TxSlot
    <2>2. /\ (txin + (k - 1)) % NTxd = RingAt(NTxd, txin, k - 1)
          /\ (txin + (k - 1)) % NTxd \in TxSlot
      BY <1>1, <2>1, TxStep
    <2> QED
      BY <2>1, <2>2
  <1>6. \A k \in 1 .. n : TxSaved[k] = txp[RingAt(NTxd, txin, k - 1)]
    BY <1>2, <1>5
  <1>7. TxSaved \in [1 .. n -> Pkts \cup {NULL}]
    BY <1>1, <1>2, <1>5
  <1> QED
    BY <1>1, <1>3, <1>5, <1>6, <1>7 DEF n

\* A new packet at the end.
LEMMA QueueTakes ==
  ASSUME 0 \notin Needs, TxTypes, TxTypes', TxRing, NEW p \in Pkts, NEW c \in Chains,
         TxCalled(p), TxPost(p, c), ~NoRoom(c) \/ ~NoRoomFast(c)
  PROVE  Queue!Take(p)
  <1> USE HndDmaAssumption
  <1> DEFINE out == (txout + c.n) % NTxd
             last == PREVTXD(out)
  <1>1. /\ c.n \in 1 .. TxFree
        /\ txout' = out /\ txp' = [txp EXCEPT ![last] = p] /\ txin' = txin
    BY PostIs
  <1>2. /\ out \in TxSlot /\ last \in TxSlot
        /\ TxDist(txin, out) = TxDist(txin, txout) + c.n
        /\ TxDist(txin, last) = TxDist(txin, txout) + c.n - 1
    BY <1>1, PostedEnd
  <1> HIDE DEF out, last
  <1>3. PICK n \in Nat, m \in Nat, f \in {TxSaved}, g \in {TxSaved'} :
          /\ n = TxDist(txin, txout) /\ m = c.n
          /\ f = TxSaved /\ g = TxSaved'
    BY <1>1, TxSavedIs
  <1>4. /\ m > 0 /\ n + m <= NTxd - 1 /\ n + m = TxDist(txin, txout')
        /\ txin \in TxSlot /\ NTxd \in Nat
    BY <1>1, <1>2, <1>3, TxFreeIs DEF TxTypes
  <1>5. /\ f \in [1 .. n -> Pkts \cup {NULL}]
        /\ TxQueue = Collected(f, n)[n]
        /\ \A k \in 1 .. n : /\ RingAt(NTxd, txin, k - 1) \in TxSlot
                             /\ f[k] = txp[RingAt(NTxd, txin, k - 1)]
    BY <1>3, TxSavedIs
  <1>6. /\ TxQueue' = Collected(g, n + m)[n + m]
        /\ \A k \in 1 .. (n + m) : /\ RingAt(NTxd, txin, k - 1) \in TxSlot
                                   /\ g[k] = txp'[RingAt(NTxd, txin, k - 1)]
    <2>1. /\ NTXDACTIVE(txin', txout') = n + m
      BY <1>1, <1>4, TxMacros DEF TxTypes
    <2>2. TxQueue' = Collected(g, n + m)[n + m]
      BY <1>3, <2>1 DEF TxQueue
    <2>3. g = [k \in 1 .. (n + m) |-> txp'[(txin' + k - 1) % NTxd]]
      BY <1>3, <2>1 DEF TxSaved
    <2>4. ASSUME NEW k \in 1 .. (n + m)
          PROVE  /\ RingAt(NTxd, txin, k - 1) \in TxSlot
                 /\ (txin + k - 1) % NTxd = RingAt(NTxd, txin, k - 1)
      <3>1. k - 1 \in 0 .. (NTxd - 1) /\ txin + k - 1 = txin + (k - 1)
        BY <1>4 DEF TxSlot
      <3>2. /\ (txin + (k - 1)) % NTxd = RingAt(NTxd, txin, k - 1)
            /\ (txin + (k - 1)) % NTxd \in TxSlot
        BY <1>4, <3>1, TxStep
      <3> QED
        BY <3>1, <3>2
    <2> QED
      BY <1>1, <2>2, <2>3, <2>4
  <1>7. ASSUME NEW k \in 1 .. (n + m)
        PROVE  /\ TxDist(txin, RingAt(NTxd, txin, k - 1)) = k - 1
               /\ RingAt(NTxd, txin, k - 1) = last <=> k = n + m
    <2>1. k - 1 \in 0 .. (NTxd - 1)
      BY <1>4
    <2>2. TxDist(txin, RingAt(NTxd, txin, k - 1)) = k - 1
      BY <1>4, <2>1, RingDistAt DEF TxSlot, TxDist
    <2>3. last = RingAt(NTxd, txin, TxDist(txin, last))
      BY <1>2, <1>4, RingDistAt DEF TxSlot, TxDist
    <2>4. TxDist(txin, last) = (n + m) - 1
      BY <1>2, <1>3
    <2> QED
      BY <1>4, <2>2, <2>3, <2>4
  <1>8. ASSUME NEW k \in 1 .. (n + m), k # n + m
        PROVE  g[k] = txp[RingAt(NTxd, txin, k - 1)]
    BY <1>1, <1>6, <1>7, <1>8 DEF TxTypes
  <1>9. g[n + m] = p
    <2>1. n + m \in 1 .. (n + m)
      BY <1>4
    <2>2. RingAt(NTxd, txin, (n + m) - 1) = last
      BY <1>7, <2>1
    <2> QED
      BY <1>1, <1>2, <1>6, <2>1, <2>2 DEF TxTypes
  <1>10. \A k \in 1 .. n : g[k] = f[k]
    <2> SUFFICES ASSUME NEW k \in 1 .. n PROVE g[k] = f[k]
      OBVIOUS
    <2>1. k \in 1 .. (n + m) /\ k # n + m
      BY <1>4
    <2> QED
      BY <1>5, <1>8, <2>1
  <1>11. \A k \in 1 .. (m - 1) : g[n + k] = NULL
    <2> SUFFICES ASSUME NEW k \in 1 .. (m - 1) PROVE g[n + k] = NULL
      OBVIOUS
    <2>1. n + k \in 1 .. (n + m) /\ n + k # n + m
      BY <1>4
    <2>2. g[n + k] = txp[RingAt(NTxd, txin, (n + k) - 1)]
      BY <1>8, <2>1
    <2>3. TxDist(txin, RingAt(NTxd, txin, (n + k) - 1)) = (n + k) - 1
          /\ RingAt(NTxd, txin, (n + k) - 1) \in TxSlot
      BY <1>6, <1>7, <2>1
    <2>4. ~(TxDist(txin, RingAt(NTxd, txin, (n + k) - 1)) < TxDist(txin, txout))
      BY <1>3, <2>3
    <2> QED
      BY <2>2, <2>3, <2>4 DEF TxRing
  <1>12. p # NULL /\ p \notin {txp[i] : i \in TxSlot}
    BY DEF TxCalled
  <1>13. Collected(g, n + m)[n + m] = Append(Collected(f, n)[n], g[n + m])
    <2>1. PICK l \in Nat : l = n + m
      BY <1>4
    <2>2. g[l] # NULL
      BY <1>9, <1>12, <2>1
    <2>3. Collected(g, l)[l] = Append(Collected(f, n)[n], g[l])
      <3>1. Longer(f, n, m, g, l)
        BY <1>4, <1>10, <1>11, <2>1, <2>2 DEF Longer
      <3> QED
        BY <3>1, CollectedAppend
    <2> QED
      BY <2>1, <2>3
  <1>14. TxQueue' = Append(TxQueue, p)
    BY <1>5, <1>6, <1>9, <1>13
  <1>15. /\ TxQueue \in Seq(Pkts) /\ Len(TxQueue) <= n
         /\ \A j \in 1 .. Len(TxQueue) : \E i \in 1 .. n : TxQueue[j] = f[i]
    <2>1. n \in 0 .. n
      BY <1>3
    <2> QED
      BY <1>5, <2>1, CollectedSeq, SMTT(30)
  <1>16. Len(TxQueue) < NTxd - 1
    <2>1. Len(TxQueue) \in Nat
      BY <1>15
    <2> QED
      BY <1>4, <1>15, <2>1
  <1>17. \A i \in 1 .. Len(TxQueue) : TxQueue[i] # p
    <2> SUFFICES ASSUME NEW j \in 1 .. Len(TxQueue), TxQueue[j] = p PROVE FALSE
      OBVIOUS
    <2>1. PICK i \in 1 .. n : TxQueue[j] = f[i]
      BY <1>15
    <2>2. RingAt(NTxd, txin, i - 1) \in TxSlot /\ txp[RingAt(NTxd, txin, i - 1)] = p
      BY <1>5, <2>1
    <2> QED
      BY <1>12, <2>2
  <1> QED
    BY <1>14, <1>16, <1>17 DEF Queue!Take

\* Descriptors taken back from the front.
LEMMA QueueGives ==
  ASSUME TxTypes, NEW end \in TxSlot, TxDist(txin, end) <= TxDist(txin, txout), ReclaimTo(end)
  PROVE  (\E n \in 1 .. Len(TxQueue) : Queue!Complete(n)) \/ TxQueue' = TxQueue
  <1> USE HndDmaAssumption
  <1>1. /\ txin' = end /\ txout' = txout /\ txin \in TxSlot /\ txout \in TxSlot
        /\ NTxd \in Nat /\ NTxd > 1
    BY DEF ReclaimTo, TxTypes
  <1>2. TxDist(end, txout) = TxDist(txin, txout) - TxDist(txin, end)
    BY ReclaimedRing
  <1>3. TxDist(txin, end) \in 0 .. (NTxd - 1) /\ TxDist(txin, txout) \in 0 .. (NTxd - 1)
    BY <1>1, TxMacros
  <1>4. PICK n \in Nat, m \in Nat, f \in {TxSaved}, g \in {TxSaved'} :
          /\ n = TxDist(txin, txout) /\ m = TxDist(txin, end) /\ m \in 0 .. n
          /\ f = TxSaved /\ g = TxSaved'
    BY <1>3
  <1>5. /\ f \in [1 .. n -> Pkts \cup {NULL}]
        /\ TxQueue = Collected(f, n)[n]
        /\ \A k \in 1 .. n : /\ RingAt(NTxd, txin, k - 1) \in TxSlot
                             /\ f[k] = txp[RingAt(NTxd, txin, k - 1)]
    BY <1>4, TxSavedIs
  <1>6. /\ TxQueue' = Collected(g, n - m)[n - m]
        /\ g = [k \in 1 .. (n - m) |-> txp'[(end + k - 1) % NTxd]]
    <2>1. NTXDACTIVE(txin', txout') = n - m
      BY <1>1, <1>2, <1>4, TxMacros
    <2>2. TxQueue' = Collected(g, n - m)[n - m]
      BY <1>4, <2>1 DEF TxQueue
    <2>3. g = [k \in 1 .. (n - m) |-> txp'[(txin' + k - 1) % NTxd]]
      BY <1>4, <2>1 DEF TxSaved
    <2> QED
      BY <1>1, <2>2, <2>3
  <1>7. ASSUME NEW k \in 1 .. (n - m) PROVE g[k] = f[k + m]
    <2>1. /\ k - 1 \in 0 .. (NTxd - 1) /\ k + m \in 1 .. n /\ (k + m) - 1 \in 0 .. (NTxd - 1)
          /\ end + k - 1 = end + (k - 1) /\ k \in Nat /\ m \in Nat /\ n <= NTxd - 1
      BY <1>1, <1>3, <1>4 DEF TxSlot
    <2> DEFINE i == RingAt(NTxd, txin, (k + m) - 1)
    <2>2. i \in TxSlot /\ f[k + m] = txp[i] /\ TxDist(txin, i) = (k + m) - 1
      <3>1. i \in TxSlot /\ f[k + m] = txp[i]
        BY <1>5, <2>1
      <3>2. TxDist(txin, i) = (k + m) - 1
        BY <1>1, <2>1, RingDistAt DEF TxSlot, TxDist
      <3> QED
        BY <3>1, <3>2
    <2>3. (end + (k - 1)) % NTxd = RingAt(NTxd, end, k - 1)
      BY <2>1, TxStep
    <2> HIDE DEF i
    <2>4. TxDist(txin, end) <= TxDist(txin, i) /\ ~(TxDist(txin, i) < TxDist(txin, end))
      BY <1>4, <2>1, <2>2
    <2>5. txp'[i] = txp[i] /\ TxDist(end, i) = TxDist(txin, i) - TxDist(txin, end)
      BY <2>2, <2>4, ReclaimedRing
    <2>6. TxDist(end, i) = k - 1
      BY <1>4, <2>1, <2>2, <2>5
    <2>7. i = RingAt(NTxd, end, k - 1)
      BY <1>1, <2>2, <2>6, RingDistAt DEF TxSlot, TxDist
    <2> QED
      BY <1>6, <2>1, <2>2, <2>3, <2>5, <2>7
  <1>8. g \in [1 .. (n - m) -> Pkts \cup {NULL}]
    <2>1. ASSUME NEW k \in 1 .. (n - m) PROVE g[k] \in Pkts \cup {NULL}
      <3>1. k + m \in 1 .. n
        OBVIOUS
      <3> QED
        BY <1>5, <1>7, <3>1
    <2> QED
      BY <1>6, <2>1
  <1>9. /\ Len(Collected(f, n)[m]) \in 0 .. Len(Collected(f, n)[n])
        /\ Collected(g, n - m)[n - m] =
             SubSeq(Collected(f, n)[n], Len(Collected(f, n)[m]) + 1, Len(Collected(f, n)[n]))
    <2>1. PICK l \in Nat : l = n - m
      BY <1>4
    <2>2. g \in [1 .. l -> Pkts \cup {NULL}] /\ (\A k \in 1 .. l : g[k] = f[k + m])
          /\ NULL \notin Pkts /\ m \in 0 .. n
      BY <1>4, <1>7, <1>8, <2>1
    <2>3. /\ Len(Collected(f, n)[m]) \in 0 .. Len(Collected(f, n)[n])
          /\ Collected(g, l)[l] =
               SubSeq(Collected(f, n)[n], Len(Collected(f, n)[m]) + 1, Len(Collected(f, n)[n]))
      <3>1. Shorter(f, n, m, g, l)
        BY <1>5, <2>1, <2>2 DEF Shorter
      <3>2. n \in Nat /\ m \in Nat /\ l \in Nat
        BY <1>4, <2>1
      <3>3. Dropped(f, n, m, g, l)
        BY <3>1, <3>2, CollectedDrop
      <3> QED
        BY <3>3 DEF Dropped
    <2> QED
      BY <2>1, <2>3
  <1>10. PICK j \in 0 .. Len(TxQueue) : TxQueue' = SubSeq(TxQueue, j + 1, Len(TxQueue))
    BY <1>5, <1>6, <1>9
  <1>11. TxQueue \in Seq(Pkts)
    <2>1. n \in 0 .. n
      BY <1>4
    <2> QED
      BY <1>5, <2>1, CollectedSeq
  <1>12. CASE j = 0
    BY <1>10, <1>11, <1>12
  <1>13. CASE j # 0
    <2>1. j \in 1 .. Len(TxQueue)
      BY <1>11, <1>13
    <2>2. Queue!Complete(j)
      BY <1>10 DEF Queue!Complete
    <2> QED
      BY <2>1, <2>2
  <1> QED
    BY <1>12, <1>13

\* An empty ring is an empty queue.
LEMMA QueueEmpty ==
  TxTypes /\ txin = txout => TxQueue = << >>
  <1> SUFFICES ASSUME TxTypes, txin = txout PROVE TxQueue = << >>
    OBVIOUS
  <1>1. TxDist(txin, txout) = 0 /\ 0 \in Nat
    BY TxMacros DEF TxTypes
  <1>2. TxQueue = Collected(TxSaved, 0)[0]
    BY <1>1, TxSavedIs
  <1> QED
    BY <1>1, <1>2, CollectedIs

LEMMA QueueStep ==
  ASSUME 0 \notin Needs, TxTypes, TxTypes', TxRing, [Next]_vars
  PROVE  [Queue!Next]_TxQueue
  <1>1. CASE UNCHANGED <<txin, txout, txp>>
    BY <1>1 DEF TxQueue, TxSaved, NTXDACTIVE
  <1>2. CASE dma_detach \/ dma_txinit
    <2>1. txin = txout /\ txin' = txout'
      BY <1>2 DEF dma_detach, dma_txinit, TxRing
    <2>2. TxQueue = << >>
      BY <2>1, QueueEmpty
    <2>3. TxQueue' = << >>
      <3>1. NTXDACTIVE(txin', txout') = 0 /\ 0 \in Nat
        BY <2>1, TxMacros DEF TxTypes
      <3>2. PICK g : g = TxSaved'
        OBVIOUS
      <3>3. TxQueue' = Collected(g, 0)[0]
        BY <3>1, <3>2 DEF TxQueue
      <3> QED
        BY <3>1, <3>3, CollectedIs
    <2> QED
      BY <2>2, <2>3
  <1>3. ASSUME NEW p \in Pkts, NEW c \in Chains, dma_txfast(p, c) \/ dma_tx(p, c)
        PROVE  [Queue!Next]_TxQueue
    <2>1. CASE TxRefuse(c)
      BY <1>1, <2>1 DEF TxRefuse
    <2>2. CASE TxPost(p, c) /\ (~NoRoom(c) \/ ~NoRoomFast(c))
      <3>1. Queue!Take(p)
        BY <1>3, <2>2, TxCallIs, QueueTakes
      <3> QED
        BY <3>1 DEF Queue!Next
    <2> QED
      BY <1>3, <2>1, <2>2, TxCallIs
  <1>4. ASSUME NEW f \in BOOLEAN, dma_getnexttxp(f) \/ dma_txreclaim(f)
        PROVE  [Queue!Next]_TxQueue
    <2>1. PICK end \in TxSlot :
            ReclaimTo(end) /\ TxDist(txin, end) <= TxDist(txin, TxEnd(f))
      BY <1>4, ReclaimIs
    <2>2. ReclaimCalled(f)
      BY <1>4, ReclaimIs
    <2>3. /\ TxDist(txin, TxEnd(f)) <= TxDist(txin, txout)
          /\ TxDist(txin, TxEnd(f)) \in Nat /\ TxDist(txin, end) \in Nat /\ TxDist(txin, txout) \in Nat
      BY <2>2, ReclaimEnd, TxMacros, HndDmaAssumption DEF TxTypes, TxEnd
    <2>4. TxDist(txin, end) <= TxDist(txin, txout)
      BY <2>1, <2>3
    <2>5. (\E n \in 1 .. Len(TxQueue) : Queue!Complete(n)) \/ TxQueue' = TxQueue
      BY <2>1, <2>4, QueueGives
    <2> QED
      BY <2>5 DEF Queue!Next
  <1>5. CASE dma_txsuspend \/ dma_txresume \/ dma_txreset \/ dma_txblock \/ dma_txunblock \/ HwTx
    BY <1>1, <1>5 DEF dma_txsuspend, dma_txresume, dma_txreset, XmtDisabled, dma_txblock, dma_txunblock, HwTx, ringtx
  <1>6. CASE UNCHANGED txvars
    BY <1>1, <1>6 DEF txvars, ringtx
  <1> QED
    BY <1>2, <1>3, <1>4, <1>5, <1>6, TxHalfSteps

\* The transmit ring implements the bounded first-in first-out queue of
\* PacketQueue, for every ring size and every chain of at least one descriptor:
\* a packet that dma_tx or dma_txfast took leaves after every packet taken
\* before it, through dma_getnexttxp or dma_txreclaim, and never twice.
THEOREM HndImplementsQueue ==
  ASSUME 0 \notin Needs
  PROVE  Spec => HndFifo
  <1> DEFINE Inv == HndTypes /\ TxRing
  <1>1. Init => Inv /\ Queue!Init
    <2>1. Init => Inv
      BY HndTypesInit, RingsInit
    <2>2. Init => TxQueue = << >>
      BY HndTypesInit, QueueEmpty DEF Init, HndTypes
    <2> QED
      BY <2>1, <2>2 DEF Queue!Init
  <1>2. Inv /\ [Next]_vars => Inv'
    BY HndTypesStep, TxRingStep DEF HndTypes
  <1>3. Inv /\ Inv' /\ [Next]_vars => [Queue!Next]_TxQueue
    BY QueueStep DEF HndTypes
  <1> QED
    BY <1>1, <1>2, <1>3, PTL DEF Spec, HndFifo, Queue!Spec
=============================================================================
