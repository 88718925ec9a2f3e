------------------------------- MODULE HndDma -------------------------------
(***************************************************************************)
(* The Broadcom DMA library (hnddma.c): a transmit ring that takes chains  *)
(* of buffers, several descriptors to a packet, and a receive ring that    *)
(* skips frames too long for one buffer.  Its callers are not in the tree; *)
(* they are held to the order the library's comments and ASSERTs ask for:  *)
(* init, use, reset, reclaim, and only then init or detach again.          *)
(***************************************************************************)
EXTENDS Integers, Sequences, FiniteSets

CONSTANTS
  NULL,
  NTxd, NRxd,     \* ring sizes, powers of two in the library
  NRxPost,        \* receive buffers to keep posted
  BufSize,        \* rxbufsize, in units of the smallest frame
  RxOffset,       \* rxoffset: where the frame starts in its first buffer
  FrameLens,      \* the frame lengths on the wire
  Pkts,           \* the packets the caller may send
  Needs,          \* how many descriptors a packet's buffers may need
  Holes,          \* which ends of a chain may be an empty buffer
  Channels,       \* what dma_attach is asked for: the rings with descriptors
  StatusPer       \* rcvstatus moves on by "frame" or by "descriptor"

ASSUME HndDmaAssumption ==
  /\ NTxd \in Nat \ {0, 1} /\ NRxd \in Nat \ {0, 1}
  /\ NRxPost \in 0 .. (NRxd - 1)
  /\ BufSize \in Nat /\ RxOffset \in 0 .. (BufSize - 1)
  /\ FrameLens \subseteq Nat
  /\ NULL \notin Pkts
  /\ Needs \subseteq Nat
  /\ Holes \subseteq {"head", "tail"}
  /\ Channels \subseteq (SUBSET {"tx", "rx"} \ {{}})
  /\ StatusPer \in {"frame", "descriptor"}

VARIABLES
  chan,           \* the rings dma_attach gave out; {} after dma_detach
  assert_failed,  \* an ASSERT of the library was false
  txin, txout,    \* di->txin, di->txout: oldest and next transmit descriptor
  txavail,        \* di->txavail, the caller's flow control
  txp,            \* di->txp[]: the packet, at its last descriptor
  txd,            \* the descriptors: SOF and EOF, NULL when the address is dead
  xmt,            \* "down" (reclaimed), "on", "suspended" or "reset"
  xmtptr, xmtcur, \* the chip's end of the posted descriptors, and its current one
  rxin, rxout,    \* di->rxin, di->rxout
  rxp,            \* di->rxp[]: what the posted buffer holds, NULL if none
  rcv,            \* "down", "on" or "reset"
  rcvptr,         \* the chip's end of the posted buffers
  rcvcur,         \* the descriptor the chip writes next
  rcvstat,        \* the current descriptor as rcvstatus shows it
  rcvmore,        \* descriptors the frame being received still needs
  rx_wrong        \* what dma_rx did wrong so far: "middle" returned, "frame" dropped

ringtx == <<txin, txout, txavail, txp, txd, xmtptr, xmtcur>>
txvars == <<ringtx, xmt>>
ringrx == <<rxin, rxout, rxp, rcvptr, rcvcur, rcvstat, rcvmore, rx_wrong>>
rxvars == <<ringrx, rcv>>
vars == <<chan, assert_failed, txvars, rxvars>>

TxSlot == 0 .. (NTxd - 1)
RxSlot == 0 .. (NRxd - 1)

\* (A definition whose name begins with "Mut" is a mutation of the definition
\* that follows it: what a plausible slip in that code would have written.)
MutNEXTTXD(i) == i + 1

NEXTTXD(i) == (i + 1) % NTxd
PREVTXD(i) == (i - 1) % NTxd
NEXTRXD(i) == (i + 1) % NRxd
NTXDACTIVE(h, t) == (t - h) % NTxd
NRXDACTIVE(h, t) == (t - h) % NRxd

TxFree == NTxd - NTXDACTIVE(txin, txout) - 1

\* A chain of buffers, by what the walk over it can tell: how many descriptors
\* it needs, and whether its first or its last buffer is empty.  (A descriptor
\* is a non-empty buffer to dma_txfast, and a page of one to dma_tx.)
Chains == [n : Needs, empty : SUBSET Holes]

\* What a receive buffer holds: the start of a frame, with its length in front,
\* or a later part, where the same bytes are payload and may look like any
\* length.  dma_rxfill clears them.
Buffers == [start : BOOLEAN, len : FrameLens \cup {0}]
Cleared == [start |-> FALSE, len |-> 0]

ASSUME NullAssumption == NULL \notin Buffers /\ NULL \notin [sof : BOOLEAN, eof : BOOLEAN]

Init ==
  /\ chan = {} /\ assert_failed = FALSE
  /\ txin = 0 /\ txout = 0 /\ txavail = 0
  /\ txp = [i \in TxSlot |-> NULL] /\ txd = [i \in TxSlot |-> NULL]
  /\ xmt = "down" /\ xmtptr = 0 /\ xmtcur = 0
  /\ rxin = 0 /\ rxout = 0
  /\ rxp = [i \in RxSlot |-> NULL]
  /\ rcv = "down" /\ rcvptr = 0 /\ rcvcur = 0 /\ rcvstat = 0 /\ rcvmore = 0
  /\ rx_wrong = {}

\* dma_attach gives a cleared structure.  (When an allocation fails it undoes
\* itself, and nothing has changed.)
dma_attach(rings) ==
  /\ chan = {} /\ chan' = rings
  /\ UNCHANGED <<assert_failed, txvars, rxvars>>

\* "shouldn't be here if descriptors are unreclaimed".  The structure is freed,
\* and with it everything the library knew; the chip's registers stay.
dma_detach ==
  /\ chan # {} /\ xmt = "down" /\ rcv = "down"
  /\ chan' = {}
  /\ assert_failed' = (assert_failed \/ txin # txout \/ rxin # rxout)
  /\ txin' = 0 /\ txout' = 0 /\ txavail' = 0
  /\ txp' = [i \in TxSlot |-> NULL] /\ txd' = [i \in TxSlot |-> NULL]
  /\ rxin' = 0 /\ rxout' = 0 /\ rxp' = [i \in RxSlot |-> NULL]
  /\ UNCHANGED <<xmt, xmtptr, xmtcur, rcv, rcvptr, rcvcur, rcvstat, rcvmore, rx_wrong>>

-----------------------------------------------------------------------------
\* Transmit.

\* What the library relies on and does not write: an engine that is disabled
\* forgets where it was, and is at descriptor 0 with nothing posted.
XmtDisabled == xmt' = "reset" /\ xmtptr' = 0 /\ xmtcur' = 0
RcvDisabled == rcv' = "reset" /\ rcvptr' = 0 /\ rcvcur' = 0 /\ rcvstat' = 0 /\ rcvmore' = 0

dma_txinit ==
  /\ "tx" \in chan /\ xmt = "down"
  /\ txin' = 0 /\ txout' = 0 /\ txavail' = NTxd - 1
  /\ txd' = [i \in TxSlot |-> NULL]
  /\ xmt' = "on"
  /\ UNCHANGED <<chan, assert_failed, txp, xmtptr, xmtcur, rxvars>>

dma_txsuspend == xmt = "on" /\ xmt' = "suspended" /\ UNCHANGED <<chan, assert_failed, ringtx, rxvars>>
dma_txresume == xmt = "suspended" /\ xmt' = "on" /\ UNCHANGED <<chan, assert_failed, ringtx, rxvars>>

\* The engine stops within the two waits of 10 ms.
dma_txreset ==
  /\ xmt \in {"on", "suspended"}
  /\ XmtDisabled
  /\ UNCHANGED <<chan, assert_failed, txin, txout, txavail, txp, txd, rxvars>>

\* The first k descriptors after txout, as the walk writes them.  EOF is on
\* the last one only if the walk reached the end of the chain.
Filled(c, k, whole) ==
  [i \in TxSlot |->
     LET d == (i - txout) % NTxd IN
     IF d < k THEN [sof |-> d = 0 /\ "head" \notin c.empty, eof |-> whole /\ d = c.n - 1]
              ELSE txd[i]]

\* ASSERT(di->txp[txout] == NULL), at each descriptor written.
AssertFree(k) ==
  assert_failed' = (assert_failed \/
                    \E i \in TxSlot : (i - txout) % NTxd < k /\ txp[i] # NULL)

\* (txavail is not brought up to date)
MutTxPost(p, c) ==
  LET out == (txout + c.n) % NTxd IN
  /\ txd' = Filled(c, c.n, TRUE)
  /\ txp' = [txp EXCEPT ![PREVTXD(out)] = p]
  /\ txout' = out /\ xmtptr' = out
  /\ AssertFree(c.n)
  /\ UNCHANGED <<chan, txin, txavail, xmt, xmtcur, rxvars>>

\* The whole chain fits: save the packet at its last descriptor, kick the chip.
\* A chain of empty buffers has no descriptor of its own and takes the one
\* before, whose control word becomes EOF alone.
TxPost(p, c) ==
  LET out == (txout + c.n) % NTxd
      last == PREVTXD(out)
      filled == Filled(c, c.n, TRUE)
  IN
  /\ txd' = IF c.n > 0 \/ txd[last] = NULL THEN filled
            ELSE [filled EXCEPT ![last] = [sof |-> FALSE, eof |-> TRUE]]
  /\ txp' = [txp EXCEPT ![last] = p]
  /\ txout' = out /\ xmtptr' = out
  /\ txavail' = NTxd - NTXDACTIVE(txin, out) - 1
  /\ AssertFree(c.n)
  /\ UNCHANGED <<chan, txin, xmt, xmtcur, rxvars>>

\* (the chip is told of each descriptor as it is written)
MutTxRefuse(c) ==
  /\ txd' = Filled(c, TxFree, FALSE)
  /\ txavail' = 0 /\ xmtptr' = (txout + TxFree) % NTxd
  /\ AssertFree(TxFree)
  /\ UNCHANGED <<chan, txin, txout, txp, xmt, xmtcur, rxvars>>

\* outoftxd: the packet is freed.  The descriptors written so far stay, past
\* txout, and the chip is not told of them.
TxRefuse(c) ==
  /\ txd' = Filled(c, TxFree, FALSE)
  /\ txavail' = 0
  /\ AssertFree(TxFree)
  /\ UNCHANGED <<chan, txin, txout, txp, xmt, xmtptr, xmtcur, rxvars>>

\* dma_txfast looks for a descriptor at every buffer, empty or not.
MutNoRoomFast(c) == c.n > TxFree + 1

NoRoomFast(c) == c.n > TxFree \/ (c.n = TxFree /\ "tail" \in c.empty)

\* dma_tx only at each page it is about to send.
NoRoom(c) == c.n > TxFree

TxCalled(p) ==
  /\ xmt \in {"on", "suspended"}
  /\ p \in Pkts \ {txp[i] : i \in TxSlot}

dma_txfast(p, c) ==
  /\ TxCalled(p)
  /\ IF NoRoomFast(c) THEN TxRefuse(c) ELSE TxPost(p, c)

dma_tx(p, c) ==
  /\ TxCalled(p)
  /\ IF NoRoom(c) THEN TxRefuse(c) ELSE TxPost(p, c)

\* Take back the descriptors from txin up to, but not including, end.
ReclaimTo(end) ==
  LET back(i) == (i - txin) % NTxd < NTXDACTIVE(txin, end) IN
  /\ txp' = [i \in TxSlot |-> IF back(i) THEN NULL ELSE txp[i]]
  /\ txd' = [i \in TxSlot |-> IF back(i) THEN NULL ELSE txd[i]]
  /\ txin' = end
  /\ txavail' = NTxd - NTXDACTIVE(end, txout) - 1
  /\ UNCHANGED <<chan, assert_failed, txout, xmtptr, xmtcur, rxvars>>

\* How far a reclaim may go.  Forcing ignores the chip, which must be stopped.
ReclaimCalled(forceall) ==
  xmt \in IF forceall THEN {"reset"} ELSE {"on", "suspended"}

TxEnd(forceall) == IF forceall THEN txout ELSE xmtcur

Bogus(end) == txin = 0 /\ end > txout

\* dma_getnexttxp stops after the first packet; a packet the chip has not
\* finished loses the descriptors that are done, and stays.
dma_getnexttxp(forceall) ==
  LET end == TxEnd(forceall)
      d == NTXDACTIVE(txin, end)
      packets == {k \in 0 .. (d - 1) : txp[(txin + k) % NTxd] # NULL}
      first == CHOOSE k \in packets : \A l \in packets : k <= l
  IN
  /\ ReclaimCalled(forceall)
  /\ ~Bogus(end)
  /\ ReclaimTo(IF packets = {} THEN end ELSE (txin + first + 1) % NTxd)
  /\ xmt' = xmt

\* dma_txreclaim repeats it until there is no packet left.
dma_txreclaim(forceall) ==
  /\ ReclaimCalled(forceall)
  /\ ~Bogus(TxEnd(forceall))
  /\ ReclaimTo(TxEnd(forceall))
  /\ xmt' = IF forceall THEN "down" ELSE xmt

dma_txblock ==
  /\ xmt \in {"on", "suspended"}
  /\ txavail' = 0
  /\ UNCHANGED <<chan, assert_failed, txin, txout, txp, txd, xmtptr, xmtcur, xmt, rxvars>>

dma_txunblock ==
  /\ xmt \in {"on", "suspended"}
  /\ txavail' = TxFree
  /\ UNCHANGED <<chan, assert_failed, txin, txout, txp, txd, xmtptr, xmtcur, xmt, rxvars>>

\* The chip sends from its current descriptor, up to the posted pointer.
HwTx ==
  /\ xmt = "on"
  /\ xmtcur # xmtptr
  /\ xmtcur' = NEXTTXD(xmtcur)
  /\ UNCHANGED <<chan, assert_failed, txin, txout, txavail, txp, txd, xmtptr, xmt, rxvars>>

-----------------------------------------------------------------------------
\* Receive.

dma_rxinit ==
  /\ "rx" \in chan /\ rcv = "down"
  /\ rxin' = 0 /\ rxout' = 0
  /\ rcv' = "on"
  /\ UNCHANGED <<chan, assert_failed, rxp, rcvptr, rcvcur, rcvstat, rcvmore, rx_wrong, txvars>>

dma_rxreset ==
  /\ rcv = "on"
  /\ RcvDisabled
  /\ UNCHANGED <<chan, assert_failed, rxin, rxout, rxp, rx_wrong, txvars>>

\* Post k of the n = nrxpost - active missing buffers: PKTGET may fail.
MutMissing == NRxd - NRXDACTIVE(rxin, rxout)

Missing == NRxPost - NRXDACTIVE(rxin, rxout)

dma_rxfill(k) ==
  LET new(i) == (i - rxout) % NRxd < k IN
  /\ rcv = "on"
  /\ k \in 0 .. Missing
  /\ assert_failed' = (assert_failed \/ \E i \in RxSlot : new(i) /\ rxp[i] # NULL)
  /\ rxp' = [i \in RxSlot |-> IF new(i) THEN Cleared ELSE rxp[i]]
  /\ rxout' = (rxout + k) % NRxd
  /\ rcvptr' = (rxout + k) % NRxd
  /\ UNCHANGED <<chan, rxin, rcv, rcvcur, rcvstat, rcvmore, rx_wrong, txvars>>

\* The most a frame may have for one buffer to hold it.
Fits == BufSize - RxOffset

\* skiplen when dma_rx comes to the d-th buffer after rxin, if it has found no
\* good frame before it.
MutSkipLen ==
  LET skip[d \in 0 .. NRxd] ==
        IF d = 0 THEN 0
        ELSE LET b == rxp[(rxin + d - 1) % NRxd] IN
             CASE skip[d - 1] >= BufSize -> skip[d - 1] - BufSize
               [] skip[d - 1] < BufSize /\ b # NULL /\ b.len > Fits -> b.len - Fits
               [] OTHER -> 0
  IN skip

SkipLen ==
  LET skip[d \in 0 .. NRxd] ==
        IF d = 0 THEN 0
        ELSE LET b == rxp[(rxin + d - 1) % NRxd] IN
             CASE skip[d - 1] > BufSize -> skip[d - 1] - BufSize
               [] skip[d - 1] = 0 /\ b # NULL /\ b.len > Fits -> b.len - Fits
               [] OTHER -> 0
  IN skip

\* How many buffers dma_getnextrxp will hand out: the ones before the chip's
\* current descriptor.  (Mutated: every posted one, whatever the chip says.)
MutReceived == NRXDACTIVE(rxin, rxout)

Received == IF rxin = rxout THEN 0 ELSE NRXDACTIVE(rxin, rcvstat)

\* dma_rx: drop giants, buffer by buffer, until a frame that fits or until
\* nothing received is left.  skiplen does not outlive the call.
dma_rx ==
  LET at(d) == rxp[(rxin + d) % NRxd]
      good == {d \in 0 .. (Received - 1) : SkipLen[d] = 0 /\ at(d).len <= Fits}
      first == IF good = {} THEN Received ELSE CHOOSE d \in good : \A e \in good : d <= e
      used == IF good = {} THEN Received ELSE first + 1
  IN
  /\ rcv = "on"
  /\ assert_failed' = (assert_failed \/ \E d \in 0 .. (used - 1) : at(d) = NULL)
  /\ rx_wrong' = rx_wrong
       \cup {w \in {"middle"} : good # {} /\ ~at(first).start}
       \cup {w \in {"frame"} : \E d \in (0 .. (used - 1)) \ {first} :
                                 at(d).start /\ at(d).len <= Fits}
  /\ rxp' = [i \in RxSlot |-> IF (i - rxin) % NRxd < used THEN NULL ELSE rxp[i]]
  /\ rxin' = (rxin + used) % NRxd
  /\ UNCHANGED <<chan, rxout, rcv, rcvptr, rcvcur, rcvstat, rcvmore, txvars>>

\* dma_rxreclaim frees every posted buffer of a stopped engine.
dma_rxreclaim ==
  LET used(i) == (i - rxin) % NRxd < NRXDACTIVE(rxin, rxout) IN
  /\ rcv = "reset"
  /\ assert_failed' = (assert_failed \/ \E i \in RxSlot : used(i) /\ rxp[i] = NULL)
  /\ rxp' = [i \in RxSlot |-> IF used(i) THEN NULL ELSE rxp[i]]
  /\ rxin' = rxout
  /\ rcv' = "down"
  /\ UNCHANGED <<chan, rxout, rcvptr, rcvcur, rcvstat, rcvmore, rx_wrong, txvars>>

\* The chip writes the current buffer: the start of a frame of len, or, while
\* rcvmore says so, a later part of one that happens to begin with len.
HwRx(len) ==
  LET more == IF rcvmore > 0 THEN rcvmore - 1
              ELSE IF len <= Fits THEN 0
              ELSE (len - Fits + BufSize - 1) \div BufSize
  IN
  /\ rcv = "on"
  /\ rcvcur # rcvptr
  /\ rxp' = [rxp EXCEPT ![rcvcur] = [start |-> rcvmore = 0, len |-> len]]
  /\ rcvcur' = NEXTRXD(rcvcur)
  /\ rcvmore' = more
  /\ rcvstat' = IF more = 0 \/ StatusPer = "descriptor" THEN NEXTRXD(rcvcur) ELSE rcvstat
  /\ UNCHANGED <<chan, assert_failed, rxin, rxout, rcv, rcvptr, rx_wrong, txvars>>

-----------------------------------------------------------------------------
Next ==
  \/ \E rings \in Channels : dma_attach(rings)
  \/ dma_detach
  \/ dma_txinit \/ dma_txsuspend \/ dma_txresume \/ dma_txreset
  \/ \E p \in Pkts, c \in Chains : dma_txfast(p, c) \/ dma_tx(p, c)
  \/ \E f \in BOOLEAN : dma_getnexttxp(f) \/ dma_txreclaim(f)
  \/ dma_txblock \/ dma_txunblock
  \/ HwTx
  \/ dma_rxinit \/ dma_rxreset
  \/ \E k \in 0 .. NRxPost : dma_rxfill(k)
  \/ dma_rx \/ dma_rxreclaim
  \/ \E len \in FrameLens : HwRx(len)

Spec == Init /\ [][Next]_vars

-----------------------------------------------------------------------------
\* Types of the library's and the chip's state.
HndTypeOK ==
  /\ chan \in SUBSET {"tx", "rx"} /\ assert_failed \in BOOLEAN
  /\ txin \in TxSlot /\ txout \in TxSlot /\ txavail \in 0 .. (NTxd - 1)
  /\ txp \in [TxSlot -> Pkts \cup {NULL}]
  /\ txd \in [TxSlot -> [sof : BOOLEAN, eof : BOOLEAN] \cup {NULL}]
  /\ xmt \in {"down", "on", "suspended", "reset"}
  /\ xmtptr \in TxSlot /\ xmtcur \in TxSlot
  /\ rxin \in RxSlot /\ rxout \in RxSlot
  /\ rxp \in [RxSlot -> Buffers \cup {NULL}]
  /\ rcv \in {"down", "on", "reset"}
  /\ rcvptr \in RxSlot /\ rcvcur \in RxSlot /\ rcvstat \in RxSlot
  /\ rcvmore \in Nat
  /\ rx_wrong \in SUBSET {"middle", "frame"}

\* No ASSERT of hnddma.c fails: a descriptor is written only where no packet
\* is left (367, 466), a buffer posted only where none is posted (577), every
\* completed receive descriptor has its buffer (689), and dma_detach finds both
\* rings empty (155).
HndNoAssert == ~assert_failed

\* What the chip finds between its current descriptor and xmtptr is a sequence
\* of whole frames: a live descriptor each, SOF exactly after an EOF, the last
\* one an EOF with the packet of that frame on it, although a chain may have
\* been refused halfway (dma_txfast 342) and reclaimed halfway (dma_getnexttxp).
TxFramesWhole ==
  xmt \in {"on", "suspended"} =>
    LET n == NTXDACTIVE(txin, xmtptr)
        at(k) == (txin + k) % NTxd
        sent == NTXDACTIVE(txin, xmtcur)
    IN
    /\ sent <= n
    /\ n > 0 => txd[at(n - 1)] # NULL /\ txd[at(n - 1)].eof
    /\ \A k \in 0 .. (n - 1) :
         /\ txd[at(k)] # NULL
         /\ txd[at(k)].eof <=> txp[at(k)] # NULL
         /\ k > 0 => (txd[at(k)].sof <=> txd[at(k - 1)].eof)

\* txavail never promises a descriptor that is not there, and a packet whose
\* buffers are no more than txavail is never refused; the caller reads txavail
\* directly (dma_getvar) and does not call to ask.
TxAvailHonest ==
  [][\A p \in Pkts, c \in Chains :
       /\ c.n + (IF "tail" \in c.empty THEN 1 ELSE 0) <= txavail
       /\ dma_txfast(p, c) \/ dma_tx(p, c)
       => \E i \in TxSlot : txp'[i] = p]_vars

\* The chip writes a received frame only into a buffer that is posted and that
\* nobody else has been given.
RcvWritesPosted ==
  (rcv = "on" /\ rcvcur # rcvptr) => rxp[rcvcur] # NULL

\* dma_rx returns the start of a frame, never the middle of a giant, and frees
\* no frame that would have fitted: "skip giant packets which span multiple rx
\* descriptors" (507).
RxSkipsGiants == rx_wrong = {}

\* Collected(f, n)[k] is what of f[1], ..., f[k] is a packet, in that order.
Collected(f, n) ==
  LET s[k \in 0 .. n] ==
        IF k = 0 THEN << >>
        ELSE IF f[k] = NULL THEN s[k - 1] ELSE Append(s[k - 1], f[k])
  IN s

\* The transmit ring is a first-in first-out queue of packets.
TxSaved == [k \in 1 .. NTXDACTIVE(txin, txout) |-> txp[(txin + k - 1) % NTxd]]
TxQueue == Collected(TxSaved, NTXDACTIVE(txin, txout))[NTXDACTIVE(txin, txout)]

Queue == INSTANCE PacketQueue WITH Packets <- Pkts, Capacity <- NTxd - 1, q <- TxQueue

\* Every operation of the library takes one packet at the end of that queue,
\* returns packets from its head, or leaves it alone.
HndFifo == Queue!Spec
=============================================================================
