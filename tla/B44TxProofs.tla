---------------------------- MODULE B44TxProofs ----------------------------
(***************************************************************************)
(* Proofs about the transmit ring of the b44 driver, for every ring size,  *)
(* every set of packets and every set of limits ethtool may choose.        *)
(***************************************************************************)
EXTENDS B44Tx, RingLemmas, TLAPS

(***************************************************************************)
(* Index arithmetic.  "& (B44_TX_RING_SIZE - 1)" keeps an index in the     *)
(* ring, and wraps it exactly at the end.                                  *)
(***************************************************************************)
LEMMA NextTxWraps ==
  ASSUME NEW n \in TxSlot
  PROVE  /\ NEXT_TX(n) = IF n + 1 = TxRingSize THEN 0 ELSE n + 1
         /\ NEXT_TX(n) \in TxSlot
  <1>1. TxRingSize \in Nat /\ n \in Nat /\ n < TxRingSize
    BY TxAssumption DEF TxSlot
  <1>2. (n + 1) % TxRingSize = IF n + 1 = TxRingSize THEN 0 ELSE n + 1
    BY <1>1
  <1> QED
    BY <1>1, <1>2 DEF NEXT_TX, TxSlot

LEMMA MinusZero ==
  ASSUME NEW a \in Nat
  PROVE  a - 0 = a
  OBVIOUS

\* The number of packets between two indices.
InFlight(c, p) == IF c <= p THEN p - c ELSE p - c + TxRingSize

LEMMA InFlightSelf ==
  ASSUME NEW c \in TxSlot
  PROVE  InFlight(c, c) = 0
  BY TxAssumption DEF InFlight, TxSlot

LEMMA InFlightMod ==
  ASSUME NEW c \in TxSlot, NEW p \in TxSlot
  PROVE  /\ (p - c) % TxRingSize = InFlight(c, p)
         /\ InFlight(c, p) \in 0 .. (TxRingSize - 1)
  <1>1. TxRingSize \in Nat /\ c \in Nat /\ c < TxRingSize /\ p \in Nat /\ p < TxRingSize
    BY TxAssumption DEF TxSlot
  <1>2. CASE c <= p
    BY <1>1, <1>2 DEF InFlight
  <1>3. CASE ~(c <= p)
    BY <1>1, <1>3 DEF InFlight
  <1> QED
    BY <1>2, <1>3

\* The macro TX_BUFFS_AVAIL on the indices c and p with limit m: as long as no
\* more than m packets are in flight, its u32 arithmetic does not underflow.
LEMMA AvailExact ==
  ASSUME NEW c \in TxSlot, NEW p \in TxSlot, NEW m \in TxSlot, InFlight(c, p) <= m
  PROVE  (IF c <= p THEN c + m - p ELSE c - p - (TxRingSize - m)) % U32
           = m - InFlight(c, p)
  <1>1. /\ TxRingSize \in Nat /\ U32 \in Nat /\ TxRingSize < U32
        /\ c \in Nat /\ c < TxRingSize /\ p \in Nat /\ p < TxRingSize
        /\ m \in Nat /\ m < TxRingSize
    BY TxAssumption DEF TxSlot
  <1>2. InFlight(c, p) \in 0 .. (TxRingSize - 1)
    BY InFlightMod
  <1>3. (IF c <= p THEN c + m - p ELSE c - p - (TxRingSize - m)) = m - InFlight(c, p)
    BY <1>1 DEF InFlight
  <1>4. m - InFlight(c, p) \in Nat /\ m - InFlight(c, p) < U32
    BY <1>1, <1>2
  <1>5. (m - InFlight(c, p)) % U32 = m - InFlight(c, p)
    BY <1>1, <1>4
  <1> QED
    BY <1>3, <1>5

LEMMA PendingInRange ==
  ASSUME NEW m \in TxPendings \cup {TxRingSize - 1}
  PROVE  m \in TxSlot
  BY TxAssumption DEF TxSlot

(***************************************************************************)
(* The slots between two indices.                                          *)
(***************************************************************************)
LEMMA BetweenIn ==
  ASSUME NEW a \in TxSlot, NEW b \in TxSlot
  PROVE  /\ TxBetween(a, b) \subseteq TxSlot
         /\ b \notin TxBetween(a, b)
         /\ TxBetween(a, a) = {}
  BY TxAssumption DEF TxSlot, TxBetween

\* Posting a packet adds one slot, unless the ring would wrap onto itself.
LEMMA BetweenPost ==
  ASSUME NEW c \in TxSlot, NEW p \in TxSlot, InFlight(c, p) < TxRingSize - 1
  PROVE  /\ TxBetween(c, NEXT_TX(p)) = TxBetween(c, p) \cup {p}
         /\ InFlight(c, NEXT_TX(p)) = InFlight(c, p) + 1
  <1>1. NEXT_TX(p) = IF p + 1 = TxRingSize THEN 0 ELSE p + 1
    BY NextTxWraps
  <1>2. TxRingSize \in Nat /\ c \in Nat /\ c < TxRingSize /\ p \in Nat /\ p < TxRingSize
    BY TxAssumption DEF TxSlot
  <1>3. CASE p + 1 = TxRingSize
    BY <1>1, <1>2, <1>3 DEF TxSlot, TxBetween, InFlight
  <1>4. CASE p + 1 # TxRingSize
    BY <1>1, <1>2, <1>4 DEF TxSlot, TxBetween, InFlight
  <1> QED
    BY <1>3, <1>4

\* Reclaiming up to a slot on the way from c to p splits the slots in two.
LEMMA BetweenSplit ==
  ASSUME NEW c \in TxSlot, NEW p \in TxSlot, NEW x \in TxBetween(c, p) \cup {p}
  PROVE  /\ TxBetween(c, x) \subseteq TxBetween(c, p)
         /\ TxBetween(x, p) = TxBetween(c, p) \ TxBetween(c, x)
         /\ InFlight(x, p) <= InFlight(c, p)
  <1>1. TxRingSize \in Nat /\ c \in Nat /\ c < TxRingSize /\ p \in Nat /\ p < TxRingSize
    BY TxAssumption DEF TxSlot
  <1>2. x \in TxSlot
    BY BetweenIn
  <1>3. CASE c <= p
    BY <1>1, <1>2, <1>3 DEF TxSlot, TxBetween, InFlight
  <1>4. CASE ~(c <= p)
    BY <1>1, <1>2, <1>4 DEF TxSlot, TxBetween, InFlight
  <1> QED
    BY <1>3, <1>4

\* The chip, one slot further, is still on the way.
LEMMA BetweenNext ==
  ASSUME NEW c \in TxSlot, NEW p \in TxSlot, NEW x \in TxBetween(c, p)
  PROVE  NEXT_TX(x) \in TxBetween(c, p) \cup {p}
  <1>1. x \in TxSlot
    BY BetweenIn
  <1>2. NEXT_TX(x) = IF x + 1 = TxRingSize THEN 0 ELSE x + 1
    BY <1>1, NextTxWraps
  <1>3. TxRingSize \in Nat /\ c \in Nat /\ c < TxRingSize /\ p \in Nat /\ p < TxRingSize
    BY TxAssumption DEF TxSlot
  <1> QED
    BY <1>1, <1>2, <1>3 DEF TxSlot, TxBetween

-----------------------------------------------------------------------------
(***************************************************************************)
(* Type correctness.                                                       *)
(***************************************************************************)
LEMMA TxInitType == TxInit => TxTypeOK
  <1> SUFFICES ASSUME TxInit PROVE TxTypeOK
    OBVIOUS
  <1>1. ChipTypeOK
    BY Zenon DEF TxInit, ChipInit, ChipTypeOK, LockStates
  <1>2. queue_stopped \in BOOLEAN /\ waking \in BOOLEAN
    BY Zenon DEF TxInit
  <1>3. 0 \in TxSlot
    BY TxAssumption DEF TxSlot
  <1>4. tx_buffers \in [TxSlot -> Skbs \cup {NULL}]
    BY DEF TxInit
  <1> QED
    BY <1>1, <1>2, <1>3, <1>4 DEF TxInit, TxTypeOK

LEMMA PostTxType ==
  ASSUME TxTypeOK, NEW s \in Skbs, PostTx(s)
  PROVE  TxTypeOK'
  <1>1. NEXT_TX(tx_prod) \in TxSlot
    BY NextTxWraps DEF TxTypeOK
  <1>2. queue_stopped' \in BOOLEAN
    BY DEF PostTx
  <1> QED
    BY <1>1, <1>2 DEF PostTx, TxTypeOK, ChipTypeOK, chipvars

LEMMA b44_txType ==
  ASSUME TxTypeOK, b44_tx
  PROVE  TxTypeOK'
  <1> DEFINE done == TxBetween(tx_cons, dmatx_cur)
  <1>1. CASE \E i \in done : tx_buffers[i] = NULL
    BY <1>1 DEF b44_tx, TxTypeOK, ChipTypeOK, LockStates, txvars, txring
  <1>2. CASE ~ \E i \in done : tx_buffers[i] = NULL
    <2>1. /\ tx_buffers' = [i \in TxSlot |-> IF i \in done THEN NULL ELSE tx_buffers[i]]
          /\ tx_owned' = tx_owned \ {tx_buffers[i] : i \in done}
          /\ tx_cons' = dmatx_cur
          /\ UNCHANGED <<tx_prod, tx_pending, dmatx_ptr, dmatx_cur, waking, chipvars>>
          /\ queue_stopped' = (queue_stopped /\ ~(TX_BUFFS_AVAIL' > B44_TX_WAKEUP_THRESH))
      BY <1>2 DEF b44_tx
    <2>2. queue_stopped' \in BOOLEAN
      BY <2>1
    <2> HIDE DEF done
    <2>3. tx_buffers' \in [TxSlot -> Skbs \cup {NULL}]
      BY <2>1 DEF TxTypeOK
    <2>4. tx_owned' \subseteq Skbs
      BY <2>1, Zenon DEF TxTypeOK
    <2> QED
      BY <2>1, <2>2, <2>3, <2>4 DEF TxTypeOK, ChipTypeOK, chipvars
  <1> QED
    BY <1>1, <1>2

\* b44_free_rings gives back what is in the slots.
LEMMA FreeTxRingType ==
  ASSUME TxTypeOK, FreeTxRing
  PROVE  tx_buffers' \in [TxSlot -> Skbs \cup {NULL}] /\ tx_owned' \subseteq Skbs
  BY DEF FreeTxRing, TxTypeOK

LEMMA ChipResetTxType ==
  ASSUME TxTypeOK, NEW up \in BOOLEAN, ChipResetTx(up)
  PROVE  /\ tx_prod' \in TxSlot /\ tx_cons' \in TxSlot
         /\ dmatx_ptr' \in TxSlot /\ dmatx_cur' \in TxSlot
  BY TxAssumption DEF ChipResetTx, TxTypeOK, TxSlot

LEMMA TxStepType ==
  ASSUME TxTypeOK, [TxNext]_<<txvars, chipvars>>
  PROVE  TxTypeOK'
  <1> USE DEF ChipTypeOK, LockStates
  <1>1. ASSUME NEW s \in Skbs, StartXmit(s) PROVE TxTypeOK'
    BY <1>1, PostTxType DEF StartXmit
  <1>2. ASSUME NEW s \in Skbs, StartXmitFull(s) PROVE TxTypeOK'
    BY <1>2 DEF StartXmitFull, TxTypeOK, txring, chipvars
  <1>3. ASSUME NEW s \in Skbs, StartXmitNoBounce(s) PROVE TxTypeOK'
    BY <1>3 DEF StartXmitNoBounce, TxTypeOK, txvars, txring
  <1>4. ASSUME NEW s \in Skbs, NEW b \in Skbs, StartXmitBounce(s, b) PROVE TxTypeOK'
    BY <1>4, PostTxType DEF StartXmitBounce
  <1>5. CASE b44_tx
    BY <1>5, b44_txType
  <1>6. CASE HwTx
    <2>1. NEXT_TX(dmatx_cur) \in TxSlot
      BY NextTxWraps DEF TxTypeOK
    <2> QED
      BY <1>6, <2>1 DEF HwTx, TxTypeOK, chipvars
  <1>7. ASSUME RestartTx, tx_pending' \in TxPendings \cup {TxRingSize - 1},
               queue_stopped' \in BOOLEAN, waking' \in BOOLEAN
        PROVE  TxTypeOK'
    <2>1. ChipResetTx(TRUE) /\ FreeTxRing /\ dma_on' = TRUE /\ UNCHANGED <<lock, init_complete>>
      BY <1>7 DEF RestartTx
    <2> QED
      BY <1>7, <2>1, ChipResetTxType, FreeTxRingType DEF TxTypeOK
  <1>8. CASE TxErrorRestart
    BY <1>7, <1>8 DEF TxErrorRestart, TxTypeOK
  <1>9. ASSUME NEW p \in TxPendings, TxSetRing(p) PROVE TxTypeOK'
    BY <1>7, <1>9 DEF TxSetRing, TxTypeOK
  <1>10. CASE TxSilentRestart
    BY <1>7, <1>10 DEF TxSilentRestart, TxTypeOK
  <1>11. CASE TxTimeout
    BY <1>7, <1>11 DEF TxTimeout, TxTypeOK
  <1>12. CASE TxTimeoutWake
    BY <1>12 DEF TxTimeoutWake, TxTypeOK, txring, chipvars
  <1>13. CASE TxStopQueue
    BY <1>13 DEF TxStopQueue, TxTypeOK, txring, chipvars
  <1>14. CASE TxClose
    BY <1>14, ChipResetTxType, FreeTxRingType DEF TxClose, TxTypeOK
  <1>15. CASE TxSuspend
    BY <1>15, ChipResetTxType, FreeTxRingType DEF TxSuspend, TxTypeOK
  <1>16. ASSUME NEW cold \in BOOLEAN, InitTx(cold), queue_stopped' \in BOOLEAN
         PROVE  TxTypeOK'
    <2>1. ChipResetTx(~cold) /\ (~cold) \in BOOLEAN
      BY <1>16 DEF InitTx
    <2>2. /\ tx_prod' \in TxSlot /\ tx_cons' \in TxSlot
          /\ dmatx_ptr' \in TxSlot /\ dmatx_cur' \in TxSlot
      BY <2>1, ChipResetTxType
    <2> QED
      BY <1>16, <2>2, FreeTxRingType DEF InitTx, TxTypeOK
  <1>17. ASSUME NEW cold \in BOOLEAN, TxResume(cold) PROVE TxTypeOK'
    BY <1>16, <1>17 DEF TxResume
  <1>18. ASSUME NEW cold \in BOOLEAN, TxOpen(cold) PROVE TxTypeOK'
    BY <1>16, <1>18 DEF TxOpen, TxTypeOK
  <1>19. CASE TxOthers
    BY <1>19 DEF TxOthers, LockTaken, IrqUnlocks, TxTypeOK, txvars, txring
  <1>20. CASE UNCHANGED <<txvars, chipvars>>
    BY <1>20 DEF TxTypeOK, txvars, txring, chipvars
  <1> QED
    BY <1>1, <1>2, <1>3, <1>4, <1>5, <1>6, <1>8, <1>9, <1>10, <1>11, <1>12, <1>13,
       <1>14, <1>15, <1>17, <1>18, <1>19, <1>20 DEF TxNext, TxXmit

(***************************************************************************)
(* In every state of the transmit half the indices are slots of the ring   *)
(* and the slots hold packets or nothing, whatever the machine does: also  *)
(* after a resume that finds the chip cold.                                *)
(***************************************************************************)
THEOREM TxTypeCorrect == TxSpec => []TxTypeOK
  BY TxInitType, TxStepType, PTL DEF TxSpec

-----------------------------------------------------------------------------
(***************************************************************************)
(* The ring is exact, bounded, and never trips the BUG() of b44_tx.  None  *)
(* of the three is inductive by itself: that b44_tx finds its slots filled *)
(* needs the ring exact; that a posted packet does not land on another one *)
(* needs the limit; and the limit is tested with TX_BUFFS_AVAIL, whose     *)
(* arithmetic is only right while the limit holds.                         *)
(***************************************************************************)
TxInv == TxTypeOK /\ TxRingExact /\ TxBounded /\ TxNoBug

\* What TxBounded says, in terms of the indices.
LEMMA BoundedMeans ==
  ASSUME TxTypeOK
  PROVE  TxBounded <=> InFlight(tx_cons, tx_prod) <= tx_pending
  <1>1. tx_cons \in TxSlot /\ tx_prod \in TxSlot /\ tx_pending \in TxSlot
    BY PendingInRange DEF TxTypeOK
  <1>2. TxInFlight = InFlight(tx_cons, tx_prod)
    BY <1>1, InFlightMod DEF TxInFlight
  <1>3. InFlight(tx_cons, tx_prod) <= tx_pending
          => TX_BUFFS_AVAIL = tx_pending - InFlight(tx_cons, tx_prod)
    BY <1>1, AvailExact DEF TX_BUFFS_AVAIL, TX_RING_GAP
  <1> QED
    BY <1>2, <1>3 DEF TxBounded

LEMMA BoundedMeansNext ==
  ASSUME TxTypeOK'
  PROVE  TxBounded' <=> InFlight(tx_cons', tx_prod') <= tx_pending'
  <1>1. tx_cons' \in TxSlot /\ tx_prod' \in TxSlot /\ tx_pending' \in TxSlot
    BY PendingInRange DEF TxTypeOK
  <1>2. TxInFlight' = InFlight(tx_cons', tx_prod')
    BY <1>1, InFlightMod DEF TxInFlight
  <1>3. InFlight(tx_cons', tx_prod') <= tx_pending'
          => TX_BUFFS_AVAIL' = tx_pending' - InFlight(tx_cons', tx_prod')
    BY <1>1, AvailExact DEF TX_BUFFS_AVAIL, TX_RING_GAP
  <1> QED
    BY <1>2, <1>3 DEF TxBounded

\* Steps that leave the ring alone.
LEMMA RingUnchanged ==
  ASSUME TxRingExact, TxBounded, UNCHANGED txring
  PROVE  TxRingExact' /\ TxBounded'
  BY DEF TxRingExact, TxBounded, TxInFlight, TX_BUFFS_AVAIL, TX_RING_GAP, txring

\* Posting a packet the driver does not own yet, with room for it.
LEMMA PostTxInv ==
  ASSUME TxInv, NEW s \in Skbs \ tx_owned, TX_BUFFS_AVAIL >= 1, PostTx(s)
  PROVE  TxRingExact' /\ TxBounded'
  <1> DEFINE B == TxBetween(tx_cons, tx_prod)
  <1>1. /\ tx_cons \in TxSlot /\ tx_prod \in TxSlot /\ tx_pending \in TxSlot
        /\ TxTypeOK'
    BY PendingInRange, PostTxType DEF TxInv, TxTypeOK
  <1>2. InFlight(tx_cons, tx_prod) + 1 <= tx_pending
    <2>1. TX_BUFFS_AVAIL = tx_pending - InFlight(tx_cons, tx_prod)
      BY <1>1, InFlightMod DEF TxInv, TxBounded, TxInFlight
    <2> QED
      BY <2>1, <1>1, InFlightMod DEF TxSlot
  <1>3. InFlight(tx_cons, tx_prod) < TxRingSize - 1
    BY <1>1, <1>2, InFlightMod, TxAssumption DEF TxSlot
  <1>4. /\ TxBetween(tx_cons, NEXT_TX(tx_prod)) = B \cup {tx_prod}
        /\ InFlight(tx_cons, NEXT_TX(tx_prod)) = InFlight(tx_cons, tx_prod) + 1
    BY <1>1, <1>3, BetweenPost
  <1>5. /\ tx_buffers' = [tx_buffers EXCEPT ![tx_prod] = s]
        /\ tx_owned' = tx_owned \cup {s}
        /\ tx_prod' = NEXT_TX(tx_prod) /\ dmatx_ptr' = NEXT_TX(tx_prod)
        /\ tx_cons' = tx_cons /\ tx_pending' = tx_pending /\ dmatx_cur' = dmatx_cur
    BY DEF PostTx
  <1>6. TxBounded'
    BY <1>1, <1>2, <1>4, <1>5, BoundedMeansNext
  <1>7. TxBetween(tx_cons', tx_prod') = B \cup {tx_prod}
    BY <1>4, <1>5
  <1>8. B \subseteq TxSlot /\ tx_prod \notin B
    BY <1>1, BetweenIn
  <1>9. s # NULL
    BY TxAssumption
  <1>10. DOMAIN tx_buffers = TxSlot
    BY DEF TxInv, TxTypeOK
  <1>11. /\ \A i \in TxSlot : tx_buffers[i] # NULL <=> i \in B
         /\ \A i, j \in B : tx_buffers[i] = tx_buffers[j] => i = j
         /\ tx_owned = {tx_buffers[i] : i \in B}
         /\ dmatx_cur \in B \cup {tx_prod}
    BY DEF TxInv, TxRingExact
  <1> HIDE DEF B
  <1>12. /\ tx_buffers'[tx_prod] = s
         /\ \A i \in TxSlot \ {tx_prod} : tx_buffers'[i] = tx_buffers[i]
    BY <1>1, <1>5, <1>10
  <1>13. \A i \in TxSlot : tx_buffers'[i] # NULL <=> i \in B \cup {tx_prod}
    BY <1>9, <1>11, <1>12
  <1>14. \A i \in B : tx_buffers'[i] = tx_buffers[i] /\ tx_buffers[i] # s
    BY <1>8, <1>11, <1>12
  <1>15. \A i, j \in B \cup {tx_prod} : tx_buffers'[i] = tx_buffers'[j] => i = j
    BY <1>11, <1>12, <1>14
  <1>16. tx_owned' = {tx_buffers'[i] : i \in B \cup {tx_prod}}
    BY <1>5, <1>11, <1>12, <1>14
  <1>17. dmatx_ptr' = tx_prod' /\ dmatx_cur' \in (B \cup {tx_prod}) \cup {tx_prod'}
    BY <1>5, <1>11
  <1>18. TxRingExact'
    BY <1>7, <1>13, <1>15, <1>16, <1>17 DEF TxRingExact
  <1> QED
    BY <1>6, <1>18

\* Reclaiming up to the chip's current descriptor never meets an empty slot.
LEMMA b44_txInv ==
  ASSUME TxInv, b44_tx
  PROVE  TxRingExact' /\ TxBounded' /\ TxNoBug'
  <1> DEFINE B == TxBetween(tx_cons, tx_prod)
             done == TxBetween(tx_cons, dmatx_cur)
  <1>1. /\ tx_cons \in TxSlot /\ tx_prod \in TxSlot /\ tx_pending \in TxSlot
        /\ dmatx_cur \in TxSlot /\ TxTypeOK'
    BY PendingInRange, b44_txType DEF TxInv, TxTypeOK
  <1>2. /\ \A i \in TxSlot : tx_buffers[i] # NULL <=> i \in B
        /\ \A i, j \in B : tx_buffers[i] = tx_buffers[j] => i = j
        /\ tx_owned = {tx_buffers[i] : i \in B}
        /\ dmatx_ptr = tx_prod
        /\ dmatx_cur \in B \cup {tx_prod}
    BY DEF TxInv, TxRingExact
  <1>3. /\ done \subseteq B
        /\ TxBetween(dmatx_cur, tx_prod) = B \ done
        /\ InFlight(dmatx_cur, tx_prod) <= InFlight(tx_cons, tx_prod)
    BY <1>1, <1>2, BetweenSplit
  <1>4. B \subseteq TxSlot
    BY <1>1, BetweenIn
  <1>5. ~ \E i \in done : tx_buffers[i] = NULL
    BY <1>2, <1>3, <1>4
  <1>6. /\ tx_buffers' = [i \in TxSlot |-> IF i \in done THEN NULL ELSE tx_buffers[i]]
        /\ tx_owned' = tx_owned \ {tx_buffers[i] : i \in done}
        /\ tx_cons' = dmatx_cur
        /\ tx_prod' = tx_prod /\ tx_pending' = tx_pending
        /\ dmatx_ptr' = dmatx_ptr /\ dmatx_cur' = dmatx_cur
        /\ lock' = lock
    BY <1>5 DEF b44_tx, chipvars
  <1>7. InFlight(tx_cons, tx_prod) <= tx_pending
    BY BoundedMeans DEF TxInv
  <1>8. InFlight(dmatx_cur, tx_prod) <= tx_pending
    BY <1>1, <1>3, <1>7, InFlightMod DEF TxSlot
  <1>9. TxBounded'
    BY <1>1, <1>6, <1>8, BoundedMeansNext
  <1>10. TxBetween(tx_cons', tx_prod') = B \ done
    BY <1>3, <1>6
  <1> HIDE DEF B, done
  <1>11. \A i \in TxSlot : tx_buffers'[i] = IF i \in done THEN NULL ELSE tx_buffers[i]
    BY <1>6
  <1>12. \A i \in TxSlot : tx_buffers'[i] # NULL <=> i \in B \ done
    BY <1>2, <1>11
  <1>13. \A i \in B \ done : tx_buffers'[i] = tx_buffers[i]
    BY <1>4, <1>11
  <1>14. \A i, j \in B \ done : tx_buffers'[i] = tx_buffers'[j] => i = j
    BY <1>2, <1>13
  <1>15. tx_owned' = {tx_buffers'[i] : i \in B \ done}
    BY <1>2, <1>3, <1>6, <1>13
  <1>16. dmatx_ptr' = tx_prod'
    BY <1>2, <1>6
  <1>17. dmatx_cur' \in (B \ done) \cup {tx_prod'}
    <2>1. dmatx_cur \notin done
      BY <1>1, BetweenIn DEF done
    <2> QED
      BY <2>1, <1>2, <1>6
  <1>18. TxRingExact'
    BY <1>10, <1>12, <1>14, <1>15, <1>16, <1>17 DEF TxRingExact
  <1>19. TxNoBug'
    BY <1>6 DEF TxInv, TxNoBug
  <1> QED
    BY <1>9, <1>18, <1>19

LEMMA HwTxInv ==
  ASSUME TxInv, HwTx
  PROVE  TxRingExact' /\ TxBounded'
  <1>1. tx_cons \in TxSlot /\ tx_prod \in TxSlot
    BY DEF TxInv, TxTypeOK
  <1>2. dmatx_cur \in TxBetween(tx_cons, tx_prod)
    BY DEF TxInv, TxRingExact, HwTx
  <1>3. NEXT_TX(dmatx_cur) \in TxBetween(tx_cons, tx_prod) \cup {tx_prod}
    BY <1>1, <1>2, BetweenNext
  <1>4. /\ dmatx_cur' = NEXT_TX(dmatx_cur)
        /\ UNCHANGED <<tx_prod, tx_cons, tx_pending, tx_buffers, tx_owned, dmatx_ptr>>
    BY DEF HwTx
  <1>5. TxBounded'
    BY <1>4 DEF TxInv, TxBounded, TxInFlight, TX_BUFFS_AVAIL, TX_RING_GAP
  <1>6. TxRingExact'
    BY <1>3, <1>4 DEF TxInv, TxRingExact
  <1> QED
    BY <1>5, <1>6

\* b44_free_rings, which frees by content, frees all the driver owes.
LEMMA FreeTxRingEmpties ==
  ASSUME TxInv, FreeTxRing
  PROVE  tx_owned' = {}
  <1>1. TxBetween(tx_cons, tx_prod) \subseteq TxSlot
    BY BetweenIn DEF TxInv, TxTypeOK
  <1>2. tx_owned = {tx_buffers[i] : i \in TxBetween(tx_cons, tx_prod)}
    BY DEF TxInv, TxRingExact
  <1> QED
    BY <1>1, <1>2 DEF FreeTxRing

\* A reset that found the core up, followed by b44_free_rings, empties the ring.
LEMMA ResetTxInv ==
  ASSUME TxInv, TxTypeOK', ChipResetTx(TRUE), FreeTxRing
  PROVE  TxRingExact' /\ TxBounded'
  <1>1. /\ tx_prod' = 0 /\ tx_cons' = 0 /\ dmatx_ptr' = 0 /\ dmatx_cur' = 0
        /\ tx_buffers' = [i \in TxSlot |-> NULL]
        /\ tx_owned' = tx_owned \ {tx_buffers[i] : i \in TxSlot}
    BY DEF ChipResetTx, FreeTxRing
  <1>2. 0 \in TxSlot /\ TxBetween(0, 0) = {}
    BY TxAssumption, BetweenIn DEF TxSlot
  <1>3. tx_owned' = {}
    BY FreeTxRingEmpties
  <1>4. TxRingExact'
    BY <1>1, <1>2, <1>3 DEF TxRingExact
  <1>5. InFlight(0, 0) <= tx_pending'
    <2>1. tx_pending' \in TxSlot
      BY PendingInRange DEF TxTypeOK
    <2> QED
      BY <2>1, TxAssumption DEF InFlight, TxSlot
  <1>6. TxBounded'
    BY <1>1, <1>5, BoundedMeansNext
  <1> QED
    BY <1>4, <1>6

LEMMA TxInitInv == TxInit => TxInv
  <1> SUFFICES ASSUME TxInit PROVE TxInv
    OBVIOUS
  <1>1. TxTypeOK
    BY TxInitType
  <1>2. 0 \in TxSlot /\ TxBetween(0, 0) = {}
    BY TxAssumption, BetweenIn DEF TxSlot
  <1>3. TxRingExact
    BY <1>2 DEF TxInit, TxRingExact
  <1>4. TxBounded
    <2>1. InFlight(tx_cons, tx_prod) <= tx_pending
      BY TxAssumption DEF TxInit, InFlight
    <2> QED
      BY <1>1, <2>1, BoundedMeans
  <1>5. TxNoBug
    BY DEF TxInit, ChipInit, TxNoBug
  <1> QED
    BY <1>1, <1>3, <1>4, <1>5 DEF TxInv

LEMMA TxStepInv ==
  ASSUME "cold" \notin Env, TxInv, [TxNext]_<<txvars, chipvars>>
  PROVE  TxInv'
  <1>0. TxTypeOK'
    BY TxStepType DEF TxInv
  <1> SUFFICES TxRingExact' /\ TxBounded' /\ TxNoBug'
    BY <1>0 DEF TxInv
  <1> USE DEF TxNoBug
  <1>1. ASSUME NEW s \in Skbs, StartXmit(s) PROVE TxRingExact' /\ TxBounded' /\ TxNoBug'
    BY <1>1, PostTxInv DEF StartXmit, XmitCalled, PostTx, TxInv, chipvars
  <1>2. ASSUME NEW s \in Skbs, StartXmitFull(s) PROVE TxRingExact' /\ TxBounded' /\ TxNoBug'
    BY <1>2, RingUnchanged DEF StartXmitFull, TxInv, chipvars
  <1>3. ASSUME NEW s \in Skbs, StartXmitNoBounce(s)
        PROVE  TxRingExact' /\ TxBounded' /\ TxNoBug'
    BY <1>3, RingUnchanged DEF StartXmitNoBounce, TxInv, txvars
  <1>4. ASSUME NEW s \in Skbs, NEW b \in Skbs, StartXmitBounce(s, b)
        PROVE  TxRingExact' /\ TxBounded' /\ TxNoBug'
    <2>1. b \in Skbs \ tx_owned /\ TX_BUFFS_AVAIL >= 1 /\ PostTx(b)
      BY <1>4 DEF StartXmitBounce
    <2> QED
      BY <2>1, PostTxInv DEF PostTx, TxInv, chipvars
  <1>5. CASE b44_tx
    BY <1>5, b44_txInv
  <1>6. CASE HwTx
    BY <1>6, HwTxInv DEF HwTx, TxInv, chipvars
  <1>7. ASSUME RestartTx PROVE TxRingExact' /\ TxBounded' /\ TxNoBug'
    BY <1>0, <1>7, ResetTxInv DEF RestartTx, TxInv
  <1>8. CASE TxErrorRestart
    BY <1>7, <1>8 DEF TxErrorRestart
  <1>9. ASSUME NEW p \in TxPendings, TxSetRing(p)
        PROVE  TxRingExact' /\ TxBounded' /\ TxNoBug'
    BY <1>7, <1>9 DEF TxSetRing
  <1>10. CASE TxSilentRestart
    BY <1>7, <1>10 DEF TxSilentRestart
  <1>11. CASE TxTimeout
    BY <1>7, <1>11 DEF TxTimeout
  <1>12. CASE TxTimeoutWake
    BY <1>12, RingUnchanged DEF TxTimeoutWake, TxInv, chipvars
  <1>13. CASE TxStopQueue
    BY <1>13, RingUnchanged DEF TxStopQueue, TxInv, chipvars
  <1>14. CASE TxClose
    BY <1>0, <1>14, ResetTxInv DEF TxClose, TxInv
  <1>15. CASE TxSuspend
    BY <1>0, <1>15, ResetTxInv DEF TxSuspend, TxInv
  <1>16. ASSUME NEW cold \in BOOLEAN, InitTx(cold)
         PROVE  TxRingExact' /\ TxBounded' /\ TxNoBug'
    <2>1. cold = FALSE
      BY <1>16 DEF InitTx
    <2>2. ChipResetTx(TRUE) /\ FreeTxRing /\ lock' = lock
      BY <1>16, <2>1 DEF InitTx
    <2> QED
      BY <1>0, <2>2, ResetTxInv DEF TxInv
  <1>17. ASSUME NEW cold \in BOOLEAN, TxResume(cold)
         PROVE  TxRingExact' /\ TxBounded' /\ TxNoBug'
    BY <1>16, <1>17 DEF TxResume
  <1>18. ASSUME NEW cold \in BOOLEAN, TxOpen(cold)
         PROVE  TxRingExact' /\ TxBounded' /\ TxNoBug'
    BY <1>16, <1>18 DEF TxOpen
  <1>19. CASE TxOthers
    BY <1>19, RingUnchanged DEF TxOthers, LockTaken, IrqUnlocks, TxInv, txvars
  <1>20. CASE UNCHANGED <<txvars, chipvars>>
    BY <1>20, RingUnchanged DEF TxInv, txvars, chipvars
  <1> QED
    BY <1>1, <1>2, <1>3, <1>4, <1>5, <1>6, <1>8, <1>9, <1>10, <1>11, <1>12, <1>13,
       <1>14, <1>15, <1>17, <1>18, <1>19, <1>20 DEF TxNext, TxXmit

(***************************************************************************)
(* If the chip keeps its power: in every state b44_start_xmit, b44_tx and  *)
(* the resets agree on which slots hold which packets, so that no packet   *)
(* leaks, dangles or is freed twice.                                       *)
(***************************************************************************)
THEOREM TxRingCorrect ==
  ASSUME "cold" \notin Env
  PROVE  TxSpec => []TxRingExact
  <1>1. TxInv => TxRingExact
    BY DEF TxInv
  <1> QED
    BY <1>1, TxInitInv, TxStepInv, PTL DEF TxSpec

(***************************************************************************)
(* ... the limit ethtool sets is kept and TX_BUFFS_AVAIL never underflows, *)
(***************************************************************************)
THEOREM TxLimitKept ==
  ASSUME "cold" \notin Env
  PROVE  TxSpec => []TxBounded
  <1>1. TxInv => TxBounded
    BY DEF TxInv
  <1> QED
    BY <1>1, TxInitInv, TxStepInv, PTL DEF TxSpec

(***************************************************************************)
(* ... and the BUG() in b44_tx is dead code.                               *)
(***************************************************************************)
THEOREM TxBugUnreachable ==
  ASSUME "cold" \notin Env
  PROVE  TxSpec => []TxNoBug
  <1>1. TxInv => TxNoBug
    BY DEF TxInv
  <1> QED
    BY <1>1, TxInitInv, TxStepInv, PTL DEF TxSpec

-----------------------------------------------------------------------------
(***************************************************************************)
(* Flow control.                                                           *)
(***************************************************************************)
TxAvailIs ==
  /\ TX_BUFFS_AVAIL = tx_pending - InFlight(tx_cons, tx_prod)
  /\ tx_pending \in Nat /\ tx_pending < TxRingSize
  /\ InFlight(tx_cons, tx_prod) \in Nat /\ InFlight(tx_cons, tx_prod) <= tx_pending

LEMMA AvailMeans ==
  ASSUME TxInv
  PROVE  TxAvailIs
  <1>1. tx_cons \in TxSlot /\ tx_prod \in TxSlot /\ tx_pending \in TxSlot
    BY PendingInRange DEF TxInv, TxTypeOK
  <1>2. TxInFlight = InFlight(tx_cons, tx_prod) /\ InFlight(tx_cons, tx_prod) \in Nat
    BY <1>1, InFlightMod DEF TxInFlight
  <1>3. tx_pending \in Nat /\ tx_pending < TxRingSize
    BY <1>1, TxAssumption DEF TxSlot
  <1> QED
    BY <1>2, <1>3 DEF TxInv, TxBounded, TxAvailIs

\* The limits ethtool sets lie above the threshold at which b44_tx wakes the
\* queue; the largest one does if the ring has two slots.
TxLimitsAbove ==
  /\ TxRingSize > 1
  /\ \A p \in TxPendings : p > B44_TX_WAKEUP_THRESH

LEMMA AboveThresh ==
  ASSUME TxLimitsAbove, NEW p \in TxPendings \cup {TxRingSize - 1}
  PROVE  p > B44_TX_WAKEUP_THRESH /\ p >= 1 /\ B44_TX_WAKEUP_THRESH \in Nat
  <1>1. TxRingSize \in Nat
    BY TxAssumption
  <1>2. B44_TX_WAKEUP_THRESH \in Nat /\ TxRingSize - 1 > B44_TX_WAKEUP_THRESH
    BY <1>1 DEF TxLimitsAbove, B44_TX_WAKEUP_THRESH
  <1>3. p \in Nat
    BY <1>1, TxAssumption
  <1> QED
    BY <1>2, <1>3 DEF TxLimitsAbove

\* An awake queue, or one the watchdog is about to wake, has room: what is
\* inductive of TxAwakeHasRoom.
TxAwakeInv == TxInv /\ (~queue_stopped \/ waking => TX_BUFFS_AVAIL >= 1)

\* A reset leaves all slots to the stack.
LEMMA ResetRoom ==
  ASSUME TxLimitsAbove, TxInv', ChipResetTx(TRUE)
  PROVE  TX_BUFFS_AVAIL' >= 1 /\ tx_cons' = tx_prod'
  <1>1. TxAvailIs'
    BY AvailMeans, PTL
  <1>2. tx_cons' = 0 /\ tx_prod' = 0
    BY DEF ChipResetTx
  <1>3. tx_pending' >= 1
    BY AboveThresh DEF TxInv, TxTypeOK
  <1>4. InFlight(0, 0) = 0
    BY DEF InFlight
  <1> QED
    BY <1>1, <1>2, <1>3, <1>4 DEF TxAvailIs

\* b44_tx frees slots, and wakes the queue only if enough of them are free.
LEMMA ReclaimRoom ==
  ASSUME TxLimitsAbove, TxInv, TxInv', b44_tx
  PROVE  /\ TX_BUFFS_AVAIL' >= TX_BUFFS_AVAIL
         /\ TX_BUFFS_AVAIL \in Nat /\ TX_BUFFS_AVAIL' \in Nat
         /\ queue_stopped' = (queue_stopped /\ ~(TX_BUFFS_AVAIL' > B44_TX_WAKEUP_THRESH))
         /\ UNCHANGED <<waking, init_complete, dma_on>>
  <1>1. TxAvailIs /\ TxAvailIs'
    BY AvailMeans, PTL
  <1>2. lock' # "dead"
    BY DEF TxInv, TxNoBug
  <1>3. /\ tx_cons' = dmatx_cur /\ UNCHANGED <<tx_prod, tx_pending, waking, init_complete, dma_on>>
        /\ queue_stopped' = (queue_stopped /\ ~(TX_BUFFS_AVAIL' > B44_TX_WAKEUP_THRESH))
    BY <1>2 DEF b44_tx, chipvars
  <1>4. InFlight(dmatx_cur, tx_prod) <= InFlight(tx_cons, tx_prod)
    BY BetweenSplit DEF TxInv, TxTypeOK, TxRingExact
  <1> QED
    BY <1>1, <1>3, <1>4 DEF TxAvailIs

\* b44_start_xmit stops the queue with the last free slot.
LEMMA PostRoom ==
  ASSUME TxInv, TxInv', NEW s \in Skbs \ tx_owned, TX_BUFFS_AVAIL >= 1, PostTx(s)
  PROVE  /\ queue_stopped' \/ TX_BUFFS_AVAIL' >= 1
         /\ tx_cons' # tx_prod'
         /\ UNCHANGED <<waking, init_complete, dma_on>>
  <1>1. TxAvailIs /\ TxAvailIs'
    BY AvailMeans, PTL
  <1>2. /\ queue_stopped' = (TX_BUFFS_AVAIL' < 1)
        /\ tx_cons' = tx_cons /\ tx_prod' = NEXT_TX(tx_prod) /\ UNCHANGED tx_pending
        /\ UNCHANGED <<waking, init_complete, dma_on>>
    BY DEF PostTx, chipvars
  <1>3. tx_cons \in TxSlot /\ tx_prod \in TxSlot /\ TxRingSize \in Nat
    BY TxAssumption DEF TxInv, TxTypeOK
  <1>4. InFlight(tx_cons, tx_prod) < TxRingSize - 1
    BY <1>1, <1>3 DEF TxAvailIs
  <1>5. InFlight(tx_cons, NEXT_TX(tx_prod)) = InFlight(tx_cons, tx_prod) + 1
    BY <1>3, <1>4, BetweenPost
  <1>6. tx_cons # NEXT_TX(tx_prod)
    <2>1. InFlight(tx_cons, tx_cons) = 0
      BY <1>3 DEF InFlight, TxSlot
    <2> QED
      BY <1>1, <1>5, <2>1 DEF TxAvailIs
  <1>7. TX_BUFFS_AVAIL' < 1 \/ TX_BUFFS_AVAIL' >= 1
    BY <1>1 DEF TxAvailIs
  <1>8. queue_stopped' \/ TX_BUFFS_AVAIL' >= 1
    BY <1>2, <1>7, Zenon
  <1> QED
    BY <1>2, <1>6, <1>8

LEMMA TxStepAwake ==
  ASSUME "cold" \notin Env, TxLimitsAbove, TxAwakeInv, [TxNext]_<<txvars, chipvars>>
  PROVE  TxAwakeInv'
  <1>1. TxInv /\ TxInv'
    BY TxStepInv DEF TxAwakeInv
  <1>2. ~queue_stopped \/ waking => TX_BUFFS_AVAIL >= 1
    BY DEF TxAwakeInv
  <1> DEFINE Room == ~queue_stopped \/ waking => TX_BUFFS_AVAIL >= 1
  <1> SUFFICES Room'
    BY <1>1 DEF TxAwakeInv
  <1>3. ASSUME UNCHANGED <<tx_prod, tx_cons, tx_pending>> PROVE TX_BUFFS_AVAIL' = TX_BUFFS_AVAIL
    BY <1>3 DEF TX_BUFFS_AVAIL, TX_RING_GAP
  <1>4. ASSUME NEW s \in Skbs, StartXmit(s) PROVE Room'
    BY <1>1, <1>4, PostRoom DEF StartXmit, XmitCalled
  <1>5. ASSUME NEW s \in Skbs, StartXmitFull(s) PROVE Room'
    BY <1>2, <1>5, <1>3 DEF StartXmitFull, XmitCalled, txring
  <1>6. ASSUME NEW s \in Skbs, StartXmitNoBounce(s) PROVE Room'
    BY <1>2, <1>6, <1>3 DEF StartXmitNoBounce, txvars, txring
  <1>7. ASSUME NEW s \in Skbs, NEW b \in Skbs, StartXmitBounce(s, b) PROVE Room'
    BY <1>1, <1>7, PostRoom DEF StartXmitBounce, XmitCalled
  <1>8. CASE b44_tx
    <2>1. /\ TX_BUFFS_AVAIL' >= TX_BUFFS_AVAIL
          /\ TX_BUFFS_AVAIL \in Nat /\ TX_BUFFS_AVAIL' \in Nat
          /\ queue_stopped' = (queue_stopped /\ ~(TX_BUFFS_AVAIL' > B44_TX_WAKEUP_THRESH))
          /\ waking' = waking
      BY <1>1, <1>8, ReclaimRoom
    <2>2. B44_TX_WAKEUP_THRESH \in Nat
      BY AboveThresh
    <2>3. TX_BUFFS_AVAIL >= 1 => TX_BUFFS_AVAIL' >= 1
      BY <2>1
    <2>4. TX_BUFFS_AVAIL' > B44_TX_WAKEUP_THRESH => TX_BUFFS_AVAIL' >= 1
      BY <2>1, <2>2
    <2> QED
      BY <1>2, <2>1, <2>3, <2>4, Zenon
  <1>9. CASE HwTx
    BY <1>2, <1>3, <1>9 DEF HwTx
  <1>10. ASSUME ChipResetTx(TRUE) PROVE Room'
    BY <1>1, <1>10, ResetRoom
  <1>11. CASE TxErrorRestart \/ TxSilentRestart \/ TxTimeout \/ \E p \in TxPendings : TxSetRing(p)
    BY <1>10, <1>11 DEF TxErrorRestart, TxSilentRestart, TxTimeout, TxSetRing, RestartTx
  <1>12. CASE TxTimeoutWake
    BY <1>2, <1>3, <1>12 DEF TxTimeoutWake, txring
  <1>13. CASE TxStopQueue
    BY <1>2, <1>3, <1>13 DEF TxStopQueue, txring
  <1>14. CASE TxClose \/ TxSuspend
    BY <1>10, <1>14 DEF TxClose, TxSuspend
  <1>15. ASSUME NEW cold \in BOOLEAN, InitTx(cold) PROVE ChipResetTx(TRUE)
    <2>1. ~cold
      BY <1>15 DEF InitTx
    <2> QED
      BY <1>15, <2>1 DEF InitTx
  <1>16. CASE \E cold \in BOOLEAN : TxResume(cold) \/ TxOpen(cold)
    BY <1>10, <1>15, <1>16 DEF TxResume, TxOpen
  <1>17. CASE TxOthers
    BY <1>2, <1>3, <1>17 DEF TxOthers, txvars, txring
  <1>18. CASE UNCHANGED <<txvars, chipvars>>
    BY <1>2, <1>3, <1>18 DEF txvars, txring
  <1> QED
    BY <1>4, <1>5, <1>6, <1>7, <1>8, <1>9, <1>11, <1>12, <1>13, <1>14, <1>16, <1>17, <1>18
    DEF TxNext, TxXmit

LEMMA TxInitAwake ==
  ASSUME TxLimitsAbove
  PROVE  TxInit => TxAwakeInv
  <1> SUFFICES ASSUME TxInit PROVE TxAwakeInv
    OBVIOUS
  <1>1. TxInv /\ TxAvailIs
    BY TxInitInv, AvailMeans
  <1>2. InFlight(0, 0) = 0
    BY DEF InFlight
  <1>3. TX_BUFFS_AVAIL >= 1
    <2>1. tx_pending = TxRingSize - 1 /\ InFlight(tx_cons, tx_prod) = 0
      BY <1>2 DEF TxInit
    <2> QED
      BY <1>1, <2>1, TxAssumption DEF TxAvailIs, TxLimitsAbove
  <1> QED
    BY <1>1, <1>3 DEF TxAwakeInv

(***************************************************************************)
(* b44_start_xmit never finds the ring full on an awake queue, whatever    *)
(* else the driver does: its "BUG! Tx Ring full when queue awake!" is      *)
(* never logged, if every limit ethtool sets is above the wake-up          *)
(* threshold.                                                              *)
(***************************************************************************)
THEOREM TxAwakeRoom ==
  ASSUME "cold" \notin Env, TxLimitsAbove
  PROVE  TxSpec => []TxAwakeHasRoom
  <1>1. TxAwakeInv => TxAwakeHasRoom
    BY DEF TxAwakeInv, TxAwakeHasRoom
  <1> QED
    BY <1>1, TxInitAwake, TxStepAwake, PTL DEF TxSpec

\* A stopped queue has work; a device that is not open yet has its queue awake,
\* since b44_open does not wake it.
TxWorkInv ==
  /\ TxAwakeInv
  /\ dma_on /\ queue_stopped /\ ~waking => tx_cons # tx_prod
  /\ ~init_complete => ~queue_stopped

LEMMA TxStepWork ==
  ASSUME "cold" \notin Env, "mtu" \notin Env, "close" \notin Env, TxLimitsAbove,
         TxWorkInv, [TxNext]_<<txvars, chipvars>>
  PROVE  TxWorkInv'
  <1>1. TxAwakeInv /\ TxAwakeInv' /\ TxInv /\ TxInv'
    BY TxStepAwake DEF TxWorkInv, TxAwakeInv
  <1>2. /\ dma_on /\ queue_stopped /\ ~waking => tx_cons # tx_prod
        /\ ~init_complete => ~queue_stopped
        /\ queue_stopped \in BOOLEAN /\ init_complete \in BOOLEAN
    BY <1>1 DEF TxWorkInv, TxInv, TxTypeOK, ChipTypeOK
  <1> DEFINE Work == /\ dma_on /\ queue_stopped /\ ~waking => tx_cons # tx_prod
                     /\ ~init_complete => ~queue_stopped
  <1> SUFFICES Work'
    BY <1>1 DEF TxWorkInv
  <1>4. ASSUME NEW s \in Skbs, StartXmit(s) PROVE Work'
    BY <1>1, <1>4, PostRoom DEF StartXmit, XmitCalled
  <1>5. ASSUME NEW s \in Skbs, StartXmitFull(s) PROVE FALSE
    <2>1. TX_BUFFS_AVAIL >= 1 /\ TX_BUFFS_AVAIL < 1
      BY <1>1, <1>5 DEF StartXmitFull, XmitCalled, TxAwakeInv
    <2>2. TxAvailIs
      BY <1>1, AvailMeans
    <2> QED
      BY <2>1, <2>2 DEF TxAvailIs
  <1>6. ASSUME NEW s \in Skbs, StartXmitNoBounce(s) PROVE Work'
    BY <1>2, <1>6 DEF StartXmitNoBounce, txvars, txring
  <1>7. ASSUME NEW s \in Skbs, NEW b \in Skbs, StartXmitBounce(s, b) PROVE Work'
    BY <1>1, <1>7, PostRoom DEF StartXmitBounce, XmitCalled
  <1>8. CASE b44_tx
    <2>1. /\ TX_BUFFS_AVAIL' \in Nat
          /\ queue_stopped' = (queue_stopped /\ ~(TX_BUFFS_AVAIL' > B44_TX_WAKEUP_THRESH))
          /\ init_complete' = init_complete
      BY <1>1, <1>8, ReclaimRoom
    <2>2. /\ tx_pending' > B44_TX_WAKEUP_THRESH
          /\ B44_TX_WAKEUP_THRESH \in Nat
      BY <1>1, AboveThresh DEF TxInv, TxTypeOK
    <2>3. ASSUME tx_cons' = tx_prod' PROVE TX_BUFFS_AVAIL' > B44_TX_WAKEUP_THRESH
      <3>1. TxAvailIs'
        BY <1>1, AvailMeans, PTL
      <3>2. tx_prod' \in TxSlot
        BY <1>1 DEF TxInv, TxTypeOK
      <3>3. InFlight(tx_cons', tx_prod') = 0
        BY <2>3, <3>2, InFlightSelf
      <3>4. TX_BUFFS_AVAIL' = tx_pending' - 0 /\ tx_pending' \in Nat
        BY <3>1, <3>3 DEF TxAvailIs
      <3>5. tx_pending' - 0 = tx_pending'
        BY <3>4, MinusZero
      <3> QED
        BY <2>2, <3>4, <3>5
    <2> QED
      BY <1>2, <2>1, <2>3, Zenon
  <1>9. CASE HwTx
    BY <1>2, <1>9 DEF HwTx, chipvars
  <1>10. CASE TxErrorRestart \/ TxTimeout \/ \E p \in TxPendings : TxSetRing(p)
    BY <1>2, <1>10 DEF TxErrorRestart, TxTimeout, TxSetRing, RestartTx
  <1>11. ~TxSilentRestart /\ ~TxStopQueue /\ ~TxClose
    BY DEF TxSilentRestart, TxStopQueue, TxClose
  <1>12. CASE TxTimeoutWake
    BY <1>12 DEF TxTimeoutWake
  <1>13. CASE TxSuspend
    BY <1>13 DEF TxSuspend
  <1>14. ASSUME NEW cold \in BOOLEAN, TxResume(cold) PROVE Work'
    BY <1>14 DEF TxResume
  <1>15. ASSUME NEW cold \in BOOLEAN, TxOpen(cold) PROVE Work'
    BY <1>2, <1>15 DEF TxOpen
  <1>16. CASE TxOthers
    BY <1>2, <1>16 DEF TxOthers, LockTaken, IrqUnlocks, txvars, txring
  <1>17. CASE UNCHANGED <<txvars, chipvars>>
    BY <1>2, <1>17 DEF txvars, txring, chipvars
  <1> QED
    BY <1>4, <1>5, <1>6, <1>7, <1>8, <1>9, <1>10, <1>11, <1>12, <1>13, <1>14, <1>15, <1>16, <1>17
    DEF TxNext, TxXmit

(***************************************************************************)
(* Flow control, for every ring size: an awake queue has room, and a       *)
(* stopped queue has a packet in flight whose completion wakes it.  It     *)
(* excludes what the code gets wrong or does not promise: b44_change_mtu   *)
(* and b44_set_pauseparam restart the ring of a stopped queue without      *)
(* waking it, and b44_close stops the queue of an empty ring.              *)
(***************************************************************************)
THEOREM TxFlowControlled ==
  ASSUME "cold" \notin Env, "mtu" \notin Env, "close" \notin Env, TxLimitsAbove
  PROVE  TxSpec => []TxFlowControl
  <1>1. TxInit => TxWorkInv
    BY TxInitAwake, Zenon DEF TxInit, ChipInit, TxWorkInv
  <1>2. TxWorkInv => TxFlowControl
    BY DEF TxWorkInv, TxAwakeInv, TxFlowControl, TxAwakeHasRoom, TxStoppedHasWork
  <1> QED
    BY <1>1, <1>2, TxStepWork, PTL DEF TxSpec

-----------------------------------------------------------------------------
(***************************************************************************)
(* The packets in flight as a queue.                                       *)
(***************************************************************************)
\* The k-th slot from tx_cons.
TxAt(k) == (tx_cons + k - 1) % TxRingSize

LEMMA TxSlotAt ==
  ASSUME NEW a \in TxSlot, NEW k \in 1 .. TxRingSize
  PROVE  /\ (a + k - 1) % TxRingSize \in TxSlot
         /\ InFlight(a, (a + k - 1) % TxRingSize) = k - 1
  <1>1. a \in Nat /\ a < TxRingSize /\ TxRingSize \in Nat /\ TxRingSize > 0 /\ k \in Nat
        /\ 1 <= k /\ k <= TxRingSize
    BY TxAssumption DEF TxSlot
  <1>2. CASE a + k - 1 < TxRingSize
    BY <1>1, <1>2 DEF TxSlot, InFlight
  <1>3. CASE ~(a + k - 1 < TxRingSize)
    <2>1. (a + k - 1) % TxRingSize = a + k - 1 - TxRingSize
      BY <1>1, <1>3
    <2> QED
      BY <1>1, <1>3, <2>1 DEF TxSlot, InFlight
  <1> QED
    BY <1>2, <1>3

LEMMA InFlightFacts ==
  ASSUME NEW a \in TxSlot, NEW b \in TxSlot, NEW c \in TxSlot
  PROVE  /\ InFlight(a, b) = 0 <=> a = b
         /\ InFlight(a, b) = InFlight(a, c) => b = c
         /\ b \in TxBetween(a, c) <=> InFlight(a, b) < InFlight(a, c)
         /\ InFlight(a, b) <= InFlight(a, c) => InFlight(b, c) = InFlight(a, c) - InFlight(a, b)
  BY TxAssumption DEF TxSlot, InFlight, TxBetween

TxQueueShape ==
  /\ TxInFlight = InFlight(tx_cons, tx_prod) /\ TxInFlight \in 0 .. (TxRingSize - 1)
  /\ TxQueueOf \in [1 .. TxInFlight -> Skbs]
  /\ \A k \in 1 .. TxInFlight :
       /\ TxQueueOf[k] = tx_buffers[TxAt(k)]
       /\ TxAt(k) \in TxBetween(tx_cons, tx_prod) /\ TxAt(k) \in TxSlot
       /\ InFlight(tx_cons, TxAt(k)) = k - 1
  /\ Len(TxQueueOf) = TxInFlight

LEMMA TxQueueIs ==
  ASSUME TxInv
  PROVE  TxQueueShape
  <1>1. /\ tx_cons \in TxSlot /\ tx_prod \in TxSlot /\ TxRingSize \in Nat
        /\ tx_buffers \in [TxSlot -> Skbs \cup {NULL}]
        /\ \A i \in TxSlot : tx_buffers[i] # NULL <=> i \in TxBetween(tx_cons, tx_prod)
    BY TxAssumption DEF TxInv, TxTypeOK, TxRingExact
  <1>2. TxInFlight = InFlight(tx_cons, tx_prod) /\ TxInFlight \in 0 .. (TxRingSize - 1)
    BY <1>1, InFlightMod DEF TxInFlight
  <1>3. \A k \in 1 .. TxInFlight : TxAt(k) \in TxSlot /\ InFlight(tx_cons, TxAt(k)) = k - 1
    <2>1. \A k \in 1 .. TxInFlight : k \in 1 .. TxRingSize
      BY <1>1, <1>2
    <2> QED
      BY <1>1, <2>1, TxSlotAt DEF TxAt
  <1>4. ASSUME NEW k \in 1 .. TxInFlight
        PROVE  TxAt(k) \in TxBetween(tx_cons, tx_prod) /\ tx_buffers[TxAt(k)] \in Skbs
    <2>1. InFlight(tx_cons, TxAt(k)) < InFlight(tx_cons, tx_prod)
      BY <1>2, <1>3
    <2>2. TxAt(k) \in TxBetween(tx_cons, tx_prod)
      BY <1>1, <1>3, <2>1, InFlightFacts
    <2> QED
      BY <1>1, <1>3, <2>2
  <1>5. TxQueueOf = [k \in 1 .. TxInFlight |-> tx_buffers[TxAt(k)]]
    BY DEF TxQueueOf, TxAt
  <1>6. TxQueueOf \in [1 .. TxInFlight -> Skbs]
    BY <1>4, <1>5
  <1>7. Len(TxQueueOf) = TxInFlight
    BY <1>2, <1>6, FunSeq
  <1> QED
    BY <1>2, <1>3, <1>4, <1>5, <1>6, <1>7 DEF TxQueueShape

\* b44_start_xmit adds a packet at the end.
LEMMA PostTakes ==
  ASSUME TxInv, TxInv', NEW s \in Skbs \ tx_owned, TX_BUFFS_AVAIL >= 1, PostTx(s)
  PROVE  TxQueue!Take(s)
  <1>1. TxQueueShape /\ TxQueueShape' /\ TxAvailIs
    BY TxQueueIs, AvailMeans, PTL
  <1>2. /\ tx_buffers' = [tx_buffers EXCEPT ![tx_prod] = s]
        /\ tx_prod' = NEXT_TX(tx_prod) /\ tx_cons' = tx_cons
    BY DEF PostTx
  <1>3. /\ tx_cons \in TxSlot /\ tx_prod \in TxSlot /\ TxRingSize \in Nat
        /\ tx_buffers \in [TxSlot -> Skbs \cup {NULL}]
    BY TxAssumption DEF TxInv, TxTypeOK
  <1>4. InFlight(tx_cons, tx_prod) < TxRingSize - 1
    BY <1>1, <1>3 DEF TxAvailIs
  <1>5. TxInFlight' = TxInFlight + 1 /\ TxInFlight \in Nat /\ TxInFlight < TxRingSize - 1
    <2>1. InFlight(tx_cons, NEXT_TX(tx_prod)) = InFlight(tx_cons, tx_prod) + 1
      BY <1>3, <1>4, BetweenPost
    <2> QED
      BY <1>1, <1>2, <1>4, <2>1 DEF TxQueueShape
  <1>6. /\ TxQueueOf \in [1 .. TxInFlight -> Skbs] /\ Len(TxQueueOf) = TxInFlight
        /\ TxQueueOf' \in [1 .. (TxInFlight + 1) -> Skbs]
    BY <1>1, <1>5 DEF TxQueueShape
  <1>7. \A k : TxAt(k)' = TxAt(k)
    BY <1>2 DEF TxAt
  <1>8. tx_prod \notin TxBetween(tx_cons, tx_prod)
    BY <1>3, BetweenIn
  <1>9. ASSUME NEW k \in 1 .. TxInFlight PROVE TxQueueOf'[k] = TxQueueOf[k] /\ TxQueueOf[k] # s
    <2>1. /\ TxQueueOf[k] = tx_buffers[TxAt(k)] /\ TxAt(k) \in TxSlot
          /\ TxAt(k) \in TxBetween(tx_cons, tx_prod)
      BY <1>1 DEF TxQueueShape
    <2>2. k \in 1 .. TxInFlight'
      BY <1>5
    <2>3. TxQueueOf'[k] = tx_buffers'[TxAt(k)]
      BY <1>1, <1>7, <2>2 DEF TxQueueShape
    <2>4. tx_buffers'[TxAt(k)] = tx_buffers[TxAt(k)]
      BY <1>2, <1>3, <1>8, <2>1
    <2>5. tx_buffers[TxAt(k)] \in tx_owned
      BY <2>1 DEF TxInv, TxRingExact
    <2> QED
      BY <2>1, <2>3, <2>4, <2>5
  <1>10. TxQueueOf'[TxInFlight + 1] = s
    <2>1. PICK k \in 1 .. TxRingSize : k = TxInFlight + 1
      BY <1>3, <1>5
    <2>2. k \in 1 .. TxInFlight' /\ k - 1 = InFlight(tx_cons, tx_prod)
      BY <1>1, <1>5, <2>1 DEF TxQueueShape
    <2>3. TxQueueOf'[k] = tx_buffers'[TxAt(k)]
      BY <1>1, <1>7, <2>2 DEF TxQueueShape
    <2>4. TxAt(k) \in TxSlot /\ InFlight(tx_cons, TxAt(k)) = k - 1
      BY <1>3, TxSlotAt DEF TxAt
    <2>5. TxAt(k) = tx_prod
      BY <1>3, <2>2, <2>4, InFlightFacts
    <2> QED
      BY <1>2, <1>3, <2>1, <2>3, <2>5
  <1>11. TxQueueOf' = Append(TxQueueOf, s)
    BY <1>5, <1>6, <1>9, <1>10, FunAppend
  <1>12. Len(TxQueueOf) < TxRingSize - 1
    BY <1>5, <1>6
  <1> QED
    BY <1>6, <1>9, <1>11, <1>12 DEF TxQueue!Take

\* b44_tx takes what the chip has sent from the front.
LEMMA ReclaimCompletes ==
  ASSUME TxInv, TxInv', b44_tx
  PROVE  UNCHANGED TxQueueOf \/ \E n \in 1 .. Len(TxQueueOf) : TxQueue!Complete(n)
  <1> DEFINE done == TxBetween(tx_cons, dmatx_cur)
             n == InFlight(tx_cons, dmatx_cur)
  <1>1. TxQueueShape /\ TxQueueShape'
    BY TxQueueIs, PTL
  <1>2. /\ tx_buffers' = [i \in TxSlot |-> IF i \in done THEN NULL ELSE tx_buffers[i]]
        /\ tx_cons' = dmatx_cur /\ tx_prod' = tx_prod
    BY DEF b44_tx, TxInv, TxNoBug
  <1>3. /\ tx_cons \in TxSlot /\ tx_prod \in TxSlot /\ dmatx_cur \in TxSlot /\ TxRingSize \in Nat
        /\ tx_buffers \in [TxSlot -> Skbs \cup {NULL}]
    BY TxAssumption DEF TxInv, TxTypeOK
  <1>4. n \in Nat /\ n <= InFlight(tx_cons, tx_prod) /\ InFlight(tx_cons, tx_prod) \in Nat
    <2>1. dmatx_cur \in TxBetween(tx_cons, tx_prod) \/ dmatx_cur = tx_prod
      BY DEF TxInv, TxRingExact
    <2>2. n \in Nat /\ InFlight(tx_cons, tx_prod) \in Nat
      BY <1>3, InFlightMod
    <2> QED
      BY <1>3, <2>1, <2>2, InFlightFacts
  <1>5. /\ TxInFlight' = TxInFlight - n /\ TxInFlight \in Nat /\ n <= TxInFlight
        /\ TxInFlight <= TxRingSize - 1
        /\ Len(TxQueueOf) = TxInFlight
    BY <1>1, <1>2, <1>3, <1>4, InFlightFacts DEF TxQueueShape
  <1>6. ASSUME NEW k \in 1 .. (TxInFlight - n) PROVE TxQueueOf'[k] = TxQueueOf[k + n]
    <2>1. PICK m \in 1 .. TxInFlight : m = k + n
      BY <1>4, <1>5
    <2>2. k \in 1 .. TxInFlight' /\ k \in Nat /\ m - 1 = n + (k - 1) /\ m \in Nat
      BY <1>4, <1>5, <2>1
    <2>3. /\ TxQueueOf'[k] = tx_buffers'[TxAt(k)'] /\ TxAt(k)' \in TxSlot
          /\ InFlight(dmatx_cur, TxAt(k)') = k - 1
      BY <1>1, <1>2, <2>2 DEF TxQueueShape
    <2>4. /\ TxQueueOf[m] = tx_buffers[TxAt(m)] /\ TxAt(m) \in TxSlot
          /\ InFlight(tx_cons, TxAt(m)) = m - 1
      BY <1>1 DEF TxQueueShape
    <2>5. InFlight(dmatx_cur, TxAt(m)) = k - 1 /\ TxAt(m) \notin done
      <3>1. n <= InFlight(tx_cons, TxAt(m))
        BY <1>4, <2>2, <2>4
      <3>2. InFlight(dmatx_cur, TxAt(m)) = InFlight(tx_cons, TxAt(m)) - n
        BY <1>3, <2>4, <3>1, InFlightFacts
      <3>3. ~(InFlight(tx_cons, TxAt(m)) < n)
        BY <1>4, <2>2, <2>4, <3>1
      <3>4. TxAt(m) \notin done
        BY <1>3, <2>4, <3>3, InFlightFacts
      <3> QED
        BY <1>4, <2>2, <2>4, <3>2, <3>4
    <2>6. TxAt(k)' = TxAt(m)
      BY <1>3, <2>3, <2>4, <2>5, InFlightFacts
    <2>7. tx_buffers'[TxAt(m)] = tx_buffers[TxAt(m)]
      BY <1>2, <2>4, <2>5
    <2> QED
      BY <2>1, <2>3, <2>4, <2>6, <2>7
  <1>7. TxQueueOf \in [1 .. TxInFlight -> Skbs] /\ TxQueueOf' \in [1 .. (TxInFlight - n) -> Skbs]
    BY <1>1, <1>5 DEF TxQueueShape
  <1>8. n \in 0 .. TxInFlight
    BY <1>4, <1>5
  <1> HIDE DEF n
  <1>9. TxQueueOf' = SubSeq(TxQueueOf, n + 1, Len(TxQueueOf))
    BY <1>5, <1>6, <1>7, <1>8, FunSubSeq
  <1>10. CASE n = 0
    BY <1>5, <1>6, <1>7, <1>10
  <1>11. CASE n # 0
    <2>1. n \in 1 .. Len(TxQueueOf)
      BY <1>5, <1>8, <1>11
    <2> QED
      BY <1>9, <2>1 DEF TxQueue!Complete
  <1> QED
    BY <1>10, <1>11

LEMMA TxResetFlushes ==
  ASSUME ChipResetTx(TRUE)
  PROVE  TxQueue!Flush
  <1>1. TxInFlight' = 0
    BY TxAssumption DEF ChipResetTx, TxInFlight
  <1>2. TxQueueOf' = <<>>
    BY <1>1 DEF TxQueueOf
  <1> QED
    BY <1>2 DEF TxQueue!Flush

LEMMA TxQueueKept ==
  ASSUME UNCHANGED <<tx_prod, tx_cons, tx_buffers>>
  PROVE  UNCHANGED TxQueueOf
  BY DEF TxQueueOf, TxInFlight

LEMMA TxStepFifo ==
  ASSUME "cold" \notin Env, TxInv, [TxNext]_<<txvars, chipvars>>
  PROVE  [TxQueue!Next]_TxQueueOf
  <1>1. TxInv /\ TxInv'
    BY TxStepInv
  <1>2. ASSUME NEW s \in Skbs, StartXmit(s) PROVE TxQueue!Next
    BY <1>1, <1>2, PostTakes DEF StartXmit, XmitCalled, TxQueue!Next
  <1>3. ASSUME NEW s \in Skbs, NEW b \in Skbs, StartXmitBounce(s, b) PROVE TxQueue!Next
    BY <1>1, <1>3, PostTakes DEF StartXmitBounce, TxQueue!Next
  <1>4. ASSUME NEW s \in Skbs, StartXmitFull(s) \/ StartXmitNoBounce(s) PROVE UNCHANGED TxQueueOf
    BY <1>4, TxQueueKept DEF StartXmitFull, StartXmitNoBounce, txvars, txring
  <1>5. CASE b44_tx
    BY <1>1, <1>5, ReclaimCompletes DEF TxQueue!Next
  <1>6. CASE HwTx
    BY <1>6, TxQueueKept DEF HwTx
  <1>7. CASE TxErrorRestart \/ TxSilentRestart \/ TxTimeout \/ \E p \in TxPendings : TxSetRing(p)
    BY <1>7, TxResetFlushes
    DEF TxErrorRestart, TxSilentRestart, TxTimeout, TxSetRing, RestartTx, TxQueue!Next
  <1>8. CASE TxTimeoutWake \/ TxStopQueue \/ TxOthers
    BY <1>8, TxQueueKept DEF TxTimeoutWake, TxStopQueue, TxOthers, txvars, txring
  <1>9. CASE TxClose \/ TxSuspend
    BY <1>9, TxResetFlushes DEF TxClose, TxSuspend, TxQueue!Next
  <1>10. ASSUME NEW cold \in BOOLEAN, InitTx(cold) PROVE ChipResetTx(TRUE)
    <2>1. ~cold
      BY <1>10 DEF InitTx
    <2> QED
      BY <1>10, <2>1 DEF InitTx
  <1>11. CASE \E cold \in BOOLEAN : TxResume(cold) \/ TxOpen(cold)
    BY <1>10, <1>11, TxResetFlushes DEF TxResume, TxOpen, TxQueue!Next
  <1>12. CASE UNCHANGED <<txvars, chipvars>>
    BY <1>12, TxQueueKept DEF txvars, txring
  <1> QED
    BY <1>2, <1>3, <1>4, <1>5, <1>6, <1>7, <1>8, <1>9, <1>11, <1>12 DEF TxNext, TxXmit

(***************************************************************************)
(* The transmit ring implements the bounded first-in first-out queue of    *)
(* PacketQueue, from the stack to the chip, for every ring size and every  *)
(* limit: b44_start_xmit, b44_tx and the resets act as Take, Complete and  *)
(* Flush do, and the chip's own steps are not seen.                        *)
(***************************************************************************)
THEOREM TxRingImplementsQueue ==
  ASSUME "cold" \notin Env
  PROVE  TxSpec => TxFifo
  <1>1. TxInit => TxQueue!Init
    <2> SUFFICES ASSUME TxInit PROVE TxQueueOf = <<>>
      BY DEF TxQueue!Init
    <2>1. TxInFlight = 0
      BY TxAssumption DEF TxInit, TxInFlight
    <2> QED
      BY <2>1 DEF TxQueueOf
  <1> QED
    BY <1>1, TxInitInv, TxStepInv, TxStepFifo, PTL DEF TxSpec, TxFifo, TxQueue!Spec
=============================================================================
