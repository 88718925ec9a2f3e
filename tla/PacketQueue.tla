---------------------------- MODULE PacketQueue ----------------------------
(***************************************************************************)
(* What a descriptor ring promises the two sides that share it: a bounded  *)
(* first-in first-out queue of packets.  A packet that entered leaves      *)
(* after every packet that entered before it, unless the whole queue is    *)
(* flushed by a reset; it is never reordered, duplicated or dropped on its *)
(* own.  The transmit ring is such a queue from the stack to the chip, the *)
(* receive ring one from the chip to the driver.                           *)
(***************************************************************************)
EXTENDS Naturals, Sequences

CONSTANTS
  Packets,      \* the packets that may enter
  Capacity      \* the most the ring ever holds

VARIABLE q      \* the packets in the ring, oldest first

Init == q = <<>>

Take(p) ==
  /\ Len(q) < Capacity
  /\ \A i \in 1 .. Len(q) : q[i] # p
  /\ q' = Append(q, p)

Complete(n) == q' = SubSeq(q, n + 1, Len(q))

Flush == q' = <<>>

Next ==
  \/ \E p \in Packets : Take(p)
  \/ \E n \in 1 .. Len(q) : Complete(n)
  \/ Flush

Spec == Init /\ [][Next]_q
=============================================================================
