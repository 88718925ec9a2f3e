----------------------------- MODULE RingLemmas -----------------------------
(***************************************************************************)
(* What the proofs about the descriptor rings share.                       *)
(*                                                                         *)
(* A ring read off from its first used slot is a function on 1 .. n.  The  *)
(* first lemmas say that such a function is a sequence, and what adding an *)
(* element at its end and dropping elements at its front makes of it: what *)
(* the proofs that a ring implements a queue (PacketQueue) rest on.        *)
(***************************************************************************)
EXTENDS Integers, Sequences, WellFoundedInduction, TLAPS

LEMMA FunSeq ==
  ASSUME NEW n \in Nat, NEW S, NEW f \in [1 .. n -> S]
  PROVE  f \in Seq(S) /\ Len(f) = n
  OBVIOUS

LEMMA FunAppend ==
  ASSUME NEW n \in Nat, NEW S, NEW f \in [1 .. n -> S], NEW g \in [1 .. (n + 1) -> S],
         \A k \in 1 .. n : g[k] = f[k]
  PROVE  g = Append(f, g[n + 1])
  <1>1. f \in Seq(S) /\ Len(f) = n /\ g \in Seq(S) /\ Len(g) = n + 1
    BY FunSeq
  <1>2. g[n + 1] \in S
    OBVIOUS
  <1> QED
    BY <1>1, <1>2

LEMMA FunSubSeq ==
  ASSUME NEW n \in Nat, NEW m \in 0 .. n, NEW S, NEW f \in [1 .. n -> S],
         NEW g \in [1 .. (n - m) -> S], \A k \in 1 .. (n - m) : g[k] = f[k + m]
  PROVE  g = SubSeq(f, m + 1, Len(f))
  <1>1. f \in Seq(S) /\ Len(f) = n /\ g \in Seq(S) /\ Len(g) = n - m
    BY FunSeq
  <1>2. SubSeq(f, m + 1, n) \in Seq(S) /\ Len(SubSeq(f, m + 1, n)) = n - m
    BY <1>1
  <1>3. \A k \in 1 .. (n - m) : SubSeq(f, m + 1, n)[k] = f[k + m]
    BY <1>1
  <1> QED
    BY <1>1, <1>2, <1>3

LEMMA ConcatSub ==
  ASSUME NEW S, NEW s \in Seq(S), NEW t \in Seq(S)
  PROVE  /\ Len(s) \in 0 .. Len(s \o t)
         /\ t = SubSeq(s \o t, Len(s) + 1, Len(s \o t))
  <1> DEFINE u == SubSeq(s \o t, Len(s) + 1, Len(s \o t))
  <1>1. s \o t \in Seq(S) /\ Len(s \o t) = Len(s) + Len(t) /\ Len(s) \in Nat /\ Len(t) \in Nat
    OBVIOUS
  <1>2. u \in Seq(S) /\ Len(u) = Len(t)
    BY <1>1
  <1>3. ASSUME NEW k \in 1 .. Len(t) PROVE u[k] = t[k]
    BY <1>1
  <1> HIDE DEF u
  <1>4. u = t
    BY <1>2, <1>3
  <1> QED
    BY <1>1, <1>4 DEF u

-----------------------------------------------------------------------------
(***************************************************************************)
(* The least number of a set of numbers: what "CHOOSE the first one" finds *)
(* exists.                                                                 *)
(***************************************************************************)
LEMMA LeastNat ==
  ASSUME NEW T, T \subseteq Nat, T # {}
  PROVE  \E x \in T : \A y \in T : x <= y
  <1>1. PICK x \in T : \A y \in T : ~ (<<y, x>> \in OpToRel(<, Nat))
    BY NatLessThanWellFounded, WFMin
  <1>2. ASSUME NEW y \in T PROVE x <= y
    <2>1. <<y, x>> \in Nat \X Nat /\ ~ (<<y, x>> \in {ss \in Nat \X Nat : ss[1] < ss[2]})
      BY <1>1 DEF OpToRel
    <2> QED
      BY <2>1
  <1> QED
    BY <1>2

\* Induction up to n, over a set.
LEMMA UpTo ==
  ASSUME NEW n \in Nat, NEW T, 0 \in T, \A k \in 0 .. (n - 1) : k \in T => k + 1 \in T
  PROVE  0 .. n \subseteq T
  <1> DEFINE Out == {k \in 0 .. n : k \notin T}
  <1> SUFFICES ASSUME Out # {} PROVE FALSE
    OBVIOUS
  <1>0. Out \subseteq Nat
    OBVIOUS
  <1>1. PICK k \in Out : \A y \in Out : k <= y
    <2> HIDE DEF Out
    <2> QED
      BY <1>0, LeastNat
  <1>2. k \in 0 .. n /\ k \notin T /\ k # 0
    OBVIOUS
  <1>3. k - 1 \in 0 .. (n - 1) /\ k - 1 \in 0 .. n /\ (k - 1) + 1 = k
    BY <1>2
  <1>4. k - 1 \notin Out
    BY <1>1, <1>2, <1>3
  <1> HIDE DEF Out
  <1>5. k - 1 \in T
    BY <1>3, <1>4 DEF Out
  <1> QED
    BY <1>2, <1>3, <1>5

-----------------------------------------------------------------------------
(***************************************************************************)
(* Index arithmetic in a ring of N slots: how far slot b is from slot a,   *)
(* and the slot k further on.                                              *)
(***************************************************************************)
RingDist(N, a, b) == IF a <= b THEN b - a ELSE b - a + N
RingAt(N, a, k) == IF a + k < N THEN a + k ELSE a + k - N

LEMMA RingDistMod ==
  ASSUME NEW N \in Nat \ {0}, NEW a \in 0 .. (N - 1), NEW b \in 0 .. (N - 1)
  PROVE  /\ (b - a) % N = RingDist(N, a, b)
         /\ RingDist(N, a, b) \in 0 .. (N - 1)
         /\ RingDist(N, a, b) = 0 <=> a = b
  <1>1. N \in Nat /\ a \in Nat /\ a < N /\ b \in Nat /\ b < N
    OBVIOUS
  <1>2. CASE a <= b
    BY <1>1, <1>2 DEF RingDist
  <1>3. CASE ~(a <= b)
    BY <1>1, <1>3 DEF RingDist
  <1> QED
    BY <1>2, <1>3

LEMMA RingAtMod ==
  ASSUME NEW N \in Nat \ {0}, NEW a \in 0 .. (N - 1), NEW k \in 0 .. N
  PROVE  /\ (a + k) % N = RingAt(N, a, k)
         /\ RingAt(N, a, k) \in 0 .. (N - 1)
  <1>1. N \in Nat /\ a \in Nat /\ a < N /\ k \in Nat /\ k <= N
    OBVIOUS
  <1>2. CASE a + k < N
    BY <1>1, <1>2 DEF RingAt
  <1>3. CASE ~(a + k < N)
    BY <1>1, <1>3 DEF RingAt
  <1> QED
    BY <1>2, <1>3

\* The two are inverse to each other.
LEMMA RingDistAt ==
  ASSUME NEW N \in Nat \ {0}, NEW a \in 0 .. (N - 1)
  PROVE  /\ \A k \in 0 .. (N - 1) : RingDist(N, a, RingAt(N, a, k)) = k
         /\ \A b \in 0 .. (N - 1) : RingAt(N, a, RingDist(N, a, b)) = b
  BY DEF RingDist, RingAt

\* Distances from another slot.
LEMMA RingDistFrom ==
  ASSUME NEW N \in Nat \ {0}, NEW a \in 0 .. (N - 1), NEW b \in 0 .. (N - 1), NEW c \in 0 .. (N - 1)
  PROVE  RingDist(N, b, c) = IF RingDist(N, a, b) <= RingDist(N, a, c)
                             THEN RingDist(N, a, c) - RingDist(N, a, b)
                             ELSE RingDist(N, a, c) - RingDist(N, a, b) + N
  BY DEF RingDist
=============================================================================
