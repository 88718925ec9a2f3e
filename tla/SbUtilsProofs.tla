--------------------------- MODULE SbUtilsProofs ---------------------------
(***************************************************************************)
(* Proofs about the backplane library (SbUtils).                           *)
(*                                                                         *)
(* What must hold in the middle of a call depends on the steps the call    *)
(* still has to make, so the invariant is about them: from where the focus *)
(* is now, the rest of the call goes through, never with the interrupt on  *)
(* and the window elsewhere, never with an access to the wrong core, and   *)
(* ends with everything as the driver left it.  "Goes" says so of a        *)
(* sequence of steps.  It composes along \o, and so it is shown of each    *)
(* function of the library from its text, the way one proves a sequential  *)
(* program.                                                                *)
(***************************************************************************)
EXTENDS SbUtils, RingLemmas, FiniteSetTheorems, TLAPS

Bits == {"FGC", "CLK", "REJ", "RESET"}
Kinds == {"enter", "leave", "INTR_OFF", "INTR_RESTORE", "focus", "seg", "reg", "tml", "await"}
Op == [k : Kinds, idx : Nat, upper : BOOLEAN, bits : SUBSET (Bits \cup {"reject", "idle"})]

\* What a step of a call knows of the state: the focus, the half of the
\* registers in the window, whether the function is out of its INTR_OFF and
\* INTR_RESTORE, has set its intr_val to 0, or has turned the interrupt off;
\* sbtmstatelow; and whether the core is known to reject transactions (1) and
\* to be done with its last (2).
Shadow ==
  [cur : Nat, half : {"lower", "upper"}, intr : {"out", "in", "off"}, tml : SUBSET Bits,
   quiet : 0 .. 2]

Sh(c, h, i, t, q) == [cur |-> c, half |-> h, intr |-> i, tml |-> t, quiet |-> q]

\* What does not change during a call.
Context ==
  [bus : {"none", "PCI", "PCMCIA", "SB"}, dev : Nat, n : Nat, guard : {"yes", "no"}]

Ctx ==
  [bus |-> bus, dev |-> DevIdx, n |-> Len(chip.cores),
   guard |-> IF wants_intrs /\ bus # "SB" THEN "yes" ELSE "no"]

\* The handler may come: it finds the lower half of its own core.
Calm(p, a) == p.guard = "no" \/ a.intr = "off" \/ (a.cur = p.dev /\ a.half = "lower")

Reaches(p, d, a) == d.idx = a.cur /\ (p.bus = "PCMCIA" => d.upper = (a.half = "upper"))

\* INTR_OFF, and where INTR_RESTORE has to find what it undoes.
Off(p, c) == IF c = p.dev THEN "off" ELSE "in"

\* The step d is right in a, and leads to b.
Moves(p, d, a, b) ==
  \/ d.k = "enter" /\ a.intr = "out" /\ b = [a EXCEPT !.intr = "in"]
  \/ d.k = "leave" /\ a.intr = "in" /\ b = [a EXCEPT !.intr = "out"]
  \/ d.k = "INTR_OFF" /\ a.intr = "in" /\ b = [a EXCEPT !.intr = Off(p, a.cur)]
  \/ d.k = "INTR_RESTORE" /\ a.intr = Off(p, a.cur) /\ b = [a EXCEPT !.intr = "in"]
  \/ d.k = "focus" /\ d.idx \in 0 .. (p.n - 1) /\ b = [a EXCEPT !.cur = d.idx]
  \/ d.k = "seg" /\ b = [a EXCEPT !.half = IF d.upper THEN "upper" ELSE "lower"]
  \/ d.k = "reg" /\ Reaches(p, d, a) /\ b = a
  \/ /\ d.k = "tml" /\ Reaches(p, d, a) /\ d.bits \in SUBSET Bits
     /\ "RESET" \in d.bits \/ "CLK" \notin d.bits =>
          "RESET" \in a.tml \/ "CLK" \notin a.tml \/ a.quiet = 2
     /\ b = Sh(a.cur, a.half, a.intr, d.bits, IF "REJ" \in d.bits THEN a.quiet ELSE 0)
  \/ /\ d.k = "await"
     /\ b = [a EXCEPT !.quiet = IF d.bits = {"reject"} THEN 1 ELSE IF a.quiet = 0 THEN 0 ELSE 2]

\* h is what the steps s make of the shadow.
Trace(p, s, h) ==
  /\ h \in [1 .. (Len(s) + 1) -> Shadow]
  /\ \A k \in 1 .. (Len(s) + 1) : Calm(p, h[k])
  /\ \A k \in 1 .. Len(s) : Moves(p, s[k], h[k], h[k + 1])

\* The steps s go through, from a to b.
Goes(p, a, s, b) ==
  /\ s \in Seq(Op)
  /\ \E h : Trace(p, s, h) /\ h[1] = a /\ h[Len(s) + 1] = b

-----------------------------------------------------------------------------
(***************************************************************************)
(* The rules.                                                              *)
(***************************************************************************)
LEMMA GoesNone ==
  ASSUME NEW p, NEW a \in Shadow, Calm(p, a)
  PROVE  Goes(p, a, << >>, a)
  <1> DEFINE h == [k \in 1 .. 1 |-> a]
  <1>1. Len(<< >>) = 0 /\ << >> \in Seq(Op) /\ 0 + 1 = 1
    OBVIOUS
  <1>2. Trace(p, << >>, h)
    BY <1>1 DEF Trace
  <1>3. h[1] = a /\ h[Len(<< >>) + 1] = a
    BY <1>1
  <1> HIDE DEF h
  <1> QED
    BY <1>1, <1>2, <1>3 DEF Goes

LEMMA GoesOne ==
  ASSUME NEW p, NEW d \in Op, NEW a \in Shadow, NEW b \in Shadow, Calm(p, a), Calm(p, b),
         Moves(p, d, a, b)
  PROVE  Goes(p, a, <<d>>, b)
  <1> DEFINE h == [k \in 1 .. 2 |-> IF k = 1 THEN a ELSE b]
  <1>1. Len(<<d>>) = 1 /\ <<d>> \in Seq(Op) /\ <<d>>[1] = d /\ 1 + 1 = 2
    OBVIOUS
  <1>2. h[1] = a /\ h[2] = b /\ h \in [1 .. 2 -> Shadow]
    OBVIOUS
  <1> HIDE DEF h
  <1>3. \A k \in 1 .. 2 : Calm(p, h[k])
    <2>1. ASSUME NEW k \in 1 .. 2 PROVE Calm(p, h[k])
      <3>1. k = 1 \/ k = 2
        OBVIOUS
      <3>2. CASE k = 1
        BY <1>2, <3>2
      <3>3. CASE k = 2
        BY <1>2, <3>3
      <3> QED
        BY <3>1, <3>2, <3>3
    <2> QED
      BY <2>1
  <1>4. \A k \in 1 .. 1 : Moves(p, <<d>>[k], h[k], h[k + 1])
    <2>1. ASSUME NEW k \in 1 .. 1 PROVE Moves(p, <<d>>[k], h[k], h[k + 1])
      <3>1. k = 1 /\ k + 1 = 2 /\ <<d>>[k] = d /\ h[k] = a /\ h[k + 1] = b
        BY <1>2
      <3> QED
        BY <3>1
    <2> QED
      BY <2>1
  <1>5. Trace(p, <<d>>, h)
    BY <1>1, <1>2, <1>3, <1>4 DEF Trace
  <1> QED
    BY <1>1, <1>2, <1>5 DEF Goes

LEMMA GoesOn ==
  ASSUME NEW p, NEW a, NEW b, NEW c, NEW s, NEW t, Goes(p, a, s, b), Goes(p, b, t, c)
  PROVE  Goes(p, a, s \o t, c)
  <1>1. s \in Seq(Op) /\ t \in Seq(Op)
    BY DEF Goes
  <1>2. PICK g : Trace(p, s, g) /\ g[1] = a /\ g[Len(s) + 1] = b
    BY DEF Goes
  <1>3. PICK h : Trace(p, t, h) /\ h[1] = b /\ h[Len(t) + 1] = c
    BY DEF Goes
  <1>4. PICK n \in Nat, m \in Nat : n = Len(s) /\ m = Len(t)
    BY <1>1
  <1>5. s \o t \in Seq(Op) /\ Len(s \o t) = n + m
    BY <1>1, <1>4
  <1> DEFINE f == [k \in 1 .. (n + m + 1) |-> IF k <= n THEN g[k] ELSE h[k - n]]
  <1>6. /\ g \in [1 .. (n + 1) -> Shadow] /\ h \in [1 .. (m + 1) -> Shadow]
        /\ \A k \in 1 .. (n + 1) : Calm(p, g[k])
        /\ \A k \in 1 .. (m + 1) : Calm(p, h[k])
        /\ \A k \in 1 .. n : Moves(p, s[k], g[k], g[k + 1])
        /\ \A k \in 1 .. m : Moves(p, t[k], h[k], h[k + 1])
    BY <1>2, <1>3, <1>4 DEF Trace
  <1>7. /\ \A k \in 1 .. (n + 1) : f[k] = g[k]
        /\ \A k \in (n + 1) .. (n + m + 1) : f[k] = h[k - n]
    <2>1. ASSUME NEW k \in 1 .. (n + 1) PROVE f[k] = g[k]
      <3>1. k \in 1 .. (n + m + 1)
        OBVIOUS
      <3>2. CASE k <= n
        BY <3>1, <3>2
      <3>3. CASE k = n + 1
        <4>1. k - n = 1 /\ ~(k <= n)
          BY <3>3
        <4>2. f[k] = h[1]
          BY <3>1, <4>1
        <4> QED
          BY <1>2, <1>3, <1>4, <3>3, <4>2
      <3> QED
        BY <3>2, <3>3
    <2>2. ASSUME NEW k \in (n + 1) .. (n + m + 1) PROVE f[k] = h[k - n]
      OBVIOUS
    <2> QED
      BY <2>1, <2>2
  <1> HIDE DEF f
  <1>8. f \in [1 .. ((n + m) + 1) -> Shadow]
    <2>1. ASSUME NEW k \in 1 .. (n + m + 1)
          PROVE  (IF k <= n THEN g[k] ELSE h[k - n]) \in Shadow
      <3>1. CASE k <= n
        BY <1>6, <3>1
      <3>2. CASE ~(k <= n)
        <4>1. k - n \in 1 .. (m + 1)
          BY <3>2
        <4> QED
          BY <1>6, <3>2, <4>1
      <3> QED
        BY <3>1, <3>2
    <2> QED
      BY <2>1 DEF f
  <1>9. ASSUME NEW k \in 1 .. ((n + m) + 1) PROVE Calm(p, f[k])
    <2>1. CASE k <= n
      <3>1. k \in 1 .. (n + 1)
        BY <2>1
      <3> QED
        BY <1>6, <1>7, <3>1
    <2>2. CASE ~(k <= n)
      <3>1. k \in (n + 1) .. (n + m + 1) /\ k - n \in 1 .. (m + 1)
        BY <2>2
      <3> QED
        BY <1>6, <1>7, <3>1
    <2> QED
      BY <2>1, <2>2
  <1>10. ASSUME NEW k \in 1 .. (n + m) PROVE Moves(p, (s \o t)[k], f[k], f[k + 1])
    <2>1. CASE k <= n
      <3>1. k \in 1 .. n /\ k \in 1 .. (n + 1) /\ k + 1 \in 1 .. (n + 1)
        BY <2>1
      <3>2. (s \o t)[k] = s[k]
        BY <1>1, <1>4, <3>1
      <3>3. f[k] = g[k] /\ f[k + 1] = g[k + 1]
        BY <1>7, <3>1
      <3> QED
        BY <1>6, <3>1, <3>2, <3>3
    <2>2. CASE ~(k <= n)
      <3>1. PICK j \in 1 .. m : j = k - n
        BY <2>2
      <3>2. /\ k \in (n + 1) .. (n + m + 1) /\ k + 1 \in (n + 1) .. (n + m + 1)
            /\ (k + 1) - n = j + 1 /\ k = n + j
        BY <2>2, <3>1
      <3>3. (s \o t)[k] = t[j]
        BY <1>1, <1>4, <2>2, <3>1, <3>2
      <3>4. f[k] = h[j] /\ f[k + 1] = h[j + 1]
        BY <1>7, <3>1, <3>2
      <3> QED
        BY <1>6, <3>3, <3>4
    <2> QED
      BY <2>1, <2>2
  <1>11. Trace(p, s \o t, f)
    BY <1>5, <1>8, <1>9, <1>10 DEF Trace
  <1>12. f[1] = a
    <2>1. 1 \in 1 .. (n + 1)
      OBVIOUS
    <2> QED
      BY <1>2, <1>7, <2>1
  <1>13. f[Len(s \o t) + 1] = c
    <2>1. (n + m) + 1 \in (n + 1) .. (n + m + 1) /\ ((n + m) + 1) - n = m + 1
      OBVIOUS
    <2> QED
      BY <1>3, <1>4, <1>5, <1>7, <2>1
  <1> QED
    BY <1>5, <1>11, <1>12, <1>13 DEF Goes

LEMMA GoesStarts ==
  ASSUME NEW p, NEW a, NEW b, NEW s, Goes(p, a, s, b)
  PROVE  a \in Shadow /\ Calm(p, a) /\ s \in Seq(Op) /\ (s = << >> => a = b)
  <1>1. PICK h : Trace(p, s, h) /\ h[1] = a /\ h[Len(s) + 1] = b
    BY DEF Goes
  <1>2. s \in Seq(Op) /\ Len(s) \in Nat
    BY DEF Goes
  <1>3. 1 \in 1 .. (Len(s) + 1)
    BY <1>2
  <1>4. s = << >> => Len(s) + 1 = 1
    OBVIOUS
  <1> QED
    BY <1>1, <1>2, <1>3, <1>4 DEF Trace

LEMMA GoesFirst ==
  ASSUME NEW p, NEW a, NEW b, NEW s, Goes(p, a, s, b), s # << >>
  PROVE  \E m \in Shadow : Moves(p, Head(s), a, m) /\ Goes(p, m, Tail(s), b)
  <1>1. PICK h : Trace(p, s, h) /\ h[1] = a /\ h[Len(s) + 1] = b
    BY DEF Goes
  <1>2. s \in Seq(Op)
    BY DEF Goes
  <1>3. PICK n \in Nat : Len(s) = n + 1
    BY <1>2
  <1>4. Tail(s) \in Seq(Op) /\ Len(Tail(s)) = n /\ Head(s) = s[1]
    BY <1>2, <1>3
  <1>5. ASSUME NEW k \in 1 .. n PROVE Tail(s)[k] = s[k + 1]
    BY <1>2, <1>3
  <1> DEFINE f == [k \in 1 .. (n + 1) |-> h[k + 1]]
  <1>6. /\ h \in [1 .. (n + 2) -> Shadow]
        /\ \A k \in 1 .. (n + 2) : Calm(p, h[k])
        /\ \A k \in 1 .. (n + 1) : Moves(p, s[k], h[k], h[k + 1])
    <2>1. (n + 1) + 1 = n + 2
      OBVIOUS
    <2> QED
      BY <1>1, <1>3, <2>1 DEF Trace
  <1>7. Moves(p, Head(s), a, h[2]) /\ h[2] \in Shadow
    <2>1. 1 \in 1 .. (n + 1) /\ 1 + 1 = 2 /\ 2 \in 1 .. (n + 2)
      OBVIOUS
    <2>2. Moves(p, s[1], h[1], h[1 + 1])
      BY <1>6, <2>1
    <2> QED
      BY <1>1, <1>4, <1>6, <2>1, <2>2
  <1>8. Trace(p, Tail(s), f)
    <2>1. ASSUME NEW k \in 1 .. (n + 1) PROVE f[k] = h[k + 1] /\ k + 1 \in 1 .. (n + 2)
      OBVIOUS
    <2>2. f \in [1 .. (n + 1) -> Shadow]
      BY <1>6, <2>1
    <2> HIDE DEF f
    <2>3. ASSUME NEW k \in 1 .. (n + 1) PROVE Calm(p, f[k])
      BY <1>6, <2>1
    <2>4. ASSUME NEW k \in 1 .. n PROVE Moves(p, Tail(s)[k], f[k], f[k + 1])
      <3>1. PICK j \in 1 .. (n + 1) : j = k + 1
        OBVIOUS
      <3>2. k \in 1 .. (n + 1)
        OBVIOUS
      <3>3. Tail(s)[k] = s[j] /\ f[k] = h[j] /\ f[k + 1] = h[j + 1]
        BY <1>5, <2>1, <3>1, <3>2
      <3> QED
        BY <1>6, <3>3
    <2> QED
      BY <1>4, <2>2, <2>3, <2>4 DEF Trace
  <1>9. f[1] = h[2] /\ f[Len(Tail(s)) + 1] = b
    <2>1. 1 \in 1 .. (n + 1) /\ n + 1 \in 1 .. (n + 1) /\ 1 + 1 = 2 /\ (n + 1) + 1 = Len(s) + 1
      BY <1>3
    <2> QED
      BY <1>1, <1>4, <2>1
  <1> HIDE DEF f
  <1>10. Goes(p, h[2], Tail(s), b)
    BY <1>4, <1>8, <1>9 DEF Goes
  <1> QED
    BY <1>7, <1>10

-----------------------------------------------------------------------------
(***************************************************************************)
(* The single steps.                                                       *)
(***************************************************************************)
\* The driver's interrupt is its own business, or the focus is on its core.
Home(p, c) == p.guard = "no" \/ c = p.dev

\* It cannot come.
Free(p, x) == p.guard = "no" \/ x = "off"

\* The shadow of a driver that is not in a call, and of one that is.
Values(p, c, x, t, q) ==
  /\ p \in Context /\ c \in Nat /\ x \in {"out", "in", "off"} /\ t \in SUBSET Bits /\ q \in 0 .. 2

LEMMA OffIs ==
  ASSUME NEW p, NEW c
  PROVE  Off(p, c) \in {"out", "in", "off"} /\ (Home(p, c) => Free(p, Off(p, c)))
  BY DEF Off, Home, Free

LEMMA PEnter ==
  ASSUME NEW p, NEW c, NEW t, NEW q, Values(p, c, "out", t, q), Home(p, c)
  PROVE  Goes(p, Sh(c, "lower", "out", t, q), Enter, Sh(c, "lower", "in", t, q))
  <1> DEFINE d == Do("enter", 0, FALSE, {})
             a == Sh(c, "lower", "out", t, q)
             b == Sh(c, "lower", "in", t, q)
  <1>1. d \in Op /\ d.k = "enter"
    BY DEF Do, Op, Kinds
  <1>2. a \in Shadow /\ b \in Shadow /\ Calm(p, a) /\ Calm(p, b)
    BY DEF Sh, Shadow, Calm, Home, Values
  <1>3. a.intr = "out" /\ b = [a EXCEPT !.intr = "in"]
    BY DEF Sh
  <1> HIDE DEF a, b, d
  <1>4. Moves(p, d, a, b)
    BY <1>1, <1>3 DEF Moves
  <1>5. Goes(p, a, <<d>>, b)
    BY <1>1, <1>2, <1>4, GoesOne
  <1> QED
    BY <1>5 DEF Enter, a, b, d

LEMMA PLeave ==
  ASSUME NEW p, NEW c, NEW t, NEW q, Values(p, c, "in", t, q), Home(p, c)
  PROVE  Goes(p, Sh(c, "lower", "in", t, q), Leave, Sh(c, "lower", "out", t, q))
  <1> DEFINE d == Do("leave", 0, FALSE, {})
             a == Sh(c, "lower", "in", t, q)
             b == Sh(c, "lower", "out", t, q)
  <1>1. d \in Op /\ d.k = "leave"
    BY DEF Do, Op, Kinds
  <1>2. a \in Shadow /\ b \in Shadow /\ Calm(p, a) /\ Calm(p, b)
    BY DEF Sh, Shadow, Calm, Home, Values
  <1>3. a.intr = "in" /\ b = [a EXCEPT !.intr = "out"]
    BY DEF Sh
  <1> HIDE DEF a, b, d
  <1>4. Moves(p, d, a, b)
    BY <1>1, <1>3 DEF Moves
  <1>5. Goes(p, a, <<d>>, b)
    BY <1>1, <1>2, <1>4, GoesOne
  <1> QED
    BY <1>5 DEF Leave, a, b, d

LEMMA PIntrOff ==
  ASSUME NEW p, NEW c, NEW t, NEW q, Values(p, c, "in", t, q), Home(p, c)
  PROVE  Goes(p, Sh(c, "lower", "in", t, q), IntrOff, Sh(c, "lower", Off(p, c), t, q))
  <1> DEFINE d == Do("INTR_OFF", 0, FALSE, {})
             a == Sh(c, "lower", "in", t, q)
             b == Sh(c, "lower", Off(p, c), t, q)
  <1>1. d \in Op /\ d.k = "INTR_OFF"
    BY DEF Do, Op, Kinds
  <1>2. a \in Shadow /\ b \in Shadow /\ Calm(p, a) /\ Calm(p, b)
    BY DEF Sh, Shadow, Calm, Home, Values, Off
  <1>3. a.intr = "in" /\ b = [a EXCEPT !.intr = Off(p, a.cur)]
    BY DEF Sh
  <1> HIDE DEF a, b, d
  <1>4. Moves(p, d, a, b)
    BY <1>1, <1>3 DEF Moves
  <1>5. Goes(p, a, <<d>>, b)
    BY <1>1, <1>2, <1>4, GoesOne
  <1> QED
    BY <1>5 DEF IntrOff, a, b, d

LEMMA PIntrRestore ==
  ASSUME NEW p, NEW c, NEW t, NEW q, Values(p, c, "in", t, q), Home(p, c)
  PROVE  Goes(p, Sh(c, "lower", Off(p, c), t, q), IntrRestore, Sh(c, "lower", "in", t, q))
  <1> DEFINE d == Do("INTR_RESTORE", 0, FALSE, {})
             a == Sh(c, "lower", Off(p, c), t, q)
             b == Sh(c, "lower", "in", t, q)
  <1>1. d \in Op /\ d.k = "INTR_RESTORE"
    BY DEF Do, Op, Kinds
  <1>2. a \in Shadow /\ b \in Shadow /\ Calm(p, a) /\ Calm(p, b)
    BY DEF Sh, Shadow, Calm, Home, Values, Off
  <1>3. a.intr = Off(p, a.cur) /\ b = [a EXCEPT !.intr = "in"]
    BY DEF Sh
  <1> HIDE DEF a, b, d
  <1>4. Moves(p, d, a, b)
    BY <1>1, <1>3 DEF Moves
  <1>5. Goes(p, a, <<d>>, b)
    BY <1>1, <1>2, <1>4, GoesOne
  <1> QED
    BY <1>5 DEF IntrRestore, a, b, d

LEMMA PFocus ==
  ASSUME NEW p, NEW c, NEW x, NEW t, NEW q, Values(p, c, x, t, q), Free(p, x),
         NEW i \in Nat, i \in 0 .. (p.n - 1)
  PROVE  Goes(p, Sh(c, "lower", x, t, q), Focus(i), Sh(i, "lower", x, t, q))
  <1> DEFINE d == Do("focus", i, FALSE, {})
             a == Sh(c, "lower", x, t, q)
             b == Sh(i, "lower", x, t, q)
  <1>1. d \in Op /\ d.k = "focus" /\ d.idx = i
    BY DEF Do, Op, Kinds
  <1>2. a \in Shadow /\ b \in Shadow /\ Calm(p, a) /\ Calm(p, b)
    BY DEF Sh, Shadow, Calm, Free, Values
  <1>3. b = [a EXCEPT !.cur = i]
    BY DEF Sh
  <1> HIDE DEF a, b, d
  <1>4. Moves(p, d, a, b)
    BY <1>1, <1>3 DEF Moves
  <1>5. Goes(p, a, <<d>>, b)
    BY <1>1, <1>2, <1>4, GoesOne
  <1> QED
    BY <1>5 DEF Focus, a, b, d

LEMMA PReg ==
  ASSUME NEW p, NEW i, NEW x, NEW t, NEW q, Values(p, i, x, t, q), Free(p, x) \/ Home(p, i)
  PROVE  Goes(p, Sh(i, "lower", x, t, q), Reg(i), Sh(i, "lower", x, t, q))
  <1> DEFINE d == Do("reg", i, FALSE, {})
             a == Sh(i, "lower", x, t, q)
  <1>1. d \in Op /\ d.k = "reg" /\ d.idx = i /\ d.upper = FALSE
    BY DEF Do, Op, Kinds, Values
  <1>2. a \in Shadow /\ Calm(p, a) /\ a.cur = i /\ a.half = "lower"
    BY DEF Sh, Shadow, Calm, Free, Home, Values
  <1> HIDE DEF a, d
  <1>3. Moves(p, d, a, a)
    BY <1>1, <1>2 DEF Moves, Reaches
  <1>4. Goes(p, a, <<d>>, a)
    BY <1>1, <1>2, <1>3, GoesOne
  <1> QED
    BY <1>4 DEF Reg, a, d

LEMMA PSeg ==
  ASSUME NEW p, NEW c, NEW x, NEW t, NEW q, Values(p, c, x, t, q), Free(p, x),
         NEW g \in {"lower", "upper"}
  PROVE  /\ Goes(p, Sh(c, g, x, t, q), Seg(TRUE), Sh(c, "upper", x, t, q))
         /\ Goes(p, Sh(c, g, x, t, q), Seg(FALSE), Sh(c, "lower", x, t, q))
  <1> DEFINE d == Do("seg", 0, TRUE, {})
             e == Do("seg", 0, FALSE, {})
             a == Sh(c, g, x, t, q)
             b == Sh(c, "upper", x, t, q)
             f == Sh(c, "lower", x, t, q)
  <1>1. /\ d \in Op /\ d.k = "seg" /\ d.upper = TRUE
        /\ e \in Op /\ e.k = "seg" /\ e.upper = FALSE
    BY DEF Do, Op, Kinds
  <1>2. /\ a \in Shadow /\ b \in Shadow /\ f \in Shadow
        /\ Calm(p, a) /\ Calm(p, b) /\ Calm(p, f)
    BY DEF Sh, Shadow, Calm, Free, Values
  <1>3. b = [a EXCEPT !.half = "upper"] /\ f = [a EXCEPT !.half = "lower"]
    BY DEF Sh
  <1> HIDE DEF a, b, d, e, f
  <1>4. Moves(p, d, a, b) /\ Moves(p, e, a, f)
    BY <1>1, <1>3 DEF Moves
  <1>5. Goes(p, a, <<d>>, b) /\ Goes(p, a, <<e>>, f)
    BY <1>1, <1>2, <1>4, GoesOne
  <1> QED
    BY <1>5 DEF Seg, a, b, d, e, f

LEMMA PAwait ==
  ASSUME NEW p, NEW c, NEW t, NEW q, Values(p, c, "out", t, q), Home(p, c)
  PROVE  /\ Goes(p, Sh(c, "lower", "out", t, q), Await("reject"), Sh(c, "lower", "out", t, 1))
         /\ q # 0 => Goes(p, Sh(c, "lower", "out", t, q), Await("idle"),
                          Sh(c, "lower", "out", t, 2))
  <1> DEFINE d == Do("await", 0, FALSE, {"reject"})
             e == Do("await", 0, FALSE, {"idle"})
             a == Sh(c, "lower", "out", t, q)
             b == Sh(c, "lower", "out", t, 1)
             f == Sh(c, "lower", "out", t, 2)
  <1>1. /\ d \in Op /\ d.k = "await" /\ d.bits = {"reject"}
        /\ e \in Op /\ e.k = "await" /\ e.bits # {"reject"}
    BY DEF Do, Op, Kinds
  <1>2. /\ a \in Shadow /\ b \in Shadow /\ f \in Shadow
        /\ Calm(p, a) /\ Calm(p, b) /\ Calm(p, f)
    BY DEF Sh, Shadow, Calm, Home, Values
  <1>3. b = [a EXCEPT !.quiet = 1] /\ f = [a EXCEPT !.quiet = 2] /\ a.quiet = q
    BY DEF Sh
  <1> HIDE DEF a, b, d, e, f
  <1>4. Moves(p, d, a, b) /\ (q # 0 => Moves(p, e, a, f))
    BY <1>1, <1>3 DEF Moves
  <1>5. Goes(p, a, <<d>>, b) /\ (q # 0 => Goes(p, a, <<e>>, f))
    BY <1>1, <1>2, <1>4, GoesOne
  <1> QED
    BY <1>5 DEF Await, a, b, d, e, f

-----------------------------------------------------------------------------
(***************************************************************************)
(* The configuration registers.                                            *)
(***************************************************************************)
LEMMA PSbReg ==
  ASSUME NEW p, NEW c, NEW t, NEW q, NEW u, NEW r, Values(p, c, "out", t, q),
         Values(p, c, "out", u, r), Home(p, c), NEW s,
         Segmented => Goes(p, Sh(c, "upper", Off(p, c), t, q), s, Sh(c, "upper", Off(p, c), u, r)),
         ~Segmented => Goes(p, Sh(c, "lower", "out", t, q), s, Sh(c, "lower", "out", u, r))
  PROVE  Goes(p, Sh(c, "lower", "out", t, q), SbReg(s), Sh(c, "lower", "out", u, r))
  <1>1. CASE ~Segmented
    BY <1>1 DEF SbReg
  <1>2. CASE Segmented
    <2> DEFINE a == Sh(c, "lower", "out", t, q)
    <2>1. /\ Values(p, c, "in", t, q) /\ Values(p, c, "in", u, r)
          /\ Values(p, c, Off(p, c), t, q) /\ Values(p, c, Off(p, c), u, r)
      BY OffIs DEF Values
    <2>2. Free(p, Off(p, c))
      BY OffIs
    <2>3. Goes(p, a, Enter, Sh(c, "lower", "in", t, q))
      BY PEnter
    <2>4. Goes(p, Sh(c, "lower", "in", t, q), IntrOff, Sh(c, "lower", Off(p, c), t, q))
      BY <2>1, PIntrOff
    <2>5. Goes(p, Sh(c, "lower", Off(p, c), t, q), Seg(TRUE), Sh(c, "upper", Off(p, c), t, q))
      BY <2>1, <2>2, PSeg
    <2>6. Goes(p, Sh(c, "upper", Off(p, c), t, q), s, Sh(c, "upper", Off(p, c), u, r))
      BY <1>2
    <2>7. Goes(p, Sh(c, "upper", Off(p, c), u, r), Seg(FALSE), Sh(c, "lower", Off(p, c), u, r))
      BY <2>1, <2>2, PSeg
    <2>8. Goes(p, Sh(c, "lower", Off(p, c), u, r), IntrRestore, Sh(c, "lower", "in", u, r))
      BY <2>1, PIntrRestore
    <2>9. Goes(p, Sh(c, "lower", "in", u, r), Leave, Sh(c, "lower", "out", u, r))
      BY <2>1, PLeave
    <2> DEFINE up == Seg(TRUE)
               down == Seg(FALSE)
    <2> HIDE DEF a
    <2>0. /\ Goes(p, Sh(c, "lower", Off(p, c), t, q), up, Sh(c, "upper", Off(p, c), t, q))
          /\ Goes(p, Sh(c, "upper", Off(p, c), u, r), down, Sh(c, "lower", Off(p, c), u, r))
      BY <2>5, <2>7
    <2> HIDE DEF up, down
    <2>10. Goes(p, a, Enter \o IntrOff, Sh(c, "lower", Off(p, c), t, q))
      BY <2>3, <2>4, GoesOn
    <2>11. Goes(p, a, Enter \o IntrOff \o up, Sh(c, "upper", Off(p, c), t, q))
      BY <2>0, <2>10, GoesOn
    <2>12. Goes(p, a, Enter \o IntrOff \o up \o s, Sh(c, "upper", Off(p, c), u, r))
      BY <2>6, <2>11, GoesOn
    <2>13. Goes(p, a, Enter \o IntrOff \o up \o s \o down,
                Sh(c, "lower", Off(p, c), u, r))
      BY <2>0, <2>12, GoesOn
    <2>14. Goes(p, a, Enter \o IntrOff \o up \o s \o down \o IntrRestore,
                Sh(c, "lower", "in", u, r))
      BY <2>8, <2>13, GoesOn
    <2>15. Goes(p, a, Enter \o IntrOff \o up \o s \o down \o IntrRestore \o Leave,
                Sh(c, "lower", "out", u, r))
      BY <2>9, <2>14, GoesOn
    <2> QED
      BY <1>2, <2>15 DEF SbReg, a, up, down
  <1> QED
    BY <1>1, <1>2

LEMMA PR_SBREG ==
  ASSUME NEW p, NEW c, NEW t, NEW q, Values(p, c, "out", t, q), Home(p, c), p.bus = bus
  PROVE  /\ Goes(p, Sh(c, "lower", "out", t, q), R_SBREG(c), Sh(c, "lower", "out", t, q))
         /\ Goes(p, Sh(c, "lower", "out", t, q), SET_SBREG(c), Sh(c, "lower", "out", t, q))
  <1> DEFINE d == Do("reg", c, TRUE, {})
             a == Sh(c, "lower", "out", t, q)
             b == Sh(c, "upper", Off(p, c), t, q)
  <1>1. d \in Op /\ d.k = "reg" /\ d.idx = c /\ d.upper = TRUE
    BY DEF Do, Op, Kinds, Values
  <1>2. /\ a \in Shadow /\ Calm(p, a) /\ a.cur = c
        /\ b \in Shadow /\ Calm(p, b) /\ b.cur = c /\ b.half = "upper"
    BY DEF Sh, Shadow, Calm, Home, Values, Off
  <1> HIDE DEF a, b, d
  <1>3. Moves(p, d, b, b) /\ (~Segmented => Moves(p, d, a, a))
    BY <1>1, <1>2 DEF Moves, Reaches, Segmented
  <1>4. Goes(p, b, <<d>>, b) /\ (~Segmented => Goes(p, a, <<d>>, a))
    BY <1>1, <1>2, <1>3, GoesOne
  <1>5. Goes(p, a, SbReg(<<d>>), a)
    BY <1>4, PSbReg DEF a, b
  <1>6. Goes(p, a, R_SBREG(c), a)
    BY <1>5 DEF R_SBREG, d
  <1>7. Goes(p, a, R_SBREG(c) \o R_SBREG(c), a)
    BY <1>6, GoesOn
  <1> QED
    BY <1>6, <1>7 DEF SET_SBREG, a

\* Reset, or a stopped clock, is only for a core that cannot be busy.
Resettable(b, t, q) ==
  "RESET" \in b \/ "CLK" \notin b => "RESET" \in t \/ "CLK" \notin t \/ q = 2

LEMMA PW_TML ==
  ASSUME NEW p, NEW t, NEW q, NEW b \in SUBSET Bits, Values(p, curidx, "out", t, q),
         Home(p, curidx), p.bus = bus, Resettable(b, t, q),
         NEW r, r = IF "REJ" \in b THEN q ELSE 0
  PROVE  Goes(p, Sh(curidx, "lower", "out", t, q), W_TML(b), Sh(curidx, "lower", "out", b, r))
  <1> DEFINE c == curidx
             d == Do("tml", c, TRUE, b)
             a == Sh(c, "lower", "out", t, q)
             e == Sh(c, "lower", "out", b, r)
             f == Sh(c, "upper", Off(p, c), t, q)
             g == Sh(c, "upper", Off(p, c), b, r)
  <1>1. d \in Op /\ d.k = "tml" /\ d.idx = c /\ d.upper = TRUE /\ d.bits = b
    BY DEF Do, Op, Kinds, Values
  <1>2. /\ a \in Shadow /\ Calm(p, a) /\ a.cur = c /\ a.tml = t /\ a.quiet = q
        /\ e \in Shadow /\ Calm(p, e)
        /\ f \in Shadow /\ Calm(p, f) /\ f.cur = c /\ f.tml = t /\ f.quiet = q /\ f.half = "upper"
        /\ g \in Shadow /\ Calm(p, g)
    BY DEF Sh, Shadow, Calm, Home, Values, Off
  <1>3. e = Sh(a.cur, a.half, a.intr, b, r) /\ g = Sh(f.cur, f.half, f.intr, b, r)
    BY DEF Sh
  <1>4. Values(p, c, "out", b, r)
    BY DEF Values
  <1> HIDE DEF a, d, e, f, g
  <1>5. Moves(p, d, f, g) /\ (~Segmented => Moves(p, d, a, e))
    BY <1>1, <1>2, <1>3 DEF Moves, Reaches, Segmented, Resettable
  <1>6. Goes(p, f, <<d>>, g) /\ (~Segmented => Goes(p, a, <<d>>, e))
    BY <1>1, <1>2, <1>5, GoesOne
  <1>7. Goes(p, a, SbReg(<<d>>), e)
    BY <1>4, <1>6, PSbReg DEF a, e, f, g
  <1> QED
    BY <1>7 DEF W_TML, a, d, e

-----------------------------------------------------------------------------
(***************************************************************************)
(* The functions of the library.                                           *)
(***************************************************************************)
LEMMA FindCore ==
  ASSUME NEW c \in Chips, NEW id
  PROVE  /\ (\E i \in Idx(c) : c.cores[i + 1] = id) =>
              sb_findcoreidx(c, id) \in Idx(c) /\ c.cores[sb_findcoreidx(c, id) + 1] = id
         /\ GOODIDX(sb_findcoreidx(c, id)) => sb_findcoreidx(c, id) \in Idx(c)
  <1>1. CASE \E i \in Idx(c) : c.cores[i + 1] = id
    <2> DEFINE T == {i \in Idx(c) : c.cores[i + 1] = id}
    <2>1. T \subseteq Nat
      <3>1. Len(c.cores) \in Nat
        BY SbAssumption
      <3> QED
        BY <3>1 DEF Idx
    <2>0. T # {}
      BY <1>1
    <2> HIDE DEF T
    <2>2. PICK x \in T : \A y \in T : x <= y
      BY <2>0, <2>1, LeastNat
    <2>3. x \in Idx(c) /\ c.cores[x + 1] = id /\ x \in Nat
      BY <2>1 DEF T
    <2>4. ASSUME NEW j \in 0 .. (x - 1) PROVE c.cores[j + 1] # id
      <3>1. j \in Idx(c) /\ ~(x <= j)
        BY <2>3 DEF Idx
      <3> QED
        BY <2>2, <3>1 DEF T
    <2>5. \E i \in Idx(c) : c.cores[i + 1] = id /\ \A j \in 0 .. (i - 1) : c.cores[j + 1] # id
      BY <2>3, <2>4
    <2>6. sb_findcoreidx(c, id) \in Idx(c) /\ c.cores[sb_findcoreidx(c, id) + 1] = id
      BY <1>1, <2>5 DEF sb_findcoreidx
    <2> QED
      BY <2>6
  <1>2. CASE ~ \E i \in Idx(c) : c.cores[i + 1] = id
    <2>1. sb_findcoreidx(c, id) = 17
      BY <1>2 DEF sb_findcoreidx, BADIDX
    <2>2. ~GOODIDX(17)
      BY DEF GOODIDX
    <2> QED
      BY <1>2, <2>1, <2>2
  <1> QED
    BY <1>1, <1>2

LEMMA ChipIs ==
  ASSUME NEW c \in Chips
  PROVE  /\ Len(c.cores) \in Nat /\ Idx(c) \subseteq Nat
         /\ sb_findcoreidx(c, Dev) \in Idx(c)
         /\ c.ccrev >= 6 => sb_findcoreidx(c, "CC") \in Idx(c)
  <1>1. /\ c.cores \in Seq({"CC", "EXTIF", "PCI"} \cup {Dev})
        /\ Cardinality({i \in 1 .. Len(c.cores) : c.cores[i] = Dev}) = 1
        /\ c.ccrev \in Nat
        /\ c.ccrev > 0 => \E i \in 1 .. Len(c.cores) : c.cores[i] = "CC"
    BY SbAssumption
  <1>2. Len(c.cores) \in Nat
    BY <1>1
  <1>3. Idx(c) \subseteq Nat
    BY <1>2 DEF Idx
  <1>4. ASSUME NEW i \in 1 .. Len(c.cores)
        PROVE  i - 1 \in Idx(c) /\ (i - 1) + 1 = i
    BY <1>2 DEF Idx
  <1>5. \E i \in Idx(c) : c.cores[i + 1] = Dev
    <2> DEFINE S == {i \in 1 .. Len(c.cores) : c.cores[i] = Dev}
    <2>1. S # {}
      <3>1. Cardinality(S) = 1
        BY <1>1
      <3> HIDE DEF S
      <3> QED
        BY <3>1, FS_EmptySet
    <2>2. PICK i \in 1 .. Len(c.cores) : c.cores[i] = Dev
      BY <2>1
    <2> QED
      BY <1>4, <2>2
  <1>6. ASSUME c.ccrev >= 6 PROVE \E i \in Idx(c) : c.cores[i + 1] = "CC"
    <2>1. PICK i \in 1 .. Len(c.cores) : c.cores[i] = "CC"
      BY <1>1, <1>6
    <2> QED
      BY <1>4, <2>1
  <1> QED
    BY <1>2, <1>3, <1>5, <1>6, FindCore

\* A call begins: the chip is attached, and p is the context.
Ready(p) ==
  /\ p \in Context /\ p.bus = bus /\ p.n = Len(chip.cores) /\ chip \in Chips /\ Attachable
  /\ curidx \in Nat /\ curidx \in 0 .. (p.n - 1) /\ tml \in SUBSET Bits /\ Home(p, curidx)

\* The index of a core that is there.
There(p, i) == i \in Nat /\ i \in 0 .. (p.n - 1)

LEMMA ReadyCores ==
  ASSUME NEW p, Ready(p)
  PROVE  /\ There(p, sb_findcoreidx(chip, "PCI")) /\ There(p, GpioIdx(chip)) /\ There(p, curidx)
         /\ \A id : GOODIDX(sb_findcoreidx(chip, id)) => There(p, sb_findcoreidx(chip, id))
         /\ chip.ccrev >= 6 => There(p, sb_findcoreidx(chip, "CC"))
         /\ Values(p, curidx, "out", tml, 0)
  <1>1. chip \in Chips /\ Idx(chip) = 0 .. (p.n - 1) /\ Idx(chip) \subseteq Nat
    BY ChipIs DEF Ready, Idx
  <1>2. ASSUME NEW id, GOODIDX(sb_findcoreidx(chip, id))
        PROVE  There(p, sb_findcoreidx(chip, id))
    <2>1. sb_findcoreidx(chip, id) \in Idx(chip)
      BY <1>1, <1>2, FindCore
    <2> QED
      BY <1>1, <2>1 DEF There
  <1>3. chip.ccrev >= 6 => There(p, sb_findcoreidx(chip, "CC"))
    BY <1>1, ChipIs DEF There
  <1>4. There(p, sb_findcoreidx(chip, "PCI"))
    BY <1>2 DEF Ready, Attachable
  <1>5. There(p, GpioIdx(chip))
    <2>1. GOODIDX(GpioIdx(chip))
      BY DEF Ready, Attachable
    <2>2. /\ GpioIdx(chip) \in {sb_findcoreidx(chip, "CC"), sb_findcoreidx(chip, "PCI"),
                                sb_findcoreidx(chip, "EXTIF"), BADIDX}
      BY DEF GpioIdx
    <2>3. ~GOODIDX(BADIDX)
      BY DEF GOODIDX, BADIDX
    <2> QED
      BY <1>2, <2>1, <2>2, <2>3
  <1> QED
    BY <1>2, <1>3, <1>4, <1>5 DEF Ready, There, Values

LEMMA PSlow ==
  ASSUME NEW p, NEW i, NEW x, NEW t, NEW q, Values(p, i, x, t, q), There(p, i), Free(p, x)
  PROVE  Goes(p, Sh(i, "lower", x, t, q), slowfreq(i), Sh(i, "lower", x, t, q))
  <1> DEFINE a == Sh(i, "lower", x, t, q)
  <1>1. Goes(p, a, Focus(i), a)
    BY PFocus DEF There
  <1>2. Goes(p, a, Reg(i), a)
    BY PReg
  <1> HIDE DEF a
  <1>3. Goes(p, a, Focus(i) \o Reg(i), a)
    BY <1>1, <1>2, GoesOn
  <1>4. Goes(p, a, Focus(i) \o Reg(i) \o Reg(i), a)
    BY <1>3, <1>2, GoesOn
  <1> QED
    BY <1>4 DEF slowfreq, a

\* The interrupt is off, if it was on.
LEMMA PLock ==
  ASSUME NEW p, NEW c, NEW t, NEW q, Values(p, c, "out", t, q), Home(p, c)
  PROVE  Goes(p, Sh(c, "lower", "out", t, q), Enter \o IntrOff, Sh(c, "lower", Off(p, c), t, q))
  <1> DEFINE home == Sh(c, "lower", "out", t, q)
             entered == Sh(c, "lower", "in", t, q)
             held == Sh(c, "lower", Off(p, c), t, q)
  <1>a. Values(p, c, "in", t, q)
    BY DEF Values
  <1>1. Goes(p, home, Enter, entered)
    BY PEnter
  <1>2. Goes(p, entered, IntrOff, held)
    BY <1>a, PIntrOff
  <1> HIDE DEF home, entered, held
  <1>3. Goes(p, home, Enter \o IntrOff, held)
    BY <1>1, <1>2, GoesOn
  <1> QED
    BY <1>3 DEF home, held

LEMMA PCommit ==
  ASSUME NEW p, NEW c, NEW t, NEW q, Values(p, c, "out", t, q), There(p, c), Home(p, c),
         Ready(p)
  PROVE  Goes(p, Sh(c, "lower", "out", t, q), sb_commit(c), Sh(c, "lower", "out", t, q))
  <1> DEFINE i == sb_findcoreidx(chip, "PCI")
             home == Sh(c, "lower", "out", t, q)
             entered == Sh(c, "lower", "in", t, q)
             held == Sh(c, "lower", Off(p, c), t, q)
             away == Sh(i, "lower", Off(p, c), t, q)
  <1>a. /\ There(p, i) /\ Free(p, Off(p, c)) /\ Values(p, c, "in", t, q)
        /\ Values(p, c, Off(p, c), t, q) /\ Values(p, i, Off(p, c), t, q)
    BY OffIs, ReadyCores DEF Values, There
  <1> HIDE DEF i
  <1>1. Goes(p, home, Enter \o IntrOff, held)
    BY PLock
  <1>2. Goes(p, held, Focus(i), away)
    BY <1>a, PFocus DEF There
  <1>3. Goes(p, away, Reg(i), away)
    BY <1>a, PReg
  <1>4. Goes(p, away, Focus(c), held)
    BY <1>a, PFocus DEF There
  <1>5. Goes(p, held, IntrRestore, entered)
    BY <1>a, PIntrRestore
  <1>6. Goes(p, entered, Leave, home)
    BY <1>a, PLeave
  <1> HIDE DEF home, entered, held, away
  <1>7. Goes(p, home, Enter \o IntrOff \o Focus(i), away)
    BY <1>1, <1>2, GoesOn
  <1>8. Goes(p, home, Enter \o IntrOff \o Focus(i) \o Reg(i), away)
    BY <1>7, <1>3, GoesOn
  <1>9. Goes(p, home, Enter \o IntrOff \o Focus(i) \o Reg(i) \o Reg(i), away)
    BY <1>8, <1>3, GoesOn
  <1>10. Goes(p, home, Enter \o IntrOff \o Focus(i) \o Reg(i) \o Reg(i) \o Focus(c), held)
    BY <1>9, <1>4, GoesOn
  <1>11. Goes(p, home,
            Enter \o IntrOff \o Focus(i) \o Reg(i) \o Reg(i) \o Focus(c) \o IntrRestore,
            entered)
    BY <1>10, <1>5, GoesOn
  <1>12. Goes(p, home,
            Enter \o IntrOff \o Focus(i) \o Reg(i) \o Reg(i) \o Focus(c) \o IntrRestore \o Leave,
            home)
    BY <1>11, <1>6, GoesOn
  <1> QED
    BY <1>12 DEF sb_commit, home, i

\* Where a call begins.
Start == Sh(curidx, "lower", "out", tml, 0)

LEMMA PCorereg ==
  ASSUME NEW p, Ready(p), NEW i, There(p, i), ~Segmented
  PROVE  Goes(p, Start, sb_corereg(i), Start)
  <1> DEFINE x == Off(p, curidx)
             home == Sh(curidx, "lower", "out", tml, 0)
             entered == Sh(curidx, "lower", "in", tml, 0)
             held == Sh(curidx, "lower", x, tml, 0)
             away == Sh(i, "lower", x, tml, 0)
             back == (IF curidx # i THEN Focus(curidx) ELSE << >>)
  <1>a. /\ x \in {"out", "in", "off"} /\ Free(p, x) /\ There(p, curidx) /\ Home(p, curidx)
        /\ Values(p, curidx, "out", tml, 0) /\ Values(p, curidx, "in", tml, 0)
        /\ Values(p, curidx, x, tml, 0) /\ Values(p, i, x, tml, 0) /\ There(p, i)
    BY OffIs, ReadyCores DEF Values, There, Ready
  <1>1. Goes(p, home, Enter \o IntrOff, held)
    BY <1>a, PLock
  <1>2. Goes(p, held, Focus(i), away)
    BY <1>a, PFocus DEF There
  <1>3. Goes(p, away, Reg(i), away)
    BY <1>a, PReg
  <1>4. Goes(p, away, SbReg(Reg(i)), away)
    BY <1>3 DEF SbReg
  <1>5. Goes(p, away, back, held)
    <2>1. CASE curidx # i
      BY <1>a, <2>1, PFocus DEF There
    <2>2. CASE curidx = i
      <3>1. away = held /\ away \in Shadow /\ Calm(p, away)
        BY <1>3, <2>2, GoesStarts
      <3>2. back = << >>
        BY <2>2
      <3> HIDE DEF back, away, held
      <3> QED
        BY <3>1, <3>2, GoesNone
    <2> QED
      BY <2>1, <2>2
  <1>6. Goes(p, held, IntrRestore, entered)
    BY <1>a, PIntrRestore DEF x
  <1>7. Goes(p, entered, Leave, home)
    BY <1>a, PLeave
  <1> HIDE DEF home, entered, held, away, back
  <1>8. Goes(p, home, Enter \o IntrOff \o Focus(i), away)
    BY <1>1, <1>2, GoesOn
  <1>9. Goes(p, home, Enter \o IntrOff \o Focus(i) \o Reg(i), away)
    BY <1>8, <1>3, GoesOn
  <1>10. Goes(p, home, Enter \o IntrOff \o Focus(i) \o Reg(i) \o Reg(i), away)
    BY <1>9, <1>3, GoesOn
  <1>11. Goes(p, home, Enter \o IntrOff \o Focus(i) \o Reg(i) \o Reg(i) \o SbReg(Reg(i)), away)
    BY <1>10, <1>4, GoesOn
  <1>12. Goes(p, home,
            Enter \o IntrOff \o Focus(i) \o Reg(i) \o Reg(i) \o SbReg(Reg(i)) \o back,
            held)
    BY <1>11, <1>5, GoesOn
  <1>13. Goes(p, home,
            Enter \o IntrOff \o Focus(i) \o Reg(i) \o Reg(i) \o SbReg(Reg(i)) \o back
            \o IntrRestore,
            entered)
    BY <1>12, <1>6, GoesOn
  <1>14. Goes(p, home,
            Enter \o IntrOff \o Focus(i) \o Reg(i) \o Reg(i) \o SbReg(Reg(i)) \o back
            \o IntrRestore \o Leave,
            home)
    BY <1>13, <1>7, GoesOn
  <1> QED
    BY <1>14 DEF sb_corereg, Start, home, back

LEMMA PTofixup ==
  ASSUME NEW p, Ready(p)
  PROVE  Goes(p, Start, sb_core_tofixup, Start)
  <1>1. Values(p, curidx, "out", tml, 0) /\ There(p, curidx) /\ Home(p, curidx) /\ p.bus = bus
    BY ReadyCores DEF Ready
  <1>2. Goes(p, Start, SET_SBREG(curidx), Start)
    BY <1>1, PR_SBREG DEF Start
  <1>3. Goes(p, Start, sb_commit(curidx), Start)
    BY <1>1, PCommit DEF Start
  <1>4. Goes(p, Start, SET_SBREG(curidx) \o sb_commit(curidx), Start)
    BY <1>2, <1>3, GoesOn
  <1>5. Goes(p, Start, << >>, Start)
    BY <1>2, GoesStarts, GoesNone
  <1> QED
    BY <1>4, <1>5 DEF sb_core_tofixup

LEMMA PClock ==
  ASSUME NEW p, Ready(p)
  PROVE  Goes(p, Start, sb_clock, Start)
  <1> DEFINE extif == sb_findcoreidx(chip, "EXTIF")
             cc == sb_findcoreidx(chip, "CC")
             there == {j \in {extif, cc} : GOODIDX(j)}
             i == IF GOODIDX(extif) THEN extif ELSE cc
             opt == (IF i = extif THEN << >> ELSE Reg(i))
             visit == Focus(i) \o opt \o Reg(i) \o Reg(i) \o Focus(curidx)
             mid == (IF there = {} THEN << >> ELSE visit)
             x == Off(p, curidx)
             home == Sh(curidx, "lower", "out", tml, 0)
             entered == Sh(curidx, "lower", "in", tml, 0)
             held == Sh(curidx, "lower", x, tml, 0)
             away == Sh(i, "lower", x, tml, 0)
  <1>a. /\ x \in {"out", "in", "off"} /\ Free(p, x) /\ There(p, curidx) /\ Home(p, curidx)
        /\ Values(p, curidx, "out", tml, 0) /\ Values(p, curidx, "in", tml, 0)
        /\ Values(p, curidx, x, tml, 0)
    BY OffIs, ReadyCores DEF Values, There, Ready
  <1>b. there # {} => There(p, i)
    BY ReadyCores
  <1> HIDE DEF i, x, there
  <1>c. there # {} => Goes(p, held, visit, held)
    <2> HAVE there # {}
    <2>a. There(p, i) /\ Values(p, i, x, tml, 0)
      BY <1>a, <1>b DEF Values, There
    <2>1. Goes(p, held, Focus(i), away)
      BY <1>a, <2>a, PFocus DEF There
    <2>2. Goes(p, away, Reg(i), away)
      BY <1>a, <2>a, PReg
    <2>3. Goes(p, away, opt, away)
      BY <2>2, GoesStarts, GoesNone
    <2>4. Goes(p, away, Focus(curidx), held)
      BY <1>a, <2>a, PFocus DEF There
    <2> HIDE DEF away, held, opt
    <2>5. Goes(p, held, Focus(i) \o opt, away)
      BY <2>1, <2>3, GoesOn
    <2>6. Goes(p, held, Focus(i) \o opt \o Reg(i), away)
      BY <2>2, <2>5, GoesOn
    <2>7. Goes(p, held, Focus(i) \o opt \o Reg(i) \o Reg(i), away)
      BY <2>2, <2>6, GoesOn
    <2> QED
      BY <2>4, <2>7, GoesOn
  <1>d. held \in Shadow /\ Calm(p, held)
    BY <1>a, PLock, GoesStarts, OffIs DEF Sh, Shadow, Calm, Free, Values
  <1> HIDE DEF visit
  <1>1. Goes(p, home, Enter \o IntrOff, held)
    BY <1>a, PLock DEF x
  <1>2. Goes(p, held, mid, held)
    BY <1>c, <1>d, GoesNone
  <1>3. Goes(p, held, IntrRestore, entered)
    BY <1>a, PIntrRestore DEF x
  <1>4. Goes(p, entered, Leave, home)
    BY <1>a, PLeave
  <1> HIDE DEF home, entered, held, away, mid
  <1>5. Goes(p, home, Enter \o IntrOff \o mid, held)
    BY <1>1, <1>2, GoesOn
  <1>6. Goes(p, home, Enter \o IntrOff \o mid \o IntrRestore, entered)
    BY <1>5, <1>3, GoesOn
  <1>7. Goes(p, home, Enter \o IntrOff \o mid \o IntrRestore \o Leave, home)
    BY <1>6, <1>4, GoesOn
  <1> QED
    BY <1>7 DEF sb_clock, Start, home, mid, visit, i, x, there

LEMMA PPciSetup ==
  ASSUME NEW p, Ready(p), p.guard = "no"
  PROVE  Goes(p, Start, sb_pci_setup, Start)
  <1>0. CASE bus # "PCI"
    <2>1. Goes(p, Start, R_SBREG(curidx), Start)
      BY PR_SBREG, ReadyCores DEF Start, Ready
    <2>2. Goes(p, Start, << >>, Start)
      BY <2>1, GoesStarts, GoesNone
    <2> QED
      BY <1>0, <2>2 DEF sb_pci_setup
  <1> DEFINE i == sb_findcoreidx(chip, "PCI")
             fix1 == (IF chip.pcirev < 6 THEN SET_SBREG(i) ELSE << >>)
             fix2 == (IF chip.pcirev < 5 THEN SET_SBREG(i) \o sb_commit(i) ELSE << >>)
             home == Sh(curidx, "lower", "out", tml, 0)
             away == Sh(i, "lower", "out", tml, 0)
  <1>a. /\ Free(p, "out") /\ There(p, curidx) /\ There(p, i)
        /\ Home(p, curidx) /\ Home(p, i) /\ p.bus = bus
        /\ Values(p, curidx, "out", tml, 0) /\ Values(p, i, "out", tml, 0)
    BY ReadyCores DEF Values, There, Ready, Free, Home
  <1> HIDE DEF i
  <1>1. Goes(p, home, R_SBREG(curidx), home)
    BY <1>a, PR_SBREG
  <1>2. Goes(p, home, Focus(i), away)
    BY <1>a, PFocus DEF There
  <1>3. Goes(p, away, fix1, away)
    <2>1. Goes(p, away, SET_SBREG(i), away)
      BY <1>a, PR_SBREG
    <2> HIDE DEF away
    <2> QED
      BY <2>1, GoesStarts, GoesNone
  <1>4. Goes(p, away, Reg(i), away)
    BY <1>a, PReg
  <1>5. Goes(p, away, fix2, away)
    <2>1. Goes(p, away, SET_SBREG(i), away)
      BY <1>a, PR_SBREG
    <2>2. Goes(p, away, sb_commit(i), away)
      BY <1>a, PCommit
    <2> HIDE DEF away
    <2>3. Goes(p, away, SET_SBREG(i) \o sb_commit(i), away)
      BY <2>1, <2>2, GoesOn
    <2> QED
      BY <2>3, GoesStarts, GoesNone
  <1>6. Goes(p, away, Focus(curidx), home)
    BY <1>a, PFocus DEF There
  <1> HIDE DEF home, away, fix1, fix2
  <1>7. Goes(p, home, R_SBREG(curidx) \o Focus(i), away)
    BY <1>1, <1>2, GoesOn
  <1>8. Goes(p, home, R_SBREG(curidx) \o Focus(i) \o fix1, away)
    BY <1>7, <1>3, GoesOn
  <1>9. Goes(p, home, R_SBREG(curidx) \o Focus(i) \o fix1 \o Reg(i), away)
    BY <1>8, <1>4, GoesOn
  <1>10. Goes(p, home, R_SBREG(curidx) \o Focus(i) \o fix1 \o Reg(i) \o Reg(i), away)
    BY <1>9, <1>4, GoesOn
  <1>11. Goes(p, home, R_SBREG(curidx) \o Focus(i) \o fix1 \o Reg(i) \o Reg(i) \o fix2, away)
    BY <1>10, <1>5, GoesOn
  <1>12. Goes(p, home,
            R_SBREG(curidx) \o Focus(i) \o fix1 \o Reg(i) \o Reg(i) \o fix2 \o Focus(curidx),
            home)
    BY <1>11, <1>6, GoesOn
  <1> QED
    BY <1>0, <1>12 DEF sb_pci_setup, Start, home, fix1, fix2, i

LEMMA PPwrctlInit ==
  ASSUME NEW p, Ready(p), p.guard = "no"
  PROVE  Goes(p, Start, sb_pwrctl_init, Start)
  <1> DEFINE i == sb_findcoreidx(chip, "CC")
             card == (IF bus = "PCMCIA" THEN Reg(i) \o Reg(i) ELSE << >>)
             slow == (IF ~chip.pwrctl THEN << >> ELSE slowfreq(i) \o Reg(i) \o Reg(i) \o card)
             home == Sh(curidx, "lower", "out", tml, 0)
             away == Sh(i, "lower", "out", tml, 0)
  <1>0. CASE bus = "SB" \/ ~GOODIDX(i)
    <2>1. Goes(p, Start, R_SBREG(curidx), Start)
      BY PR_SBREG, ReadyCores DEF Start, Ready
    <2>2. Goes(p, Start, << >>, Start)
      BY <2>1, GoesStarts, GoesNone
    <2> QED
      BY <1>0, <2>2 DEF sb_pwrctl_init
  <1> SUFFICES ASSUME bus # "SB", GOODIDX(i) PROVE Goes(p, Start, sb_pwrctl_init, Start)
    BY <1>0
  <1>a. /\ Free(p, "out") /\ There(p, curidx) /\ There(p, i)
        /\ Values(p, curidx, "out", tml, 0) /\ Values(p, i, "out", tml, 0)
    BY ReadyCores DEF Values, There, Ready, Free, Home
  <1> HIDE DEF i
  <1>1. Goes(p, home, Focus(i), away)
    BY <1>a, PFocus DEF There
  <1>2. Goes(p, away, Reg(i), away)
    BY <1>a, PReg
  <1>3. Goes(p, away, slow, away)
    <2>1. Goes(p, away, slowfreq(i), away)
      BY <1>a, PSlow
    <2>2. Goes(p, away, Reg(i), away)
      BY <1>a, PReg
    <2> HIDE DEF away
    <2>3. Goes(p, away, slowfreq(i) \o Reg(i), away)
      BY <2>1, <2>2, GoesOn
    <2>4. Goes(p, away, slowfreq(i) \o Reg(i) \o Reg(i), away)
      BY <2>2, <2>3, GoesOn
    <2>5. Goes(p, away, << >>, away)
      BY <2>4, GoesStarts, GoesNone
    <2>6. Goes(p, away, Reg(i) \o Reg(i), away)
      BY <2>2, GoesOn
    <2>7. Goes(p, away, card, away)
      BY <2>5, <2>6
    <2> HIDE DEF card
    <2>8. Goes(p, away, slowfreq(i) \o Reg(i) \o Reg(i) \o card, away)
      BY <2>4, <2>7, GoesOn
    <2> QED
      BY <2>5, <2>8
  <1>4. Goes(p, away, Focus(curidx), home)
    BY <1>a, PFocus DEF There
  <1> HIDE DEF home, away, slow
  <1>5. Goes(p, home, Focus(i) \o Reg(i), away)
    BY <1>1, <1>2, GoesOn
  <1>6. Goes(p, home, Focus(i) \o Reg(i) \o slow, away)
    BY <1>5, <1>3, GoesOn
  <1>7. Goes(p, home, Focus(i) \o Reg(i) \o slow \o Focus(curidx), home)
    BY <1>6, <1>4, GoesOn
  <1> QED
    BY <1>7 DEF sb_pwrctl_init, Start, home, slow, card, i

LEMMA PFastDelay ==
  ASSUME NEW p, Ready(p), bus # "SB"
  PROVE  Goes(p, Start, sb_pwrctl_fast_pwrup_delay, Start)
  <1> DEFINE i == sb_findcoreidx(chip, "CC")
             j == IF GOODIDX(i) THEN i ELSE curidx
             slow == (IF chip.pwrctl THEN slowfreq(i) \o Reg(i) ELSE << >>)
             look == (IF ~GOODIDX(i) THEN << >> ELSE Focus(i) \o Reg(i) \o slow)
             mid == (IF bus = "SB" THEN << >> ELSE IntrOff \o look)
             x == Off(p, curidx)
             home == Sh(curidx, "lower", "out", tml, 0)
             entered == Sh(curidx, "lower", "in", tml, 0)
             held == Sh(curidx, "lower", x, tml, 0)
             away == Sh(i, "lower", x, tml, 0)
             there == Sh(j, "lower", x, tml, 0)
  <1>a. /\ x \in {"out", "in", "off"} /\ Free(p, x) /\ There(p, curidx) /\ Home(p, curidx)
        /\ Values(p, curidx, "out", tml, 0) /\ Values(p, curidx, "in", tml, 0)
        /\ Values(p, curidx, x, tml, 0) /\ (GOODIDX(i) => There(p, i))
    BY OffIs, ReadyCores DEF Values, There, Ready
  <1>b. There(p, j) /\ Values(p, j, x, tml, 0)
    BY <1>a DEF Values, There
  <1> HIDE DEF i, x
  <1>1. Goes(p, home, Enter, entered)
    BY <1>a, PEnter
  <1>2. Goes(p, entered, IntrOff, held)
    BY <1>a, PIntrOff DEF x
  <1>3. Goes(p, held, look, there)
    <2>1. CASE ~GOODIDX(i)
      <3>1. there = held /\ look = << >>
        BY <2>1
      <3>2. held \in Shadow /\ Calm(p, held)
        BY <1>a, PReg, GoesStarts
      <3> HIDE DEF there, held, look
      <3> QED
        BY <3>1, <3>2, GoesNone
    <2>2. CASE GOODIDX(i)
      <3>1. There(p, i) /\ Values(p, i, x, tml, 0) /\ there = away
        BY <1>a, <2>2 DEF Values, There
      <3>2. Goes(p, held, Focus(i), away)
        BY <1>a, <3>1, PFocus DEF There
      <3>3. Goes(p, away, Reg(i), away)
        BY <1>a, <3>1, PReg
      <3>4. Goes(p, away, slowfreq(i), away)
        BY <1>a, <3>1, PSlow
      <3> HIDE DEF away, held, there
      <3>5. Goes(p, away, slowfreq(i) \o Reg(i), away)
        BY <3>3, <3>4, GoesOn
      <3>6. Goes(p, away, slow, away)
        BY <3>5, GoesStarts, GoesNone
      <3> HIDE DEF slow
      <3>7. Goes(p, held, Focus(i) \o Reg(i), away)
        BY <3>2, <3>3, GoesOn
      <3>8. Goes(p, held, Focus(i) \o Reg(i) \o slow, away)
        BY <3>6, <3>7, GoesOn
      <3> QED
        BY <2>2, <3>1, <3>8
    <2> QED
      BY <2>1, <2>2
  <1>4. Goes(p, there, Focus(curidx), held)
    BY <1>a, <1>b, PFocus DEF There
  <1>5. Goes(p, held, IntrRestore, entered)
    BY <1>a, PIntrRestore DEF x
  <1>6. Goes(p, entered, Leave, home)
    BY <1>a, PLeave
  <1> HIDE DEF home, entered, held, there, look, j
  <1>7. Goes(p, entered, IntrOff \o look, there)
    BY <1>2, <1>3, GoesOn
  <1>8. Goes(p, entered, mid, there)
    BY <1>7
  <1> HIDE DEF mid
  <1>9. Goes(p, home, Enter \o mid, there)
    BY <1>1, <1>8, GoesOn
  <1>10. Goes(p, home, Enter \o mid \o Focus(curidx), held)
    BY <1>4, <1>9, GoesOn
  <1>11. Goes(p, home, Enter \o mid \o Focus(curidx) \o IntrRestore, entered)
    BY <1>5, <1>10, GoesOn
  <1>12. Goes(p, home, Enter \o mid \o Focus(curidx) \o IntrRestore \o Leave, home)
    BY <1>6, <1>11, GoesOn
  <1> QED
    BY <1>12 DEF sb_pwrctl_fast_pwrup_delay, Start, home, mid, look, i

LEMMA PClk ==
  ASSUME NEW p, Ready(p), NEW mode, ~(mode = "CLK_SLOW" /\ bus = "PCMCIA")
  PROVE  Goes(p, Start, sb_pwrctl_clk(mode), Start)
  <1> DEFINE i == sb_findcoreidx(chip, "CC")
             done == Focus(curidx) \o IntrRestore \o Leave
             rest == CASE ~chip.pwrctl -> done
                       [] chip.pwrctl /\ mode = "CLK_SLOW" /\ bus = "PCMCIA" -> Leave
                       [] OTHER -> Reg(i) \o Reg(i) \o done
             x == Off(p, curidx)
             home == Sh(curidx, "lower", "out", tml, 0)
             entered == Sh(curidx, "lower", "in", tml, 0)
             held == Sh(curidx, "lower", x, tml, 0)
             away == Sh(i, "lower", x, tml, 0)
  <1>0. CASE chip.ccrev < 6
    <2>1. Goes(p, Start, R_SBREG(curidx), Start)
      BY PR_SBREG, ReadyCores DEF Start, Ready
    <2>2. Goes(p, Start, << >>, Start)
      BY <2>1, GoesStarts, GoesNone
    <2> QED
      BY <1>0, <2>2 DEF sb_pwrctl_clk
  <1> SUFFICES ASSUME ~(chip.ccrev < 6) PROVE Goes(p, Start, sb_pwrctl_clk(mode), Start)
    BY <1>0
  <1>z. chip.ccrev >= 6
    <2>1. chip.ccrev \in Nat
      BY SbAssumption DEF Ready
    <2> QED
      BY <2>1
  <1>a. /\ x \in {"out", "in", "off"} /\ Free(p, x) /\ There(p, curidx) /\ Home(p, curidx)
        /\ Values(p, curidx, "out", tml, 0) /\ Values(p, curidx, "in", tml, 0)
        /\ Values(p, curidx, x, tml, 0) /\ Values(p, i, x, tml, 0) /\ There(p, i)
    BY <1>z, OffIs, ReadyCores DEF Values, There, Ready
  <1> HIDE DEF i, x
  <1>1. Goes(p, home, Enter \o IntrOff, held)
    BY <1>a, PLock DEF x
  <1>2. Goes(p, held, Focus(i), away)
    BY <1>a, PFocus DEF There
  <1>3. Goes(p, away, Reg(i), away)
    BY <1>a, PReg
  <1>4. Goes(p, away, Focus(curidx), held)
    BY <1>a, PFocus DEF There
  <1>5. Goes(p, held, IntrRestore, entered)
    BY <1>a, PIntrRestore DEF x
  <1>6. Goes(p, entered, Leave, home)
    BY <1>a, PLeave
  <1> HIDE DEF home, entered, held, away
  <1>7. Goes(p, away, Focus(curidx) \o IntrRestore, entered)
    BY <1>4, <1>5, GoesOn
  <1>8. Goes(p, away, done, home)
    BY <1>6, <1>7, GoesOn
  <1> HIDE DEF done
  <1>9. Goes(p, away, Reg(i) \o Reg(i), away)
    BY <1>3, GoesOn
  <1>10. Goes(p, away, Reg(i) \o Reg(i) \o done, home)
    BY <1>8, <1>9, GoesOn
  <1>11. Goes(p, away, rest, home)
    BY <1>8, <1>10
  <1> HIDE DEF rest
  <1>12. Goes(p, home, Enter \o IntrOff \o Focus(i), away)
    BY <1>1, <1>2, GoesOn
  <1>13. Goes(p, home, Enter \o IntrOff \o Focus(i) \o Reg(i), away)
    BY <1>3, <1>12, GoesOn
  <1>14. Goes(p, home, Enter \o IntrOff \o Focus(i) \o Reg(i) \o rest, home)
    BY <1>11, <1>13, GoesOn
  <1> QED
    BY <1>14 DEF sb_pwrctl_clk, Start, home, rest, done, i

LEMMA PDisable ==
  ASSUME NEW p, Ready(p)
  PROVE  \E u \in SUBSET Bits, r \in 0 .. 2 :
           /\ "RESET" \in u
           /\ Goes(p, Start, sb_core_disable, Sh(curidx, "lower", "out", u, r))
  <1> DEFINE R == R_SBREG(curidx)
             t1 == {"CLK", "REJ"}
             t2 == {"FGC", "CLK", "REJ", "RESET"}
             t3 == {"REJ", "RESET"}
             a1 == Sh(curidx, "lower", "out", t1, 0)
             a2 == Sh(curidx, "lower", "out", t1, 1)
             a3 == Sh(curidx, "lower", "out", t1, 2)
             a4 == Sh(curidx, "lower", "out", t2, 2)
             a5 == Sh(curidx, "lower", "out", t3, 2)
             b3 == Sh(curidx, "lower", "out", t3, 0)
  <1>a. Values(p, curidx, "out", tml, 0) /\ Home(p, curidx) /\ p.bus = bus /\ p \in Context
      /\ curidx \in Nat
    BY ReadyCores DEF Ready
  <1>b. ASSUME NEW t \in SUBSET Bits, NEW q \in 0 .. 2
        PROVE  /\ Values(p, curidx, "out", t, q)
               /\ Goes(p, Sh(curidx, "lower", "out", t, q), R, Sh(curidx, "lower", "out", t, q))
    <2>1. Values(p, curidx, "out", t, q)
      BY <1>a DEF Values
    <2> QED
      BY <1>a, <2>1, PR_SBREG
  <1>c. t1 \in SUBSET Bits /\ t2 \in SUBSET Bits /\ t3 \in SUBSET Bits
    BY DEF Bits
  <1>1. Goes(p, Start, R, Start)
    BY <1>a, PR_SBREG DEF Start
  <1>2. CASE "RESET" \in tml
    <2>1. Goes(p, Start, << >>, Start)
      BY <1>1, GoesStarts, GoesNone
    <2>2. Goes(p, Start, R \o << >>, Start)
      BY <1>1, <2>1, GoesOn
    <2>3. sb_core_disable = R \o << >>
      BY <1>2 DEF sb_core_disable
    <2>4. tml \in SUBSET Bits
      BY DEF Ready
    <2> QED
      BY <1>2, <2>2, <2>3, <2>4 DEF Start
  <1>3. CASE "RESET" \notin tml /\ "CLK" \notin tml
    <2>1. Resettable(t3, tml, 0)
      BY <1>3 DEF Resettable
    <2>2. Goes(p, Start, W_TML(t3), b3)
      BY <1>a, <1>c, <2>1, PW_TML DEF Start
    <2> HIDE DEF b3, R
    <2>3. Goes(p, Start, R \o W_TML(t3), b3)
      BY <1>1, <2>2, GoesOn
    <2>4. Goes(p, Start, R \o (R \o W_TML(t3)), b3)
      BY <1>1, <2>3, GoesOn
    <2>5. sb_core_disable = R \o (R \o W_TML(t3))
      BY <1>3 DEF sb_core_disable, R
    <2>6. "RESET" \in t3
      OBVIOUS
    <2> HIDE DEF t3
    <2> QED
      BY <1>c, <2>4, <2>5, <2>6 DEF b3
  <1>4. CASE "RESET" \notin tml /\ "CLK" \in tml
    <2>1. Goes(p, Start, W_TML(t1), a1)
      <3>1. Resettable(t1, tml, 0)
        BY DEF Resettable
      <3> QED
        BY <1>a, <1>c, <3>1, PW_TML DEF Start
    <2>2. Goes(p, a1, R, a1) /\ Goes(p, a2, R, a2) /\ Goes(p, a4, R, a4)
      BY <1>b, <1>c
    <2>3. Goes(p, a1, Await("reject"), a2)
      BY <1>a, <1>b, <1>c, PAwait
    <2>4. Goes(p, a2, Await("idle"), a3)
      BY <1>a, <1>b, <1>c, PAwait
    <2>5. Goes(p, a3, W_TML(t2), a4)
      <3>1. Resettable(t2, t1, 2) /\ Values(p, curidx, "out", t1, 2)
        BY <1>b, <1>c DEF Resettable
      <3> QED
        BY <1>a, <1>c, <3>1, PW_TML
    <2>6. Goes(p, a4, W_TML(t3), a5)
      <3>1. Resettable(t3, t2, 2) /\ Values(p, curidx, "out", t2, 2)
        BY <1>b, <1>c DEF Resettable
      <3> QED
        BY <1>a, <1>c, <3>1, PW_TML
    <2> HIDE DEF a1, a2, a3, a4, a5, R, t1, t2, t3
    <2>7. Goes(p, Start, R \o W_TML(t1), a1)
      BY <1>1, <2>1, GoesOn
    <2>8. Goes(p, Start, R \o W_TML(t1) \o R, a1)
      BY <2>7, <2>2, GoesOn
    <2>9. Goes(p, Start, R \o W_TML(t1) \o R \o Await("reject"), a2)
      BY <2>8, <2>3, GoesOn
    <2>10. Goes(p, Start, R \o W_TML(t1) \o R \o Await("reject") \o R, a2)
      BY <2>9, <2>2, GoesOn
    <2>11. Goes(p, Start, R \o W_TML(t1) \o R \o Await("reject") \o R \o Await("idle"), a3)
      BY <2>10, <2>4, GoesOn
    <2>12. Goes(p, Start,
                R \o W_TML(t1) \o R \o Await("reject") \o R \o Await("idle") \o W_TML(t2), a4)
      BY <2>11, <2>5, GoesOn
    <2>13. Goes(p, Start,
                R \o W_TML(t1) \o R \o Await("reject") \o R \o Await("idle") \o W_TML(t2) \o R, a4)
      BY <2>12, <2>2, GoesOn
    <2>14. Goes(p, Start,
                R \o W_TML(t1) \o R \o Await("reject") \o R \o Await("idle") \o W_TML(t2) \o R
                \o W_TML(t3), a5)
      BY <2>13, <2>6, GoesOn
    <2>15. Goes(p, Start,
                R \o (R \o W_TML(t1) \o R \o Await("reject") \o R \o Await("idle")
                \o W_TML(t2) \o R \o W_TML(t3)), a5)
      BY <1>1, <2>14, GoesOn
    <2>16. sb_core_disable =
             R \o (R \o W_TML(t1) \o R \o Await("reject") \o R \o Await("idle") \o W_TML(t2)
             \o R \o W_TML(t3))
      BY <1>4 DEF sb_core_disable, R, t1, t2, t3
    <2>17. "RESET" \in t3
      BY DEF t3
    <2> QED
      BY <1>c, <2>15, <2>16, <2>17 DEF a5
  <1> QED
    BY <1>2, <1>3, <1>4

LEMMA PReset ==
  ASSUME NEW p, Ready(p)
  PROVE  \E u \in SUBSET Bits : Goes(p, Start, sb_core_reset, Sh(curidx, "lower", "out", u, 0))
  <1> DEFINE R == R_SBREG(curidx)
             t1 == {"FGC", "CLK", "RESET"}
             t2 == {"FGC", "CLK"}
             t3 == {"CLK"}
             a1 == Sh(curidx, "lower", "out", t1, 0)
             a2 == Sh(curidx, "lower", "out", t2, 0)
             a3 == Sh(curidx, "lower", "out", t3, 0)
  <1>1. PICK u \in SUBSET Bits, r \in 0 .. 2 :
         /\ "RESET" \in u
         /\ Goes(p, Start, sb_core_disable, Sh(curidx, "lower", "out", u, r))
    BY PDisable
  <1>a. Home(p, curidx) /\ p.bus = bus /\ p \in Context /\ curidx \in Nat
    BY DEF Ready
  <1>b. ASSUME NEW t \in SUBSET Bits, NEW q \in 0 .. 2
        PROVE  /\ Values(p, curidx, "out", t, q)
               /\ Goes(p, Sh(curidx, "lower", "out", t, q), R, Sh(curidx, "lower", "out", t, q))
    <2>1. Values(p, curidx, "out", t, q)
      BY <1>a DEF Values
    <2> QED
      BY <1>a, <2>1, PR_SBREG
  <1>c. t1 \in SUBSET Bits /\ t2 \in SUBSET Bits /\ t3 \in SUBSET Bits
    BY DEF Bits
  <1> DEFINE a0 == Sh(curidx, "lower", "out", u, r)
  <1>2. Goes(p, a0, W_TML(t1), a1)
    <2>1. Resettable(t1, u, r) /\ Values(p, curidx, "out", u, r) /\ "REJ" \notin t1
      BY <1>1, <1>b DEF Resettable
    <2> QED
      BY <1>a, <1>c, <2>1, PW_TML
  <1>3. Goes(p, a1, R, a1) /\ Goes(p, a2, R, a2) /\ Goes(p, a3, R, a3)
    BY <1>b, <1>c
  <1>4. Goes(p, a1, W_TML(t2), a2)
    <2>1. Resettable(t2, t1, 0) /\ Values(p, curidx, "out", t1, 0)
      BY <1>b, <1>c DEF Resettable
    <2> QED
      BY <1>a, <1>c, <2>1, PW_TML
  <1>5. Goes(p, a2, W_TML(t3), a3)
    <2>1. Resettable(t3, t2, 0) /\ Values(p, curidx, "out", t2, 0)
      BY <1>b, <1>c DEF Resettable
    <2> QED
      BY <1>a, <1>c, <2>1, PW_TML
  <1>6. Goes(p, Start, sb_core_disable, a0)
    BY <1>1
  <1> HIDE DEF a0, a1, a2, a3, R, t1, t2, t3
  <1>7. Goes(p, Start, sb_core_disable \o W_TML(t1), a1)
    BY <1>6, <1>2, GoesOn
  <1>8. Goes(p, Start, sb_core_disable \o W_TML(t1) \o R, a1)
    BY <1>7, <1>3, GoesOn
  <1>9. Goes(p, Start, sb_core_disable \o W_TML(t1) \o R \o R, a1)
    BY <1>8, <1>3, GoesOn
  <1>10. Goes(p, Start, sb_core_disable \o W_TML(t1) \o R \o R \o R, a1)
    BY <1>9, <1>3, GoesOn
  <1>11. Goes(p, Start, sb_core_disable \o W_TML(t1) \o R \o R \o R \o W_TML(t2), a2)
    BY <1>10, <1>4, GoesOn
  <1>12. Goes(p, Start, sb_core_disable \o W_TML(t1) \o R \o R \o R \o W_TML(t2) \o R, a2)
    BY <1>11, <1>3, GoesOn
  <1>13. Goes(p, Start,
              sb_core_disable \o W_TML(t1) \o R \o R \o R \o W_TML(t2) \o R \o W_TML(t3), a3)
    BY <1>12, <1>5, GoesOn
  <1>14. Goes(p, Start,
              sb_core_disable \o W_TML(t1) \o R \o R \o R \o W_TML(t2) \o R \o W_TML(t3) \o R, a3)
    BY <1>13, <1>3, GoesOn
  <1>15. sb_core_reset = sb_core_disable \o W_TML(t1) \o R \o R \o R \o W_TML(t2) \o R
  \o W_TML(t3) \o R
    BY DEF sb_core_reset, R, t1, t2, t3
  <1>16. Goes(p, Start, sb_core_reset, a3)
    BY <1>14, <1>15
  <1> QED
    BY <1>c, <1>16 DEF a3

\* A call has ended as it began.
Back(c, b) == b.cur = c /\ b.half = "lower" /\ b.intr = "out"

\* The three calls that leave the focus or the interrupt in a wrong state.
Wrong ==
  {<<"CLK_SLOW", "PCMCIA">>, <<"sb_corereg", "PCMCIA">>, <<"sb_pwrctl_fast_pwrup_delay", "SB">>}

LEMMA PBody ==
  ASSUME NEW p, Ready(p), NEW f \in Functions, <<f, bus>> \notin Wrong,
         f \in Unprotected => p.guard = "no"
  PROVE  \E b \in Shadow : Goes(p, Start, Body(f), b) /\ Back(curidx, b)
  <1>1. ASSUME Goes(p, Start, Body(f), Start)
        PROVE  \E b \in Shadow : Goes(p, Start, Body(f), b) /\ Back(curidx, b)
    <2>1. Start \in Shadow
      BY <1>1, GoesStarts
    <2>2. Back(curidx, Start)
      BY DEF Back, Start, Sh
    <2> QED
      BY <1>1, <2>1, <2>2
  <1>2. ASSUME NEW u \in SUBSET Bits, NEW r \in 0 .. 2,
               Goes(p, Start, Body(f), Sh(curidx, "lower", "out", u, r))
        PROVE  \E b \in Shadow : Goes(p, Start, Body(f), b) /\ Back(curidx, b)
    <2> DEFINE e == Sh(curidx, "lower", "out", u, r)
    <2>1. e \in Shadow /\ Back(curidx, e)
      BY DEF Back, Sh, Shadow, Ready
    <2>2. Goes(p, Start, Body(f), e)
      BY <1>2
    <2> HIDE DEF e
    <2> QED
      BY <2>1, <2>2
  <1>3. CASE f = "sb_corereg"
    <2>1. ~Segmented
      BY <1>3 DEF Wrong, Segmented
    <2>2. Goes(p, Start, sb_corereg(GpioIdx(chip)), Start)
      BY <2>1, PCorereg, ReadyCores
    <2>3. Body(f) = sb_corereg(GpioIdx(chip))
      BY <1>3 DEF Body
    <2> QED
      BY <1>1, <2>2, <2>3
  <1>4. CASE f = "sb_commit"
    <2>1. Goes(p, Start, sb_commit(curidx), Start)
      BY PCommit, ReadyCores DEF Start, Ready
    <2>2. Body(f) = sb_commit(curidx)
      BY <1>4 DEF Body
    <2> QED
      BY <1>1, <2>1, <2>2
  <1>5. CASE f = "sb_core_tofixup"
    <2>1. Body(f) = sb_core_tofixup
      BY <1>5 DEF Body
    <2> QED
      BY <1>1, <2>1, PTofixup
  <1>6. CASE f = "sb_clock"
    <2>1. Body(f) = sb_clock
      BY <1>6 DEF Body
    <2> QED
      BY <1>1, <2>1, PClock
  <1>7. CASE f = "sb_pci_setup"
    <2>1. Body(f) = sb_pci_setup /\ p.guard = "no"
      BY <1>7 DEF Body, Unprotected
    <2> QED
      BY <1>1, <2>1, PPciSetup
  <1>8. CASE f = "sb_pwrctl_init"
    <2>1. Body(f) = sb_pwrctl_init /\ p.guard = "no"
      BY <1>8 DEF Body, Unprotected
    <2> QED
      BY <1>1, <2>1, PPwrctlInit
  <1>9. CASE f = "sb_pwrctl_fast_pwrup_delay"
    <2>1. Body(f) = sb_pwrctl_fast_pwrup_delay /\ bus # "SB"
      BY <1>9 DEF Body, Wrong
    <2> QED
      BY <1>1, <2>1, PFastDelay
  <1>10. CASE f \in {"CLK_FAST", "CLK_SLOW", "CLK_DYNAMIC"}
    <2>1. Body(f) = sb_pwrctl_clk(f)
      BY <1>10 DEF Body
    <2>2. ~(f = "CLK_SLOW" /\ bus = "PCMCIA")
      BY DEF Wrong
    <2>3. Goes(p, Start, sb_pwrctl_clk(f), Start)
      BY <2>2, PClk
    <2> QED
      BY <1>1, <2>1, <2>3
  <1>11. CASE f = "sb_core_disable"
    <2>1. Body(f) = sb_core_disable
      BY <1>11 DEF Body
    <2> QED
      BY <1>2, <2>1, PDisable
  <1>12. CASE f = "sb_core_reset"
    <2>1. Body(f) = sb_core_reset
      BY <1>12 DEF Body
    <2> QED
      BY <1>2, <2>1, PReset
  <1> QED
    BY <1>3, <1>4, <1>5, <1>6, <1>7, <1>8, <1>9, <1>10, <1>11, <1>12 DEF Functions

-----------------------------------------------------------------------------
(***************************************************************************)
(* The invariant.                                                          *)
(***************************************************************************)
\* The interrupt is on in the chip when no call has turned it off.
Enabled == wants_intrs /\ ~dpc

SbBasic ==
  /\ bus \in Buses \cup {"none"} /\ chip \in Chips /\ want \in Idx(chip)
  /\ hooked \in BOOLEAN /\ wants_intrs \in BOOLEAN /\ dpc \in BOOLEAN
  /\ rejecting \in BOOLEAN /\ busy \in BOOLEAN /\ tml \in SUBSET Bits
  /\ bus # "none" => Attachable
  /\ bus = "none" => code = << >>
  /\ wants_intrs => hooked /\ want = DevIdx /\ bus # "none"
  /\ dpc => wants_intrs
  /\ busy => "CLK" \in tml /\ "RESET" \notin tml

\* a is the shadow of the state.
Mirrors(a) ==
  /\ curidx = a.cur /\ tml = a.tml
  /\ memseg \in BOOLEAN /\ (memseg <=> a.half = "upper")
  /\ a.quiet >= 1 => rejecting
  /\ a.quiet = 2 => ~busy
  /\ a.intr = "out" => vals = << >>
  /\ a.intr # "out" => vals \in Seq(BOOLEAN) /\ Len(vals) = 1
  /\ a.intr = "off" /\ hooked => (vals[1] <=> Enabled)
  /\ intmask \in BOOLEAN /\ (intmask <=> a.intr # "off" /\ Enabled)

\* The rest of the call goes through, and back to where the driver was.
SbInv ==
  /\ SbBasic
  /\ \E a \in Shadow, b \in Shadow : Mirrors(a) /\ Goes(Ctx, a, code, b) /\ Back(want, b)

\* No call is in progress.
Resting ==
  /\ code = << >> /\ curidx = want /\ memseg = FALSE /\ vals = << >>
  /\ intmask \in BOOLEAN /\ (intmask <=> Enabled)

LEMMA CtxIs ==
  ASSUME SbBasic
  PROVE  /\ Ctx \in Context /\ Ctx.bus = bus /\ Ctx.n = Len(chip.cores) /\ Ctx.dev = DevIdx
         /\ Ctx.guard = "yes" <=> wants_intrs /\ bus # "SB"
         /\ Ctx.guard \in {"yes", "no"}
  <1>1. DevIdx \in Nat /\ Len(chip.cores) \in Nat
    BY ChipIs DEF DevIdx, SbBasic
  <1>2. bus \in {"none", "PCI", "PCMCIA", "SB"}
    BY SbAssumption DEF SbBasic
  <1> QED
    BY <1>1, <1>2 DEF Ctx, Context

LEMMA RestIs ==
  ASSUME SbInv, code = << >>
  PROVE  Resting
  <1>1. PICK a \in Shadow, b \in Shadow : Mirrors(a) /\ Goes(Ctx, a, code, b) /\ Back(want, b)
    BY DEF SbInv
  <1>2. a = b
    BY <1>1, GoesStarts
  <1>3. a.cur = want /\ a.half = "lower" /\ a.intr = "out"
    BY <1>1, <1>2 DEF Back
  <1> QED
    BY <1>1, <1>3 DEF Mirrors, Resting

LEMMA RestMirrors ==
  ASSUME SbBasic, Resting
  PROVE  Start \in Shadow /\ Mirrors(Start) /\ Back(want, Start) /\ Calm(Ctx, Start)
  <1>1. curidx \in Nat
    BY ChipIs DEF SbBasic, Resting
  <1>2. tml \in SUBSET Bits
    BY DEF SbBasic
  <1>3. Start \in Shadow
    BY <1>1, <1>2 DEF Start, Sh, Shadow
  <1>4. /\ Start.cur = curidx /\ Start.half = "lower" /\ Start.intr = "out"
        /\ Start.tml = tml /\ Start.quiet = 0
    BY DEF Start, Sh
  <1>5. Mirrors(Start)
    <2> HIDE DEF Start
    <2>1. ~(Start.quiet >= 1) /\ Start.quiet # 2 /\ Start.half # "upper" /\ Start.intr # "in"
          /\ Start.intr # "off"
      BY <1>4
    <2>2. curidx = Start.cur /\ tml = Start.tml /\ vals = << >>
      BY <1>4 DEF Resting
    <2>3. memseg \in BOOLEAN /\ (memseg <=> Start.half = "upper")
      BY <2>1 DEF Resting
    <2>4. intmask \in BOOLEAN /\ (intmask <=> Start.intr # "off" /\ Enabled)
      BY <2>1 DEF Resting
    <2> QED
      BY <1>4, <2>1, <2>2, <2>3, <2>4 DEF Mirrors
  <1>6. Calm(Ctx, Start)
    BY <1>4, CtxIs DEF Calm, Resting, SbBasic
  <1> QED
    BY <1>3, <1>4, <1>5, <1>6 DEF Back, Resting

LEMMA RestInv ==
  ASSUME SbBasic, Resting
  PROVE  SbInv
  <1>1. Start \in Shadow /\ Mirrors(Start) /\ Back(want, Start) /\ Calm(Ctx, Start)
    BY RestMirrors
  <1>2. Goes(Ctx, Start, << >>, Start)
    BY <1>1, GoesNone
  <1> QED
    BY <1>1, <1>2 DEF SbInv, Resting

LEMMA SbInit ==
  ASSUME Init
  PROVE  SbInv
  <1>1. 0 \in Idx(chip)
    BY ChipIs DEF Init, Idx
  <1>2. tml \in SUBSET Bits /\ rejecting \in BOOLEAN
    BY DEF Init, Bits
  <1>3. SbBasic
    BY <1>1, <1>2 DEF SbBasic, Init
  <1>4. Resting
    BY DEF Resting, Init, Enabled
  <1> QED
    BY <1>3, <1>4, RestInv

\* Between calls: the driver attaches, moves the focus, and turns its
\* interrupts on and off.
LEMMA SbBetween ==
  ASSUME SbInv, code = << >>, code' = << >>, SbBasic', Resting => Resting'
  PROVE  SbInv'
  <1>1. Resting'
    BY RestIs
  <1>2. (SbBasic /\ Resting => SbInv)'
    BY RestInv, PTL
  <1> QED
    BY <1>1, <1>2

\* A step of a call: the first of the steps left.
LEMMA SbRun ==
  ASSUME SbInv, code # << >>, code' = Tail(code), SbBasic',
         UNCHANGED <<bus, chip, want, wants_intrs>>,
         \A a \in Shadow, m \in Shadow :
           Mirrors(a) /\ Moves(Ctx, Head(code), a, m) => Mirrors(m)'
  PROVE  SbInv'
  <1>1. PICK a \in Shadow, b \in Shadow : Mirrors(a) /\ Goes(Ctx, a, code, b) /\ Back(want, b)
    BY DEF SbInv
  <1>2. PICK m \in Shadow : Moves(Ctx, Head(code), a, m) /\ Goes(Ctx, m, Tail(code), b)
    BY <1>1, GoesFirst
  <1>3. Mirrors(m)'
    BY <1>1, <1>2
  <1>4. Ctx' = Ctx
    BY DEF Ctx, DevIdx
  <1>5. (Goes(Ctx, m, code, b) /\ Back(want, b))'
    BY <1>1, <1>2, <1>4 DEF Back
  <1>6. SbBasic'
    OBVIOUS
  <1>7. SbInv' <=> /\ SbBasic'
                   /\ \E x \in Shadow, y \in Shadow :
                        Mirrors(x)' /\ (Goes(Ctx, x, code, y) /\ Back(want, y))'
    BY DEF SbInv
  <1> QED
    BY <1>3, <1>5, <1>6, <1>7

\* The handler or the core comes in between.
LEMMA SbMeanwhile ==
  ASSUME SbInv, code' = code, SbBasic', UNCHANGED <<bus, chip, want, wants_intrs>>,
         \A a \in Shadow : Mirrors(a) => Mirrors(a)'
  PROVE  SbInv'
  <1>1. PICK a \in Shadow, b \in Shadow : Mirrors(a) /\ Goes(Ctx, a, code, b) /\ Back(want, b)
    BY DEF SbInv
  <1>2. Mirrors(a)'
    BY <1>1
  <1>3. Ctx' = Ctx
    BY DEF Ctx, DevIdx
  <1>4. (Goes(Ctx, a, code, b) /\ Back(want, b))'
    BY <1>1, <1>3 DEF Back
  <1>5. SbInv' <=> /\ SbBasic'
                   /\ \E x \in Shadow, y \in Shadow :
                        Mirrors(x)' /\ (Goes(Ctx, x, code, y) /\ Back(want, y))'
    BY DEF SbInv
  <1> QED
    BY <1>2, <1>4, <1>5

LEMMA EnterLeaveKeeps ==
  ASSUME SbInv, EnterLeave
  PROVE  SbInv'
  <1>1. /\ code # << >> /\ code' = Tail(code) /\ UNCHANGED <<bus, chip, want, wants_intrs>>
        /\ SbBasic
    BY DEF EnterLeave, Step, drv, SbInv
  <1>2. SbBasic'
    BY <1>1 DEF EnterLeave, Step, drv, core, SbBasic, Attachable, DevIdx
  <1>3. ASSUME NEW a \in Shadow, NEW m \in Shadow, Mirrors(a), Moves(Ctx, Head(code), a, m)
        PROVE  Mirrors(m)'
    <2>1. UNCHANGED <<curidx, tml, memseg, rejecting, busy, intmask, wants_intrs, dpc, hooked>>
      BY DEF EnterLeave, drv, core
    <2>2. CASE Step("enter") /\ vals' = <<FALSE>> \o vals
      <3>1. a.intr = "out" /\ m = [a EXCEPT !.intr = "in"]
        BY <1>3, <2>2 DEF Moves, Step
      <3>2. /\ m.intr = "in" /\ m.cur = a.cur /\ m.tml = a.tml /\ m.half = a.half
            /\ m.quiet = a.quiet
        BY <3>1 DEF Shadow
      <3>3. vals' \in Seq(BOOLEAN) /\ Len(vals') = 1
        BY <1>3, <2>2, <3>1 DEF Mirrors
      <3> QED
        BY <1>3, <2>1, <3>1, <3>2, <3>3 DEF Mirrors, Enabled
    <2>3. CASE Step("leave") /\ vals' = Tail(vals)
      <3>1. a.intr = "in" /\ m = [a EXCEPT !.intr = "out"]
        BY <1>3, <2>3 DEF Moves, Step
      <3>2. /\ m.intr = "out" /\ m.cur = a.cur /\ m.tml = a.tml /\ m.half = a.half
            /\ m.quiet = a.quiet
        BY <3>1 DEF Shadow
      <3>3. vals' = << >>
        <4>1. vals \in Seq(BOOLEAN) /\ Len(vals) = 1
          BY <1>3, <3>1 DEF Mirrors
        <4>2. Tail(vals) \in Seq(BOOLEAN) /\ Len(Tail(vals)) = 0
          BY <4>1
        <4> QED
          BY <2>3, <4>2
      <3> QED
        BY <1>3, <2>1, <3>1, <3>2, <3>3 DEF Mirrors, Enabled
    <2> QED
      BY <2>2, <2>3 DEF EnterLeave
  <1> QED
    BY <1>1, <1>2, <1>3, SbRun

LEMMA INTR_OFFKeeps ==
  ASSUME SbInv, INTR_OFF
  PROVE  SbInv'
  <1>1. /\ code # << >> /\ code' = Tail(code) /\ UNCHANGED <<bus, chip, want, wants_intrs>>
        /\ SbBasic
    BY DEF INTR_OFF, Step, drv, SbInv
  <1>2. SbBasic'
    BY <1>1 DEF INTR_OFF, Step, drv, core, SbBasic, Attachable, DevIdx
  <1>3. ASSUME NEW a \in Shadow, NEW m \in Shadow, Mirrors(a), Moves(Ctx, Head(code), a, m)
        PROVE  Mirrors(m)'
    <2>1. UNCHANGED <<curidx, tml, memseg, rejecting, busy, wants_intrs, dpc, hooked>>
      BY DEF INTR_OFF, drv, core
    <2>2. a.intr = "in" /\ m = [a EXCEPT !.intr = Off(Ctx, a.cur)]
      BY <1>3 DEF Moves, INTR_OFF, Step
    <2>3. /\ m.intr = Off(Ctx, a.cur) /\ m.cur = a.cur /\ m.tml = a.tml /\ m.half = a.half
          /\ m.quiet = a.quiet /\ a.cur = curidx /\ Ctx.dev = DevIdx
      BY <1>3, <1>1, <2>2, CtxIs DEF Shadow, Mirrors
    <2>4. /\ vals \in Seq(BOOLEAN) /\ Len(vals) = 1 /\ intmask \in BOOLEAN
          /\ (intmask <=> Enabled)
      BY <1>3, <2>2 DEF Mirrors
    <2>5. CASE OnDev
      <3>1. m.intr = "off"
        BY <2>3, <2>5 DEF OnDev, Off
      <3>2. vals' = [vals EXCEPT ![1] = intmask] /\ intmask' = FALSE
        BY <2>5 DEF INTR_OFF
      <3>3. vals' \in Seq(BOOLEAN) /\ Len(vals') = 1 /\ vals'[1] = intmask
        BY <2>4, <3>2
      <3> QED
        BY <1>3, <2>1, <2>2, <2>3, <2>4, <3>1, <3>2, <3>3 DEF Mirrors, Enabled
    <2>6. CASE ~OnDev
      <3>1. vals' = vals /\ intmask' = intmask
        BY <2>6 DEF INTR_OFF
      <3>2. CASE curidx = DevIdx
        <4>1. m.intr = "off" /\ ~Enabled /\ ~hooked
          BY <1>1, <2>3, <2>6, <3>2 DEF OnDev, Off, SbBasic, Enabled
        <4> QED
          BY <1>3, <2>1, <2>2, <2>3, <2>4, <3>1, <4>1 DEF Mirrors, Enabled
      <3>3. CASE curidx # DevIdx
        <4>1. m.intr = "in"
          BY <2>3, <3>3 DEF Off
        <4> QED
          BY <1>3, <2>1, <2>2, <2>3, <2>4, <3>1, <4>1 DEF Mirrors, Enabled
      <3> QED
        BY <3>2, <3>3
    <2> QED
      BY <2>5, <2>6
  <1> QED
    BY <1>1, <1>2, <1>3, SbRun

LEMMA INTR_RESTOREKeeps ==
  ASSUME SbInv, INTR_RESTORE
  PROVE  SbInv'
  <1>1. /\ code # << >> /\ code' = Tail(code) /\ UNCHANGED <<bus, chip, want, wants_intrs>>
        /\ SbBasic
    BY DEF INTR_RESTORE, Step, drv, SbInv
  <1>2. SbBasic'
    BY <1>1 DEF INTR_RESTORE, Step, drv, core, SbBasic, Attachable, DevIdx
  <1>3. ASSUME NEW a \in Shadow, NEW m \in Shadow, Mirrors(a), Moves(Ctx, Head(code), a, m)
        PROVE  Mirrors(m)'
    <2>1. UNCHANGED <<curidx, tml, memseg, rejecting, busy, wants_intrs, dpc, vals, hooked>>
      BY DEF INTR_RESTORE, drv, core
    <2>2. a.intr = Off(Ctx, a.cur) /\ m = [a EXCEPT !.intr = "in"]
      BY <1>3 DEF Moves, INTR_RESTORE, Step
    <2>3. /\ m.intr = "in" /\ m.cur = a.cur /\ m.tml = a.tml /\ m.half = a.half
          /\ m.quiet = a.quiet /\ a.cur = curidx /\ Ctx.dev = DevIdx
      BY <1>3, <1>1, <2>2, CtxIs DEF Shadow, Mirrors
    <2>4. vals \in Seq(BOOLEAN) /\ Len(vals) = 1 /\ vals[1] \in BOOLEAN
      <3>1. a.intr # "out"
        BY <2>2 DEF Off
      <3>2. vals \in Seq(BOOLEAN) /\ Len(vals) = 1
        BY <1>3, <3>1 DEF Mirrors
      <3> QED
        BY <3>2
    <2>5. intmask' \in BOOLEAN /\ (intmask' <=> Enabled)
      <3>1. intmask \in BOOLEAN /\ (intmask <=> a.intr # "off" /\ Enabled)
        BY <1>3 DEF Mirrors
      <3>2. CASE OnDev
        <4>1. a.intr = "off" /\ hooked
          BY <2>2, <2>3, <3>2 DEF OnDev, Off
        <4>2. vals[1] <=> Enabled
          BY <1>3, <4>1 DEF Mirrors
        <4>3. intmask' = vals[1]
          BY <3>2 DEF INTR_RESTORE
        <4> QED
          BY <2>4, <4>2, <4>3
      <3>3. CASE ~OnDev
        <4>1. intmask' = intmask
          BY <3>3 DEF INTR_RESTORE
        <4>2. CASE curidx = DevIdx
          <5>1. ~Enabled
            BY <1>1, <3>3, <4>2 DEF OnDev, SbBasic, Enabled
          <5> QED
            BY <3>1, <4>1, <5>1
        <4>3. CASE curidx # DevIdx
          <5>1. a.intr = "in"
            BY <2>2, <2>3, <4>3 DEF Off
          <5> QED
            BY <3>1, <4>1, <5>1
        <4> QED
          BY <4>2, <4>3
      <3> QED
        BY <3>2, <3>3
    <2>6. Enabled' <=> Enabled
      BY <2>1 DEF Enabled
    <2> QED
      BY <1>3, <2>1, <2>3, <2>4, <2>5, <2>6 DEF Mirrors
  <1> QED
    BY <1>1, <1>2, <1>3, SbRun

LEMMA SetFocusKeeps ==
  ASSUME SbInv, SetFocus
  PROVE  SbInv'
  <1>1. /\ code # << >> /\ code' = Tail(code) /\ UNCHANGED <<bus, chip, want, wants_intrs>>
        /\ SbBasic
    BY DEF SetFocus, Step, drv, SbInv
  <1>2. SbBasic'
    BY <1>1 DEF SetFocus, Step, drv, core, SbBasic, Attachable, DevIdx
  <1>3. ASSUME NEW a \in Shadow, NEW m \in Shadow, Mirrors(a), Moves(Ctx, Head(code), a, m)
        PROVE  Mirrors(m)'
    <2>1. UNCHANGED <<tml, memseg, rejecting, busy, wants_intrs, dpc, vals, intmask, hooked>>
      BY DEF SetFocus, drv, core
    <2>2. Head(code).idx \in 0 .. (Ctx.n - 1) /\ m = [a EXCEPT !.cur = Head(code).idx]
      BY <1>3 DEF Moves, SetFocus, Step
    <2>3. /\ m.intr = a.intr /\ m.cur = Head(code).idx /\ m.tml = a.tml /\ m.half = a.half
          /\ m.quiet = a.quiet
      BY <2>2 DEF Shadow
    <2>4. curidx' = m.cur
      BY <1>1, <2>2, <2>3, CtxIs DEF SetFocus, Idx
    <2> QED
      BY <1>3, <2>1, <2>3, <2>4 DEF Mirrors, Enabled
  <1> QED
    BY <1>1, <1>2, <1>3, SbRun

LEMMA SetSegKeeps ==
  ASSUME SbInv, SetSeg
  PROVE  SbInv'
  <1>1. /\ code # << >> /\ code' = Tail(code) /\ UNCHANGED <<bus, chip, want, wants_intrs>>
        /\ SbBasic
    BY DEF SetSeg, Step, drv, SbInv
  <1>2. SbBasic'
    BY <1>1 DEF SetSeg, Step, drv, core, SbBasic, Attachable, DevIdx
  <1>3. Head(code) \in Op
    <2>1. code \in Seq(Op)
      BY GoesStarts DEF SbInv
    <2> QED
      BY <1>1, <2>1
  <1>4. ASSUME NEW a \in Shadow, NEW m \in Shadow, Mirrors(a), Moves(Ctx, Head(code), a, m)
        PROVE  Mirrors(m)'
    <2>1. UNCHANGED <<tml, curidx, rejecting, busy, wants_intrs, dpc, vals, intmask, hooked>>
      BY DEF SetSeg, drv, core
    <2>2. m = [a EXCEPT !.half = IF Head(code).upper THEN "upper" ELSE "lower"]
      BY <1>4 DEF Moves, SetSeg, Step
    <2>3. /\ m.intr = a.intr /\ m.cur = a.cur /\ m.tml = a.tml /\ m.quiet = a.quiet
          /\ m.half = IF Head(code).upper THEN "upper" ELSE "lower"
      BY <2>2 DEF Shadow
    <2>4. memseg' = Head(code).upper /\ Head(code).upper \in BOOLEAN
      BY <1>3 DEF SetSeg, Op
    <2>5. memseg' \in BOOLEAN /\ (memseg' <=> m.half = "upper")
      BY <2>3, <2>4
    <2> QED
      BY <1>4, <2>1, <2>3, <2>5 DEF Mirrors, Enabled
  <1> QED
    BY <1>1, <1>2, <1>4, SbRun

LEMMA AccessKeeps ==
  ASSUME SbInv, Access
  PROVE  SbInv'
  <1>1. /\ code # << >> /\ code' = Tail(code) /\ UNCHANGED <<bus, chip, want, wants_intrs>>
        /\ SbBasic
    BY DEF Access, Step, drv, SbInv
  <1>2. SbBasic'
    BY <1>1 DEF Access, Step, drv, core, SbBasic, Attachable, DevIdx
  <1>3. ASSUME NEW a \in Shadow, NEW m \in Shadow, Mirrors(a), Moves(Ctx, Head(code), a, m)
        PROVE  Mirrors(m)'
    <2>1. UNCHANGED <<tml, memseg, curidx, rejecting, busy, wants_intrs, dpc, vals, intmask, hooked>>
      BY DEF Access, drv, core
    <2>2. m = a
      BY <1>3 DEF Moves, Access, Step
    <2> QED
      BY <1>3, <2>1, <2>2 DEF Mirrors, Enabled
  <1> QED
    BY <1>1, <1>2, <1>3, SbRun

LEMMA WriteTmlKeeps ==
  ASSUME SbInv, WriteTml
  PROVE  SbInv'
  <1>1. /\ code # << >> /\ code' = Tail(code) /\ UNCHANGED <<bus, chip, want, wants_intrs>>
        /\ SbBasic
    BY DEF WriteTml, Step, drv, SbInv
  <1>2. PICK w \in Shadow : Mirrors(w) /\ \E m \in Shadow : Moves(Ctx, Head(code), w, m)
    BY <1>1, GoesFirst DEF SbInv
  <1>3. SbBasic'
    <2>1. /\ UNCHANGED <<bus, chip, want, wants_intrs, dpc, hooked, busy>>
          /\ tml' = Head(code).bits /\ rejecting' \in BOOLEAN
      BY <1>1 DEF WriteTml, drv, core, SbBasic
    <2>2. /\ Head(code).bits \in SUBSET Bits
          /\ "RESET" \in Head(code).bits \/ "CLK" \notin Head(code).bits =>
               "RESET" \in w.tml \/ "CLK" \notin w.tml \/ w.quiet = 2
      BY <1>2 DEF Moves, WriteTml, Step
    <2>3. busy => "CLK" \in tml' /\ "RESET" \notin tml'
      BY <1>1, <1>2, <2>1, <2>2 DEF Mirrors, SbBasic
    <2>4. bus # "none"
      BY <1>1 DEF SbBasic
    <2> QED
      BY <1>1, <2>1, <2>2, <2>3, <2>4 DEF SbBasic, Attachable, DevIdx
  <1>4. ASSUME NEW a \in Shadow, NEW m \in Shadow, Mirrors(a), Moves(Ctx, Head(code), a, m)
        PROVE  Mirrors(m)'
    <2>1. UNCHANGED <<memseg, curidx, busy, wants_intrs, dpc, vals, intmask, hooked>>
      BY DEF WriteTml, drv
    <2>2. m = Sh(a.cur, a.half, a.intr, Head(code).bits,
                 IF "REJ" \in Head(code).bits THEN a.quiet ELSE 0)
      BY <1>4 DEF Moves, WriteTml, Step
    <2>3. /\ m.intr = a.intr /\ m.cur = a.cur /\ m.half = a.half /\ m.tml = Head(code).bits
          /\ m.quiet = IF "REJ" \in Head(code).bits THEN a.quiet ELSE 0
      BY <2>2 DEF Sh
    <2>4. tml' = m.tml
      BY <2>3 DEF WriteTml
    <2>5. (m.quiet >= 1 => rejecting') /\ (m.quiet = 2 => ~busy)
      <3>1. CASE "REJ" \in Head(code).bits
        BY <1>4, <2>3, <3>1 DEF Mirrors, WriteTml
      <3>2. CASE "REJ" \notin Head(code).bits
        BY <2>3, <3>2
      <3> QED
        BY <3>1, <3>2
    <2> QED
      BY <1>4, <2>1, <2>3, <2>4, <2>5 DEF Mirrors, Enabled
  <1> QED
    BY <1>1, <1>3, <1>4, SbRun

LEMMA SpinKeeps ==
  ASSUME SbInv, Spin
  PROVE  SbInv'
  <1>1. /\ code # << >> /\ code' = Tail(code) /\ UNCHANGED <<bus, chip, want, wants_intrs>>
        /\ SbBasic
    BY DEF Spin, Step, drv, SbInv
  <1>2. SbBasic'
    BY <1>1 DEF Spin, Step, drv, core, SbBasic, Attachable, DevIdx
  <1>3. ASSUME NEW a \in Shadow, NEW m \in Shadow, Mirrors(a), Moves(Ctx, Head(code), a, m)
        PROVE  Mirrors(m)'
    <2>1. UNCHANGED <<tml, memseg, curidx, rejecting, busy, wants_intrs, dpc, vals, intmask, hooked>>
      BY DEF Spin, drv, core
    <2>2. m = [a EXCEPT !.quiet = IF Head(code).bits = {"reject"} THEN 1
                                  ELSE IF a.quiet = 0 THEN 0 ELSE 2]
      BY <1>3 DEF Moves, Spin, Step
    <2>3. /\ m.intr = a.intr /\ m.cur = a.cur /\ m.half = a.half /\ m.tml = a.tml
          /\ m.quiet = IF Head(code).bits = {"reject"} THEN 1
                       ELSE IF a.quiet = 0 THEN 0 ELSE 2
          /\ a.quiet \in 0 .. 2
      BY <2>2 DEF Shadow
    <2>4. (m.quiet >= 1 => rejecting) /\ (m.quiet = 2 => ~busy)
      <3>1. a.quiet >= 1 => rejecting
        BY <1>3 DEF Mirrors
      <3>2. CASE Head(code).bits = {"reject"}
        BY <2>3, <3>2 DEF Spin
      <3>3. CASE Head(code).bits # {"reject"}
        BY <2>3, <3>1, <3>3 DEF Spin
      <3> QED
        BY <3>2, <3>3
    <2> QED
      BY <1>3, <2>1, <2>3, <2>4 DEF Mirrors, Enabled
  <1> QED
    BY <1>1, <1>2, <1>3, SbRun

LEMMA MeanwhileKeeps ==
  ASSUME SbInv, Isr \/ HwReject \/ HwBusy \/ HwIdle
  PROVE  SbInv'
  <1>1. SbBasic /\ code' = code /\ UNCHANGED <<bus, chip, want, wants_intrs>>
    BY DEF SbInv, Isr, HwReject, HwBusy, HwIdle, drv
  <1>2. PICK w \in Shadow : Mirrors(w)
    BY DEF SbInv
  <1>3. CASE Isr
    <2>1. intmask /\ intmask' = FALSE /\ dpc' = TRUE
          /\ UNCHANGED <<curidx, hooked, vals, memseg, tml, rejecting, busy>>
      BY <1>3 DEF Isr, core
    <2>2. wants_intrs
      BY <1>2, <2>1 DEF Mirrors, Enabled
    <2>3. SbBasic'
      BY <1>1, <2>1, <2>2 DEF SbBasic, Attachable, DevIdx
    <2>4. ASSUME NEW a \in Shadow, Mirrors(a) PROVE Mirrors(a)'
      <3>1. a.intr # "off"
        BY <2>1, <2>4 DEF Mirrors
      <3>2. ~Enabled'
        BY <2>1 DEF Enabled
      <3> QED
        BY <2>1, <2>4, <3>1, <3>2 DEF Mirrors
    <2> QED
      BY <1>1, <2>3, <2>4, SbMeanwhile
  <1>4. CASE HwReject \/ HwBusy \/ HwIdle
    <2>1. UNCHANGED <<curidx, hooked, vals, memseg, tml, intmask, dpc>>
      BY <1>4 DEF HwReject, HwBusy, HwIdle, drv
    <2>2. SbBasic'
      <3>1. /\ rejecting \in BOOLEAN /\ busy \in BOOLEAN
            /\ busy => "CLK" \in tml /\ "RESET" \notin tml
        BY <1>1 DEF SbBasic
      <3>2. /\ rejecting' \in BOOLEAN /\ busy' \in BOOLEAN
            /\ busy' => "CLK" \in tml /\ "RESET" \notin tml
        <4>1. CASE HwReject
          <5>1. rejecting' = TRUE /\ busy' = busy
            BY <4>1 DEF HwReject
          <5> QED
            BY <3>1, <5>1
        <4>2. CASE HwBusy
          <5>1. rejecting' = rejecting /\ busy' = TRUE /\ "CLK" \in tml /\ "RESET" \notin tml
            BY <4>2 DEF HwBusy
          <5> QED
            BY <3>1, <5>1
        <4>3. CASE HwIdle
          <5>1. rejecting' = rejecting /\ busy' = FALSE
            BY <4>3 DEF HwIdle
          <5> QED
            BY <3>1, <5>1
        <4> QED
          BY <1>4, <4>1, <4>2, <4>3
      <3> QED
        BY <1>1, <2>1, <3>2 DEF SbBasic, Attachable, DevIdx
    <2>3. ASSUME NEW a \in Shadow, Mirrors(a) PROVE Mirrors(a)'
      <3>1. a.quiet \in 0 .. 2
        BY DEF Shadow
      <3>2. (a.quiet >= 1 => rejecting') /\ (a.quiet = 2 => ~busy')
        BY <1>4, <2>3, <3>1 DEF Mirrors, HwReject, HwBusy, HwIdle
      <3> QED
        BY <1>1, <2>1, <2>3, <3>2 DEF Mirrors, Enabled
    <2> QED
      BY <1>1, <2>2, <2>3, SbMeanwhile
  <1> QED
    BY <1>3, <1>4

LEMMA BetweenKeeps ==
  ASSUME SbInv,
         \/ \E b \in Buses : sb_attach(b)
         \/ sb_detach \/ sb_register_intr_callback
         \/ \E c \in Chips : \E i \in Idx(c) : sb_setcoreidx(i)
         \/ IntrsOn \/ IntrsOff \/ Dpc
  PROVE  SbInv'
  <1>1. SbBasic
    BY DEF SbInv
  <1>2. ASSUME code = << >>, code' = << >>, SbBasic', Resting => Resting' PROVE SbInv'
    BY <1>2, SbBetween
  <1>3. DevIdx \in Idx(chip)
    BY <1>1, ChipIs DEF SbBasic, DevIdx
  <1>4. ASSUME NEW b \in Buses, sb_attach(b) PROVE SbInv'
    <2>1. /\ bus = "none" /\ code = << >> /\ code' = << >> /\ Attachable /\ ~wants_intrs
          /\ bus' = b /\ curidx' = DevIdx /\ want' = DevIdx /\ hooked' = FALSE
          /\ UNCHANGED <<chip, wants_intrs, intmask, dpc, vals, memseg, tml, rejecting, busy>>
      BY <1>1, <1>4 DEF sb_attach, core, SbBasic
    <2>2. SbBasic'
      BY <1>1, <1>3, <2>1 DEF SbBasic, Attachable, DevIdx
    <2>3. Resting => Resting'
      BY <2>1 DEF Resting, Enabled
    <2> QED
      BY <1>2, <2>1, <2>2, <2>3
  <1>5. ASSUME sb_detach PROVE SbInv'
    <2>1. /\ bus' = "none" /\ code = << >> /\ code' = << >> /\ ~wants_intrs
          /\ UNCHANGED <<chip, curidx, hooked, intmask, want, wants_intrs, dpc, vals, memseg>>
          /\ UNCHANGED <<tml, rejecting, busy>>
      BY <1>5 DEF sb_detach, core, drv, Idle
    <2>2. SbBasic'
      BY <1>1, <2>1 DEF SbBasic, DevIdx
    <2>3. Resting => Resting'
      BY <2>1 DEF Resting, Enabled
    <2> QED
      BY <1>2, <2>1, <2>2, <2>3
  <1>6. ASSUME sb_register_intr_callback PROVE SbInv'
    <2>1. /\ hooked' = TRUE /\ code = << >> /\ code' = << >>
          /\ UNCHANGED <<bus, chip, curidx, intmask, want, wants_intrs, dpc, vals, memseg>>
          /\ UNCHANGED <<tml, rejecting, busy>>
      BY <1>6 DEF sb_register_intr_callback, core, drv, Idle
    <2>2. SbBasic'
      BY <1>1, <2>1 DEF SbBasic, DevIdx, Attachable
    <2>3. Resting => Resting'
      BY <2>1 DEF Resting, Enabled
    <2> QED
      BY <1>2, <2>1, <2>2, <2>3
  <1>7. ASSUME NEW i, sb_setcoreidx(i) PROVE SbInv'
    <2>1. /\ code = << >> /\ code' = << >> /\ ~wants_intrs /\ i \in Idx(chip)
          /\ curidx' = i /\ want' = i
          /\ UNCHANGED <<bus, chip, hooked, wants_intrs, intmask, dpc, vals, memseg>>
          /\ UNCHANGED <<tml, rejecting, busy>>
      BY <1>7 DEF sb_setcoreidx, core, Idle
    <2>2. SbBasic'
      BY <1>1, <2>1 DEF SbBasic, DevIdx, Attachable
    <2>3. Resting => Resting'
      BY <2>1 DEF Resting, Enabled
    <2> QED
      BY <1>2, <2>1, <2>2, <2>3
  <1>8. ASSUME IntrsOn PROVE SbInv'
    <2>1. /\ bus # "none" /\ code = << >> /\ code' = << >> /\ want = DevIdx /\ hooked
          /\ ~wants_intrs /\ wants_intrs' = TRUE /\ intmask' = TRUE
          /\ UNCHANGED <<bus, chip, curidx, hooked, want, dpc, vals, memseg>>
          /\ UNCHANGED <<tml, rejecting, busy>>
      BY <1>8 DEF IntrsOn, core, Idle
    <2>2. SbBasic'
      BY <1>1, <2>1 DEF SbBasic, DevIdx, Attachable
    <2>3. Resting => Resting'
      BY <1>1, <2>1 DEF Resting, Enabled, SbBasic
    <2> QED
      BY <1>2, <2>1, <2>2, <2>3
  <1>9. ASSUME IntrsOff PROVE SbInv'
    <2>1. /\ bus # "none" /\ code = << >> /\ code' = << >>
          /\ wants_intrs' = FALSE /\ intmask' = FALSE /\ dpc' = FALSE
          /\ UNCHANGED <<bus, chip, curidx, hooked, want, vals, memseg>>
          /\ UNCHANGED <<tml, rejecting, busy>>
      BY <1>9 DEF IntrsOff, core, Idle
    <2>2. SbBasic'
      BY <1>1, <2>1 DEF SbBasic, DevIdx, Attachable
    <2>3. Resting => Resting'
      BY <2>1 DEF Resting, Enabled
    <2> QED
      BY <1>2, <2>1, <2>2, <2>3
  <1>10. ASSUME Dpc PROVE SbInv'
    <2>1. /\ bus # "none" /\ code = << >> /\ code' = << >> /\ dpc
          /\ intmask' = TRUE /\ dpc' = FALSE
          /\ UNCHANGED <<bus, chip, curidx, hooked, want, wants_intrs, vals, memseg>>
          /\ UNCHANGED <<tml, rejecting, busy>>
      BY <1>10 DEF Dpc, core, Idle
    <2>2. SbBasic'
      BY <1>1, <2>1 DEF SbBasic, DevIdx, Attachable
    <2>3. Resting => Resting'
      BY <1>1, <2>1 DEF Resting, Enabled, SbBasic
    <2> QED
      BY <1>2, <2>1, <2>2, <2>3
  <1> QED
    BY <1>4, <1>5, <1>6, <1>7, <1>8, <1>9, <1>10

\* A call: its text, from the first step on, goes through.
LEMMA CallKeeps ==
  ASSUME Calls \cap Wrong = {}, SbInv, NEW f, Call(f)
  PROVE  SbInv'
  <1>1. /\ SbBasic /\ bus # "none" /\ code = << >> /\ <<f, bus>> \in Calls /\ code' = Body(f)
        /\ f \in Unprotected => ~wants_intrs
        /\ UNCHANGED <<bus, chip, curidx, hooked, intmask, want, wants_intrs, dpc, vals, memseg>>
        /\ UNCHANGED <<tml, rejecting, busy>>
    BY DEF Call, Idle, SbInv, drv, core
  <1>2. Resting
    BY <1>1, RestIs
  <1>3. Start \in Shadow /\ Mirrors(Start) /\ Calm(Ctx, Start)
    BY <1>1, <1>2, RestMirrors
  <1>4. Ready(Ctx)
    <2>1. Ctx \in Context /\ Ctx.bus = bus /\ Ctx.n = Len(chip.cores)
      BY <1>1, CtxIs
    <2>2. curidx \in Idx(chip) /\ Idx(chip) \subseteq Nat
      BY <1>1, <1>2, ChipIs DEF Resting, SbBasic
    <2>3. Home(Ctx, curidx)
      BY <1>3 DEF Calm, Home, Start, Sh
    <2> QED
      BY <1>1, <2>1, <2>2, <2>3 DEF Ready, SbBasic, Idx
  <1>5. f \in Functions /\ <<f, bus>> \notin Wrong
    BY <1>1, SbAssumption
  <1>6. f \in Unprotected => Ctx.guard = "no"
    BY <1>1, CtxIs
  <1>7. PICK b \in Shadow : Goes(Ctx, Start, Body(f), b) /\ Back(curidx, b)
    BY <1>4, <1>5, <1>6, PBody
  <1>8. PICK a \in Shadow : a = Start
    BY <1>3
  <1>9. SbBasic'
    BY <1>1 DEF SbBasic, DevIdx, Attachable
  <1>10. Mirrors(a)'
    <2>1. Mirrors(a)
      BY <1>3, <1>8
    <2> QED
      BY <1>1, <2>1 DEF Mirrors, Enabled
  <1>11. Ctx' = Ctx
    BY <1>1 DEF Ctx, DevIdx
  <1>12. (Goes(Ctx, a, code, b) /\ Back(want, b))'
    BY <1>1, <1>2, <1>7, <1>8, <1>11 DEF Back, Resting
  <1>13. SbInv' <=> /\ SbBasic'
                    /\ \E x \in Shadow, y \in Shadow :
                         Mirrors(x)' /\ (Goes(Ctx, x, code, y) /\ Back(want, y))'
    BY DEF SbInv
  <1> QED
    BY <1>9, <1>10, <1>12, <1>13

LEMMA SbStep ==
  ASSUME Calls \cap Wrong = {}, SbInv, [Next]_vars
  PROVE  SbInv'
  <1>1. CASE vars' = vars
    <2>1. /\ UNCHANGED <<bus, chip, curidx, hooked, intmask, want, wants_intrs, dpc, code, vals>>
          /\ UNCHANGED <<memseg, tml, rejecting, busy>>
      BY <1>1 DEF vars, drv, core
    <2>2. SbBasic'
      BY <2>1 DEF SbInv, SbBasic, DevIdx, Attachable
    <2>3. ASSUME NEW a \in Shadow, Mirrors(a) PROVE Mirrors(a)'
      BY <2>1, <2>3 DEF Mirrors, Enabled
    <2> QED
      BY <2>1, <2>2, <2>3, SbMeanwhile
  <1>2. CASE Run
    BY <1>2, EnterLeaveKeeps, INTR_OFFKeeps, INTR_RESTOREKeeps, SetFocusKeeps, SetSegKeeps,
       AccessKeeps, WriteTmlKeeps, SpinKeeps DEF Run
  <1>3. CASE \E call \in Calls : Call(call[1])
    BY <1>3, CallKeeps
  <1>4. CASE Isr \/ HwReject \/ HwBusy \/ HwIdle
    BY <1>4, MeanwhileKeeps
  <1>5. CASE \/ \E b \in Buses : sb_attach(b)
             \/ sb_detach \/ sb_register_intr_callback
             \/ \E c \in Chips : \E i \in Idx(c) : sb_setcoreidx(i)
             \/ IntrsOn \/ IntrsOff \/ Dpc
    BY <1>5, BetweenKeeps
  <1>6. CASE sb_attach_bad
    BY <1>1, <1>6 DEF sb_attach_bad
  <1> QED
    BY <1>1, <1>2, <1>3, <1>4, <1>5, <1>6 DEF Next

-----------------------------------------------------------------------------
(***************************************************************************)
(* The theorems.  The hypothesis is that the driver makes none of the      *)
(* three calls of Wrong, for which they do not hold.                       *)
(***************************************************************************)

\* For every chip, bus and set of calls, whatever the handler comes in
\* between: while the driver's interrupt is on, the window is on its core and
\* on the lower half of its registers.  INTR_OFF and INTR_RESTORE (sbutils.c
\* 95-104) do what they are for in every function that moves the focus.
THEOREM SbIsrOnItsCore ==
  ASSUME Calls \cap Wrong = {}
  PROVE  Spec => []IsrOnItsCore
  <1>1. Init => SbInv
    BY SbInit
  <1>2. SbInv /\ [Next]_vars => SbInv'
    BY SbStep
  <1>3. SbInv => IsrOnItsCore
    <2> SUFFICES ASSUME SbInv, intmask, bus # "SB" PROVE curidx = DevIdx /\ ~memseg
      BY DEF IsrOnItsCore
    <2>1. PICK a \in Shadow, b \in Shadow : Mirrors(a) /\ Goes(Ctx, a, code, b)
      BY DEF SbInv
    <2>2. Calm(Ctx, a)
      BY <2>1, GoesStarts
    <2>3. a.intr # "off" /\ wants_intrs
      BY <2>1 DEF Mirrors, Enabled
    <2>4. Ctx.guard # "no" /\ Ctx.dev = DevIdx
      BY <2>3, CtxIs DEF SbInv
    <2>5. a.cur = DevIdx /\ a.half = "lower"
      BY <2>2, <2>3, <2>4 DEF Calm
    <2> QED
      BY <2>1, <2>5 DEF Mirrors
  <1> QED
    BY <1>1, <1>2, <1>3, PTL DEF Spec

\* After every call, on every path through it, the interrupt, the focus, the
\* half of the registers and the saved masks are as the driver left them.
THEOREM SbCallsRestore ==
  ASSUME Calls \cap Wrong = {}
  PROVE  Spec => []CallsRestore
  <1>1. Init => SbInv
    BY SbInit
  <1>2. SbInv /\ [Next]_vars => SbInv'
    BY SbStep
  <1>3. SbInv => CallsRestore
    <2> SUFFICES ASSUME SbInv, Idle
                 PROVE  /\ intmask = (wants_intrs /\ ~dpc)
                        /\ curidx = want /\ ~memseg /\ vals = << >>
      BY DEF CallsRestore, IntrsKept, FocusKept
    <2>1. Resting
      BY RestIs DEF Idle
    <2>2. curidx = want /\ ~memseg /\ vals = << >>
      BY <2>1 DEF Resting
    <2>3. intmask \in BOOLEAN /\ (intmask <=> wants_intrs /\ ~dpc)
      BY <2>1 DEF Resting, Enabled
    <2>4. intmask = (wants_intrs /\ ~dpc)
      BY <2>3, Zenon
    <2> QED
      BY <2>2, <2>4
  <1> QED
    BY <1>1, <1>2, <1>3, PTL DEF Spec

\* Every register access of the library reaches the core, and the half of its
\* registers, that the code means.
THEOREM SbAccessRight ==
  ASSUME Calls \cap Wrong = {}
  PROVE  Spec => []AccessRight
  <1>1. Init => SbInv
    BY SbInit
  <1>2. SbInv /\ [Next]_vars => SbInv'
    BY SbStep
  <1>3. SbInv => AccessRight
    <2> SUFFICES ASSUME SbInv, code # << >>, Head(code).k \in {"reg", "tml"}
                 PROVE  /\ Head(code).idx = curidx
                        /\ Segmented => Head(code).upper = memseg
      BY DEF AccessRight
    <2>1. PICK a \in Shadow, b \in Shadow : Mirrors(a) /\ Goes(Ctx, a, code, b)
      BY DEF SbInv
    <2>2. PICK m \in Shadow : Moves(Ctx, Head(code), a, m)
      BY <2>1, GoesFirst
    <2>3. Reaches(Ctx, Head(code), a)
      BY <2>2 DEF Moves
    <2>4. Ctx.bus = bus
      BY CtxIs DEF SbInv
    <2>5. Head(code).idx = curidx
      BY <2>1, <2>3 DEF Reaches, Mirrors
    <2>6. Segmented => Head(code).upper = (a.half = "upper")
      BY <2>3, <2>4 DEF Reaches, Segmented
    <2>7. memseg \in BOOLEAN /\ (memseg <=> a.half = "upper")
      BY <2>1 DEF Mirrors
    <2>8. memseg = (a.half = "upper")
      BY <2>7, Zenon
    <2> QED
      BY <2>5, <2>6, <2>8
  <1> QED
    BY <1>1, <1>2, <1>3, PTL DEF Spec

\* sb_core_disable and sb_core_reset put no core into reset in the middle of a
\* backplane transaction: the core has been seen to reject new ones before the
\* last one was seen to end (1130-1136).
THEOREM SbNoResetWhileBusy ==
  ASSUME Calls \cap Wrong = {}
  PROVE  Spec => []NoResetWhileBusy
  <1>1. Init => SbInv
    BY SbInit
  <1>2. SbInv /\ [Next]_vars => SbInv'
    BY SbStep
  <1>3. SbInv => NoResetWhileBusy
    BY DEF SbInv, SbBasic, NoResetWhileBusy
  <1> QED
    BY <1>1, <1>2, <1>3, PTL DEF Spec
=============================================================================
