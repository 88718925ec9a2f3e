--------------------------- MODULE MipsDecProofs ---------------------------
(***************************************************************************)
(* Proofs about resolveDelaySlots, for functions of every length, with or  *)
(* without loops.                                                          *)
(*                                                                         *)
(* The processor only ever stands on an instruction that is no delay slot  *)
(* (a head), and the resolved list has each head once, on its top level.   *)
(* So "the code left to run is what was made of the function from head a   *)
(* on" (Rest(p)[a]) says where the generated code is when the processor is *)
(* at a, and a goto leads exactly there.  While the processor does one     *)
(* instruction with its slot, the generated code takes one, two or three   *)
(* steps, whichever way the slot was resolved (KeepsAll), and so the two   *)
(* runs stay together (RunsTogether) and show the same (SameRuns).         *)
(***************************************************************************)
EXTENDS MipsDec, RingLemmas, FiniteSetTheorems, TLAPS

LEMMA HeadTail ==
  ASSUME NEW S, NEW x \in S, NEW t \in Seq(S)
  PROVE  /\ <<x>> \o t \in Seq(S) /\ <<x>> \o t # <<>>
         /\ Head(<<x>> \o t) = x /\ Tail(<<x>> \o t) = t
         /\ Len(<<x>> \o t) = Len(t) + 1
         /\ (<<x>> \o t)[1] = x
         /\ \A k \in 1 .. Len(t) : (<<x>> \o t)[k + 1] = t[k]
  <1>1. <<x>> \in Seq(S) /\ Len(<<x>>) = 1
    OBVIOUS
  <1>2. <<x>> \o t \in Seq(S) /\ Len(<<x>> \o t) = Len(t) + 1 /\ (<<x>> \o t)[1] = x
    BY <1>1
  <1>3. \A k \in 1 .. Len(t) : (<<x>> \o t)[k + 1] = t[k]
    BY <1>1
  <1>4. <<x>> \o t # <<>>
    BY <1>2
  <1>5. Head(<<x>> \o t) = x
    BY <1>2
  <1>6. Tail(<<x>> \o t) = t
    <2> DEFINE u == <<x>> \o t
    <2>1. Tail(u) \in Seq(S) /\ Len(Tail(u)) = Len(t)
      BY <1>2, <1>4
    <2>2. \A k \in 1 .. Len(t) : Tail(u)[k] = u[k + 1]
      BY <1>2, <1>4
    <2> QED
      BY <2>1, <2>2, <1>3
  <1> QED
    BY <1>2, <1>3, <1>4, <1>5, <1>6

\* What comes of applying F[1], F[2], ... in turn, all of which stay in S.
Iterates(g, n, S, a, F) ==
  /\ g \in [0 .. n -> S]
  /\ g[0] = a /\ \A k \in 1 .. n : g[k] = F[k][g[k - 1]]

LEMMA Iterated ==
  ASSUME NEW n \in Nat, NEW S, NEW a \in S, NEW F \in [1 .. n -> [S -> S]]
  PROVE  \E g : Iterates(g, n, S, a, F)
  <1> DEFINE P(m) == \E g \in [0 .. m -> S] : g[0] = a /\ \A k \in 1 .. m : g[k] = F[k][g[k - 1]]
             T == {m \in 0 .. n : P(m)}
  <1>1. 0 \in T
    <2> DEFINE g == [k \in 0 .. 0 |-> a]
    <2>1. g \in [0 .. 0 -> S] /\ g[0] = a /\ \A k \in 1 .. 0 : g[k] = F[k][g[k - 1]]
      OBVIOUS
    <2>2. P(0)
      BY <2>1
    <2> QED
      BY <2>2
  <1>2. ASSUME NEW m \in 0 .. (n - 1), m \in T PROVE m + 1 \in T
    <2>1. PICK g \in [0 .. m -> S] : g[0] = a /\ \A k \in 1 .. m : g[k] = F[k][g[k - 1]]
      BY <1>2
    <2> DEFINE h == [k \in 0 .. (m + 1) |-> IF k = m + 1 THEN F[m + 1][g[m]] ELSE g[k]]
    <2>2. h \in [0 .. (m + 1) -> S]
      OBVIOUS
    <2>3. h[0] = a
      BY <2>1
    <2>4. ASSUME NEW k \in 1 .. (m + 1) PROVE h[k] = F[k][h[k - 1]]
      <3>1. CASE k = m + 1
        BY <3>1
      <3>2. CASE k # m + 1
        <4>1. k \in 1 .. m /\ k - 1 \in 0 .. m
          BY <3>2
        <4> QED
          BY <2>1, <4>1
      <3> QED
        BY <3>1, <3>2
    <2> HIDE DEF h
    <2>5. P(m + 1)
      BY <2>2, <2>3, <2>4
    <2> HIDE DEF P
    <2> QED
      BY <2>5
  <1>3. 0 .. n \subseteq T
    <2> HIDE DEF T
    <2> QED
      BY <1>1, <1>2, UpTo
  <1> QED
    BY <1>3 DEF Iterates

-----------------------------------------------------------------------------
(***************************************************************************)
(* The instructions that are no delay slot: the only ones the processor    *)
(* comes to and the only ones a branch leads to.                           *)
(***************************************************************************)
Heads(p) == {a \in 1 .. Size : ~IsSlot(p, a)}

PlainTypes == {"NOP", "SW", "ADDU", "SP", "SAVE", "RELOAD"}

LEMMA ProgramTypes ==
  ASSUME NEW p, WellFormed(p)
  PROVE  \A a \in 1 .. Size :
           /\ p[a].t \in PlainTypes \cup BranchTypes \cup {"J", "JALR", "JR"}
           /\ p[a].j \in 0 .. Size
           /\ p[a].t \in BranchTypes => p[a].t \in Branches
           /\ ~Delayed(p, a) => p[a].t \in PlainTypes
           /\ IsSlot(p, a) => ~Delayed(p, a)
  <1> SUFFICES ASSUME NEW a \in 1 .. Size
               PROVE  /\ p[a].t \in PlainTypes \cup BranchTypes \cup {"J", "JALR", "JR"}
                      /\ p[a].j \in 0 .. Size
                      /\ p[a].t \in BranchTypes => p[a].t \in Branches
                      /\ ~Delayed(p, a) => p[a].t \in PlainTypes
                      /\ IsSlot(p, a) => ~Delayed(p, a)
    OBVIOUS
  <1>1. p[a] \in Words /\ (IsSlot(p, a) => p[a].t \in Plain)
    BY DEF WellFormed
  <1>2. p[a].t \in Plain \cup Branches \cup Jumps \cup {"JR"} /\ p[a].j \in 0 .. Size
    BY <1>1 DEF Words
  <1>3. /\ Plain \subseteq PlainTypes /\ Branches \subseteq BranchTypes
        /\ Jumps \subseteq {"J", "JALR"}
    BY MipsDecAssumption DEF BranchTypes, PlainTypes
  <1>4. p[a].t \in Plain => p[a].t \notin BranchTypes /\ ~Delayed(p, a)
    BY <1>3 DEF BranchTypes, PlainTypes, Delayed
  <1>5. p[a].t \in Jumps \cup {"JR"} => p[a].t \notin BranchTypes
    BY <1>3 DEF BranchTypes
  <1>6. p[a].t \notin Plain => Delayed(p, a)
    BY <1>2, <1>3 DEF Delayed
  <1> QED
    BY <1>1, <1>2, <1>3, <1>4, <1>5, <1>6

LEMMA HeadFacts ==
  ASSUME NEW p, WellFormed(p), NEW a \in Heads(p)
  PROVE  /\ a \in 1 .. (Size - 1) /\ a + 1 \in 1 .. Size
         /\ ~Delayed(p, a) => a + 1 \in Heads(p)
         /\ Delayed(p, a) => p[a + 1].t \in PlainTypes /\ IsSlot(p, a + 1)
         /\ Delayed(p, a) => a = Size - 1 \/ a + 2 \in Heads(p)
         /\ a = Size - 1 => p[a].t = "JR"
         /\ p[a].t \in BranchTypes \cup {"J"} => p[a].j \in Heads(p)
         /\ p[a].t \in BranchTypes \cup {"J"} /\ Direction = "forward" => p[a].j > a + 1
  <1>1. Size \in Nat /\ Size >= 2 /\ a \in 1 .. Size /\ ~IsSlot(p, a)
    BY MipsDecAssumption DEF Heads
  <1>2. p[Size - 1].t = "JR" /\ Delayed(p, Size - 1) /\ IsSlot(p, Size)
    BY <1>1 DEF WellFormed, Delayed, IsSlot
  <1>3. a # Size
    BY <1>1, <1>2
  <1>4. a \in 1 .. (Size - 1) /\ a + 1 \in 1 .. Size
    BY <1>1, <1>3
  <1>5. IsSlot(p, a + 1) <=> Delayed(p, a)
    <2>1. (a + 1) - 1 = a /\ a + 1 > 1
      BY <1>4
    <2> QED
      BY <2>1 DEF IsSlot
  <1>6. ~Delayed(p, a) => a + 1 \in Heads(p)
    BY <1>4, <1>5 DEF Heads
  <1>7. ASSUME Delayed(p, a)
        PROVE  /\ p[a + 1].t \in PlainTypes
               /\ a = Size - 1 \/ a + 2 \in Heads(p)
    <2>1. ~Delayed(p, a + 1)
      BY <1>4, <1>5, <1>7, ProgramTypes
    <2>2. ~IsSlot(p, a + 2)
      <3>1. (a + 2) - 1 = a + 1
        BY <1>4
      <3> QED
        BY <2>1, <3>1 DEF IsSlot
    <2>3. a = Size - 1 \/ a + 2 \in 1 .. Size
      BY <1>1, <1>4
    <2> QED
      BY <1>4, <2>1, <2>2, <2>3, ProgramTypes DEF Heads
  <1>8. ASSUME p[a].t \in BranchTypes \cup {"J"}
        PROVE  p[a].j \in Heads(p) /\ (Direction = "forward" => p[a].j > a + 1)
    <2>1. p[a].t \in Branches \cup {"J"}
      BY <1>1, <1>8, ProgramTypes
    <2>2. p[a].j \in Targets(a) /\ ~IsSlot(p, p[a].j)
      BY <1>1, <2>1 DEF WellFormed
    <2>3. p[a].j \in 1 .. Size /\ (Direction = "forward" => p[a].j > a + 1)
      <3>1. CASE Direction = "forward"
        BY <1>1, <2>2, <3>1 DEF Targets
      <3>2. CASE Direction # "forward"
        BY <1>1, <2>2, <3>2 DEF Targets
      <3> QED
        BY <3>1, <3>2
    <2> QED
      BY <2>2, <2>3 DEF Heads
  <1> QED
    BY <1>2, <1>4, <1>5, <1>6, <1>7, <1>8

LEMMA FirstHead ==
  ASSUME NEW p, WellFormed(p)
  PROVE  1 \in Heads(p)
  BY MipsDecAssumption DEF Heads, IsSlot
-----------------------------------------------------------------------------
(***************************************************************************)
(* The run of the machine instructions: it stays on such instructions,     *)
(* what it has done only grows, and once it has returned nothing changes.  *)
(***************************************************************************)
Events == {"SW", "ADDU", "JALR", "return"} \X Int

MipsConfigs(p) ==
  {c \in [pc : Heads(p), r : Int, seen : Seq(Events), over : BOOLEAN] :
     c.over => p[c.pc].t = "JR"}

LEMMA StepSeen ==
  ASSUME NEW type, NEW r \in Int
  PROVE  /\ Step(type, r) \in Int /\ Called(type, r) \in Int
         /\ Seen(type, r) \in Seq(Events)
  <1>1. Step(type, r) \in Int /\ Called(type, r) \in Int
    BY DEF Step, Modifies, Called
  <1>2. CASE type \in {"SW", "ADDU", "JALR"}
    <2>1. <<type, r>> \in Events
      BY <1>2 DEF Events
    <2>2. <<<<type, r>>>> \in Seq(Events)
      BY <2>1
    <2> QED
      BY <1>1, <1>2, <2>2 DEF Seen
  <1>3. CASE type \notin {"SW", "ADDU", "JALR"}
    BY <1>1, <1>3 DEF Seen
  <1> QED
    BY <1>2, <1>3

\* What the processor does at an instruction of each kind.
LEMMA MipsCases ==
  ASSUME NEW p, WellFormed(p), NEW c \in MipsConfigs(p), ~c.over
  PROVE  LET i == p[c.pc]
             s == p[c.pc + 1]
             slot(next) == [pc |-> next, r |-> Step(s.t, c.r),
                            seen |-> c.seen \o Seen(s.t, c.r), over |-> FALSE]
         IN
         /\ ~Delayed(p, c.pc) => MipsStep(p, c) =
              [pc |-> c.pc + 1, r |-> Step(i.t, c.r), seen |-> c.seen \o Seen(i.t, c.r), over |-> FALSE]
         /\ i.t \in BranchTypes /\ Taken(i.t, c.r) => MipsStep(p, c) = slot(i.j)
         /\ i.t \in Likely /\ ~Taken(i.t, c.r) => MipsStep(p, c) = [c EXCEPT !.pc = c.pc + 2]
         /\ i.t \in BranchTypes \ Likely /\ ~Taken(i.t, c.r) => MipsStep(p, c) = slot(c.pc + 2)
         /\ i.t = "J" => MipsStep(p, c) = slot(i.j)
         /\ i.t = "JALR" => MipsStep(p, c) =
              [pc |-> c.pc + 2, r |-> Step(s.t, c.r),
               seen |-> (c.seen \o Seen(s.t, c.r)) \o Seen("JALR", Called(s.t, c.r)), over |-> FALSE]
         /\ i.t = "JR" => MipsStep(p, c) =
              [pc |-> c.pc, r |-> Step(s.t, c.r),
               seen |-> Append(c.seen \o Seen(s.t, c.r), <<"return", Step(s.t, c.r)>>), over |-> TRUE]
  <1> DEFINE i == p[c.pc]
             s == p[c.pc + 1]
  <1>0. c.pc \in 1 .. Size
    BY DEF MipsConfigs, Heads
  <1>1. ASSUME ~Delayed(p, c.pc)
        PROVE  MipsStep(p, c) =
          [pc |-> c.pc + 1, r |-> Step(i.t, c.r), seen |-> c.seen \o Seen(i.t, c.r), over |-> FALSE]
    <2>1. i.t \notin BranchTypes \cup {"J", "JALR", "JR"} /\ i.t \notin Likely
      BY <1>1 DEF Delayed, BranchTypes, Likely
    <2> HIDE DEF i
    <2> QED
      BY <1>1, <2>1 DEF MipsStep, i
  <1>2. ASSUME i.t \in BranchTypes
        PROVE  Delayed(p, c.pc) /\ i.t \notin {"J", "JALR", "JR"}
    BY <1>2 DEF BranchTypes, Delayed
  <1>3. Likely \subseteq BranchTypes
    BY DEF Likely, BranchTypes
  <1>4. ASSUME i.t \in {"J", "JALR", "JR"}
        PROVE  Delayed(p, c.pc) /\ i.t \notin BranchTypes /\ i.t \notin Likely
    BY <1>4, SMTT(30) DEF BranchTypes, Delayed, Likely
  <1> DEFINE slot(next) == [pc |-> next, r |-> Step(s.t, c.r),
                            seen |-> c.seen \o Seen(s.t, c.r), over |-> FALSE]
  <1>5. i.t \in BranchTypes /\ Taken(i.t, c.r) => MipsStep(p, c) = slot(i.j)
    BY <1>2, <1>3, SMTT(30) DEF MipsStep
  <1>6. i.t \in Likely /\ ~Taken(i.t, c.r) => MipsStep(p, c) = [c EXCEPT !.pc = c.pc + 2]
    BY <1>2, <1>3, SMTT(30) DEF MipsStep
  <1>7. i.t \in BranchTypes \ Likely /\ ~Taken(i.t, c.r) => MipsStep(p, c) = slot(c.pc + 2)
    BY <1>2, <1>3 DEF MipsStep
  <1>8. i.t = "J" => MipsStep(p, c) = slot(i.j)
    BY <1>4 DEF MipsStep
  <1>9. i.t = "JALR" => MipsStep(p, c) =
              [pc |-> c.pc + 2, r |-> Step(s.t, c.r),
               seen |-> (c.seen \o Seen(s.t, c.r)) \o Seen("JALR", Called(s.t, c.r)), over |-> FALSE]
    BY <1>4 DEF MipsStep
  <1>10. i.t = "JR" => MipsStep(p, c) =
              [pc |-> c.pc, r |-> Step(s.t, c.r),
               seen |-> Append(c.seen \o Seen(s.t, c.r), <<"return", Step(s.t, c.r)>>), over |-> TRUE]
    BY <1>4 DEF MipsStep
  <1> QED
    BY <1>1, <1>5, <1>6, <1>7, <1>8, <1>9, <1>10
LEMMA MipsStepTyped ==
  ASSUME NEW p, WellFormed(p), NEW c \in MipsConfigs(p)
  PROVE  MipsStep(p, c) \in MipsConfigs(p)
  <1> DEFINE i == p[c.pc]
             s == p[c.pc + 1]
             R == [pc : Heads(p), r : Int, seen : Seq(Events), over : BOOLEAN]
  <1>1. CASE c.over
    BY <1>1 DEF MipsStep
  <1>2. CASE ~c.over
    <2>1. c \in R /\ c.pc \in Heads(p) /\ c.r \in Int /\ c.seen \in Seq(Events)
      BY DEF MipsConfigs
    <2>2. /\ Step(i.t, c.r) \in Int /\ Seen(i.t, c.r) \in Seq(Events)
          /\ Step(s.t, c.r) \in Int /\ Called(s.t, c.r) \in Int /\ Seen(s.t, c.r) \in Seq(Events)
      BY <2>1, StepSeen
    <2>3. Seen("JALR", Called(s.t, c.r)) \in Seq(Events) /\ <<"return", Step(s.t, c.r)>> \in Events
      BY <2>2, StepSeen DEF Events
    <2>4. /\ c.seen \o Seen(i.t, c.r) \in Seq(Events)
          /\ c.seen \o Seen(s.t, c.r) \in Seq(Events)
          /\ (c.seen \o Seen(s.t, c.r)) \o Seen("JALR", Called(s.t, c.r)) \in Seq(Events)
          /\ Append(c.seen \o Seen(s.t, c.r), <<"return", Step(s.t, c.r)>>) \in Seq(Events)
      <3> HIDE DEF i, s
      <3> QED
        BY <2>1, <2>2, <2>3
    <2>5. CASE ~Delayed(p, c.pc)
      <3>1. c.pc + 1 \in Heads(p)
        BY <2>1, <2>5, HeadFacts
      <3>2. MipsStep(p, c) =
              [pc |-> c.pc + 1, r |-> Step(i.t, c.r), seen |-> c.seen \o Seen(i.t, c.r), over |-> FALSE]
        BY <1>2, <2>5, MipsCases
      <3> HIDE DEF i
      <3> QED
        BY <2>2, <2>4, <3>1, <3>2 DEF MipsConfigs
    <2>6. CASE i.t \in BranchTypes \cup {"J"}
      <3>1. i.j \in Heads(p)
        BY <2>1, <2>6, HeadFacts
      <3>2. Delayed(p, c.pc) /\ i.t # "JR"
        BY <2>6 DEF Delayed, BranchTypes
      <3>3. c.pc + 2 \in Heads(p)
        BY <2>1, <3>2, HeadFacts
      <3>4. \/ \E next \in Heads(p) :
                 MipsStep(p, c) = [pc |-> next, r |-> Step(s.t, c.r),
                                   seen |-> c.seen \o Seen(s.t, c.r), over |-> FALSE]
            \/ MipsStep(p, c) = [c EXCEPT !.pc = c.pc + 2]
        BY <1>2, <2>6, <3>1, <3>3, MipsCases, ZenonT(60)
      <3>5. CASE MipsStep(p, c) = [c EXCEPT !.pc = c.pc + 2]
        BY <1>2, <2>1, <3>3, <3>5 DEF MipsConfigs
      <3>6. CASE \E next \in Heads(p) :
                   MipsStep(p, c) = [pc |-> next, r |-> Step(s.t, c.r),
                                     seen |-> c.seen \o Seen(s.t, c.r), over |-> FALSE]
        <4> HIDE DEF s
        <4> QED
          BY <2>2, <2>4, <3>6 DEF MipsConfigs
      <3> QED
        BY <3>4, <3>5, <3>6
    <2>7. CASE i.t = "JALR"
      <3>1. Delayed(p, c.pc)
        BY <2>7 DEF Delayed
      <3>2. c.pc + 2 \in Heads(p)
        BY <2>1, <2>7, <3>1, HeadFacts
      <3>3. MipsStep(p, c) =
              [pc |-> c.pc + 2, r |-> Step(s.t, c.r),
               seen |-> (c.seen \o Seen(s.t, c.r)) \o Seen("JALR", Called(s.t, c.r)), over |-> FALSE]
        BY <1>2, <2>7, MipsCases, ZenonT(60)
      <3> HIDE DEF s
      <3> QED
        BY <2>2, <2>4, <3>2, <3>3 DEF MipsConfigs
    <2>8. CASE i.t = "JR"
      <3>1. MipsStep(p, c) =
              [pc |-> c.pc, r |-> Step(s.t, c.r),
               seen |-> Append(c.seen \o Seen(s.t, c.r), <<"return", Step(s.t, c.r)>>), over |-> TRUE]
        BY <1>2, <2>8, MipsCases, ZenonT(60)
      <3> HIDE DEF s
      <3> QED
        BY <2>1, <2>2, <2>4, <2>8, <3>1 DEF MipsConfigs
    <2> QED
      BY <2>5, <2>6, <2>7, <2>8 DEF Delayed
  <1> QED
    BY <1>1, <1>2 DEF MipsConfigs

LEMMA RunMipsIs ==
  ASSUME NEW p, WellFormed(p), NEW r \in Int
  PROVE  /\ RunMips(p, r) \in [0 .. Fuel -> MipsConfigs(p)]
         /\ RunMips(p, r)[0] = [pc |-> 1, r |-> r, seen |-> <<>>, over |-> FALSE]
         /\ \A k \in 1 .. Fuel : RunMips(p, r)[k] = MipsStep(p, RunMips(p, r)[k - 1])
  <1> DEFINE a == [pc |-> 1, r |-> r, seen |-> <<>>, over |-> FALSE]
             S == MipsConfigs(p)
             F == [k \in 1 .. Fuel |-> [c \in S |-> MipsStep(p, c)]]
             Is(f) == f = [k \in 0 .. Fuel |-> IF k = 0 THEN a ELSE MipsStep(p, f[k - 1])]
  <1>0. Fuel \in Nat
    BY MipsDecAssumption
  <1>1. a \in S
    BY FirstHead DEF MipsConfigs
  <1>2. F \in [1 .. Fuel -> [S -> S]]
    <2> HIDE DEF S
    <2>1. \A c \in S : MipsStep(p, c) \in S
      BY MipsStepTyped DEF S
    <2> QED
      BY <2>1
  <1>3. \E g : Iterates(g, Fuel, S, a, F)
    <2> HIDE DEF S, a, F
    <2> QED
      BY <1>0, <1>1, <1>2, Iterated
  <1>3a. PICK g \in [0 .. Fuel -> S] : g[0] = a /\ \A k \in 1 .. Fuel : g[k] = F[k][g[k - 1]]
    <2> HIDE DEF S, a, F
    <2> QED
      BY <1>3 DEF Iterates
  <1>4. Is(g)
    <2> HIDE DEF S, a
    <2>1. \A k \in 0 .. Fuel : g[k] = IF k = 0 THEN a ELSE MipsStep(p, g[k - 1])
      <3> TAKE k \in 0 .. Fuel
      <3>1. CASE k = 0
        BY <1>3a, <3>1
      <3>2. CASE k # 0
        <4>1. k \in 1 .. Fuel /\ k - 1 \in 0 .. Fuel /\ g[k - 1] \in S
          BY <1>0, <3>2
        <4>2. F[k][g[k - 1]] = MipsStep(p, g[k - 1])
          BY <4>1
        <4> HIDE DEF F
        <4> QED
          BY <1>3a, <3>2, <4>1, <4>2
      <3> QED
        BY <3>1, <3>2
    <2> HIDE DEF F
    <2> QED
      BY <2>1
  <1> DEFINE m == RunMips(p, r)
  <1>5. Is(m)
    <2>1. m = CHOOSE f : Is(f)
      BY DEF RunMips
    <2> HIDE DEF m, Is
    <2> QED
      BY <1>4, <2>1
  <1> HIDE DEF m
  <1>6. m[0] = a
    BY <1>0, <1>5
  <1>7. \A k \in 1 .. Fuel : m[k] = MipsStep(p, m[k - 1])
    <2> TAKE k \in 1 .. Fuel
    <2>1. k \in 0 .. Fuel /\ k # 0
      BY <1>0
    <2> HIDE DEF a
    <2> QED
      BY <1>5, <2>1
  <1>8. 0 .. Fuel \subseteq {k \in 0 .. Fuel : m[k] \in S}
    <2> DEFINE T == {k \in 0 .. Fuel : m[k] \in S}
    <2>1. 0 \in T
      BY <1>0, <1>1, <1>6
    <2>2. ASSUME NEW k \in 0 .. (Fuel - 1), k \in T PROVE k + 1 \in T
      <3>1. k + 1 \in 1 .. Fuel /\ (k + 1) - 1 = k /\ m[k] \in S
        BY <1>0, <2>2
      <3>2. m[k + 1] = MipsStep(p, m[k])
        BY <1>7, <3>1
      <3> QED
        BY <3>1, <3>2, MipsStepTyped
    <2> HIDE DEF T
    <2> QED
      BY <1>0, <2>1, <2>2, UpTo DEF T
  <1>9. m \in [0 .. Fuel -> S]
    <2> HIDE DEF S
    <2> QED
      BY <1>5, <1>8
  <1> QED
    BY <1>6, <1>7, <1>9 DEF m
LEMMA ConcatAssoc ==
  ASSUME NEW S, NEW s \in Seq(S), NEW t \in Seq(S), NEW u \in Seq(S)
  PROVE  (s \o t) \o u = s \o (t \o u)
  OBVIOUS

LEMMA AppendConcat ==
  ASSUME NEW S, NEW s \in Seq(S), NEW e \in S
  PROVE  <<e>> \in Seq(S) /\ Append(s, e) = s \o <<e>>
  <1>1. <<e>> \in Seq(S) /\ Len(<<e>>) = 1 /\ <<e>>[1] = e
    OBVIOUS
  <1>2. Append(s, e) \in Seq(S) /\ Len(Append(s, e)) = Len(s) + 1
    OBVIOUS
  <1>3. s \o <<e>> \in Seq(S) /\ Len(s \o <<e>>) = Len(s) + 1
    BY <1>1
  <1>4. \A k \in 1 .. (Len(s) + 1) : Append(s, e)[k] = (s \o <<e>>)[k]
    BY <1>1
  <1> QED
    BY <1>1, <1>2, <1>3, <1>4

LEMMA PrefixOfConcat ==
  ASSUME NEW S, NEW s \in Seq(S), NEW u \in Seq(S)
  PROVE  IsPrefix(s, s \o u)
  <1>1. s \o u \in Seq(S) /\ Len(s \o u) = Len(s) + Len(u) /\ Len(s) \in Nat /\ Len(u) \in Nat
    OBVIOUS
  <1>2. SubSeq(s, 1, Len(s)) \in Seq(S) /\ Len(SubSeq(s, 1, Len(s))) = Len(s)
    BY <1>1
  <1>3. SubSeq(s \o u, 1, Len(s)) \in Seq(S) /\ Len(SubSeq(s \o u, 1, Len(s))) = Len(s)
    BY <1>1
  <1>4. ASSUME NEW k \in 1 .. Len(s)
        PROVE  SubSeq(s, 1, Len(s))[k] = SubSeq(s \o u, 1, Len(s))[k]
    <2>1. SubSeq(s, 1, Len(s))[k] = s[k]
      BY <1>1
    <2>2. SubSeq(s \o u, 1, Len(s))[k] = (s \o u)[k]
      BY <1>1
    <2>3. (s \o u)[k] = s[k]
      BY <1>1
    <2> QED
      BY <2>1, <2>2, <2>3
  <1>5. SubSeq(s, 1, Len(s)) = SubSeq(s \o u, 1, Len(s))
    BY <1>2, <1>3, <1>4
  <1> QED
    BY <1>1, <1>5 DEF IsPrefix

\* What the slot shows is part of what the whole step shows, but for the slot
\* of a likely branch that is not taken.
LEMMA MipsStepGrows ==
  ASSUME NEW p, WellFormed(p), NEW c \in MipsConfigs(p)
  PROVE  LET s == p[c.pc + 1]
             did == MipsStep(p, c)
         IN
         /\ \E u \in Seq(Events) : did.seen = c.seen \o u
         /\ ~c.over /\ Delayed(p, c.pc) /\ ~(p[c.pc].t \in Likely /\ ~Taken(p[c.pc].t, c.r)) =>
              \E u \in Seq(Events) : did.seen = (c.seen \o Seen(s.t, c.r)) \o u
         /\ ~c.over /\ ~did.over /\ Direction = "forward" => did.pc > c.pc
         /\ c.over => did = c
  <1> DEFINE i == p[c.pc]
             s == p[c.pc + 1]
             did == MipsStep(p, c)
  <1>1. c.pc \in Heads(p) /\ c.r \in Int /\ c.seen \in Seq(Events) /\ c.pc \in Nat
    BY DEF MipsConfigs, Heads
  <1>2. <<>> \in Seq(Events)
    OBVIOUS
  <1>3. c.seen = c.seen \o <<>>
    BY <1>1
  <1>4. CASE c.over
    BY <1>2, <1>3, <1>4 DEF MipsStep
  <1>5. CASE ~c.over
    <2>1. /\ Step(i.t, c.r) \in Int /\ Seen(i.t, c.r) \in Seq(Events)
          /\ Step(s.t, c.r) \in Int /\ Called(s.t, c.r) \in Int /\ Seen(s.t, c.r) \in Seq(Events)
      BY <1>1, StepSeen
    <2>2. Seen("JALR", Called(s.t, c.r)) \in Seq(Events) /\ <<"return", Step(s.t, c.r)>> \in Events
      BY <2>1, StepSeen DEF Events
    <2> DEFINE e == <<"return", Step(s.t, c.r)>>
               b == c.seen \o Seen(s.t, c.r)
    <2>3. b \in Seq(Events) /\ b \o <<>> = b
      <3> HIDE DEF i, s
      <3> QED
        BY <1>1, <2>1
    <2>4. <<e>> \in Seq(Events) /\ Append(b, e) = b \o <<e>>
      <3>1. e \in Events
        BY <2>2
      <3> HIDE DEF e, b
      <3> QED
        BY <2>3, <3>1, AppendConcat
    <2>5. ASSUME NEW u \in Seq(Events), did.seen = b \o u
          PROVE  \E v \in Seq(Events) : did.seen = c.seen \o v
      <3> DEFINE q == c.seen
                 z == Seen(s.t, c.r)
      <3>1. q \in Seq(Events) /\ z \in Seq(Events) /\ did.seen = (q \o z) \o u
        BY <1>1, <2>1, <2>5
      <3>2. SUFFICES \E v \in Seq(Events) : did.seen = q \o v
        OBVIOUS
      <3> HIDE DEF q, z, did
      <3>3. z \o u \in Seq(Events) /\ (q \o z) \o u = q \o (z \o u)
        BY <3>1, ConcatAssoc, SMTT(30)
      <3> QED
        BY <3>1, <3>3
    <2>6. CASE ~Delayed(p, c.pc)
      <3> DEFINE w == c.seen \o Seen(i.t, c.r)
      <3>1. did = [pc |-> c.pc + 1, r |-> Step(i.t, c.r), seen |-> w, over |-> FALSE]
        BY <1>5, <2>6, MipsCases
      <3>2. did.seen = w /\ did.pc > c.pc
        <4> HIDE DEF w, did
        <4> QED
          BY <1>1, <3>1
      <3> QED
        BY <1>5, <2>1, <2>6, <3>2
    <2>7. CASE i.t \in BranchTypes \cup {"J"}
      <3>1. Direction = "forward" => i.j > c.pc + 1
        BY <1>1, <2>7, HeadFacts
      <3>2. CASE i.t \in Likely /\ ~Taken(i.t, c.r)
        <4>1. did = [c EXCEPT !.pc = c.pc + 2]
          BY <1>5, <3>2, MipsCases
        <4>2. did.seen = c.seen /\ did.pc = c.pc + 2
          BY <4>1 DEF MipsConfigs
        <4>3. did.pc > c.pc
          BY <1>1, <4>2
        <4> QED
          BY <1>2, <1>3, <1>5, <3>2, <4>2, <4>3
      <3>3. CASE ~(i.t \in Likely /\ ~Taken(i.t, c.r))
        <4>1. PICK next \in {i.j, c.pc + 2} : did = [pc |-> next, r |-> Step(s.t, c.r), seen |-> b, over |-> FALSE]
          BY <1>5, <2>7, <3>3, MipsCases, ZenonT(60)
        <4>2. did.seen = b /\ did.pc = next
          <5> HIDE DEF b, did
          <5> QED
            BY <4>1
        <4>3. Direction = "forward" => did.pc > c.pc
          <5>1. i.j \in Nat
            BY <1>1, <2>7, HeadFacts DEF Heads
          <5> HIDE DEF did
          <5> QED
            BY <1>1, <3>1, <4>2, <5>1
        <4>4. did.seen = b \o <<>>
          BY <2>3, <4>2, SMTT(30)
        <4> QED
          BY <1>2, <1>5, <2>5, <4>3, <4>4
      <3> QED
        BY <3>2, <3>3
    <2>8. CASE i.t = "JALR"
      <3> DEFINE w == b \o Seen("JALR", Called(s.t, c.r))
      <3>1. did = [pc |-> c.pc + 2, r |-> Step(s.t, c.r), seen |-> w, over |-> FALSE]
        BY <1>5, <2>8, MipsCases, ZenonT(60)
      <3>2. did.seen = w /\ did.pc = c.pc + 2
        <4> HIDE DEF w, did
        <4> QED
          BY <3>1
      <3>3. did.pc > c.pc
        BY <1>1, <3>2
      <3> QED
        BY <1>5, <2>2, <2>5, <3>2, <3>3
    <2>9. CASE i.t = "JR"
      <3>1. did = [pc |-> c.pc, r |-> Step(s.t, c.r), seen |-> Append(b, e), over |-> TRUE]
        BY <1>5, <2>9, MipsCases, ZenonT(60)
      <3>2. did.seen = b \o <<e>> /\ did.over
        <4> DEFINE w == Append(b, e)
        <4>1. did.seen = w /\ did.over
          <5>1. did = [pc |-> c.pc, r |-> Step(s.t, c.r), seen |-> w, over |-> TRUE]
            BY <3>1
          <5> HIDE DEF w, did
          <5> QED
            BY <5>1
        <4> QED
          BY <2>4, <4>1
      <3> QED
        BY <1>5, <2>4, <2>5, <3>2, ZenonT(60)
    <2> QED
      BY <2>6, <2>7, <2>8, <2>9 DEF Delayed
  <1> QED
    BY <1>4, <1>5

LEMMA RunMipsGrows ==
  ASSUME NEW p, WellFormed(p), NEW r \in Int
  PROVE  LET m == RunMips(p, r) IN
         /\ \A k \in 0 .. Fuel : \A n \in k .. Fuel :
              /\ \E u \in Seq(Events) : m[n].seen = m[k].seen \o u
              /\ m[k].over => m[n] = m[k]
         /\ Direction = "forward" => \A k \in 0 .. Fuel : ~m[k].over => m[k].pc > k
  <1> DEFINE m == RunMips(p, r)
  <1>0. Fuel \in Nat
    BY MipsDecAssumption
  <1>1. /\ m \in [0 .. Fuel -> MipsConfigs(p)]
        /\ m[0] = [pc |-> 1, r |-> r, seen |-> <<>>, over |-> FALSE]
        /\ \A k \in 1 .. Fuel : m[k] = MipsStep(p, m[k - 1])
    BY RunMipsIs
  <1> HIDE DEF m
  <1>2. ASSUME NEW k \in 0 .. Fuel
        PROVE  \A n \in k .. Fuel : /\ \E u \in Seq(Events) : m[n].seen = m[k].seen \o u
                                    /\ m[k].over => m[n] = m[k]
    <2> DEFINE P(n) == /\ \E u \in Seq(Events) : m[n].seen = m[k].seen \o u
                       /\ m[k].over => m[n] = m[k]
               T == {d \in 0 .. (Fuel - k) : P(k + d)}
    <2>0. m[k] \in MipsConfigs(p) /\ m[k].seen \in Seq(Events) /\ Fuel - k \in Nat
      BY <1>0, <1>1, SMTT(30) DEF MipsConfigs
    <2>1. 0 \in T
      <3>1. m[k].seen = m[k].seen \o <<>> /\ <<>> \in Seq(Events)
        BY <2>0
      <3>2. k + 0 = k
        BY <1>0
      <3>3. P(k)
        BY <3>1
      <3> HIDE DEF P
      <3> QED
        BY <2>0, <3>2, <3>3
    <2>2. ASSUME NEW d \in 0 .. ((Fuel - k) - 1), d \in T PROVE d + 1 \in T
      <3>1. /\ k + d \in 0 .. Fuel /\ k + (d + 1) \in 1 .. Fuel /\ (k + (d + 1)) - 1 = k + d
            /\ d + 1 \in 0 .. (Fuel - k)
        BY <1>0, <2>2
      <3>2. m[k + (d + 1)] = MipsStep(p, m[k + d]) /\ m[k + d] \in MipsConfigs(p)
        BY <1>1, <3>1
      <3>3. PICK u \in Seq(Events) : m[k + d].seen = m[k].seen \o u
        BY <2>2
      <3>4. PICK v \in Seq(Events) : m[k + (d + 1)].seen = m[k + d].seen \o v
        <4> DEFINE c == m[k + d]
        <4>1. c \in MipsConfigs(p)
          BY <3>2
        <4>2. \E v \in Seq(Events) : MipsStep(p, c).seen = c.seen \o v
          <5> HIDE DEF c
          <5> QED
            BY <4>1, MipsStepGrows
        <4> QED
          BY <3>2, <4>2
      <3>5. m[k + (d + 1)].seen = m[k].seen \o (u \o v) /\ u \o v \in Seq(Events)
        <4> DEFINE q == m[k].seen
                   z == m[k + (d + 1)].seen
        <4>1. q \in Seq(Events) /\ z = (q \o u) \o v
          BY <2>0, <3>3, <3>4
        <4> HIDE DEF q, z
        <4>2. z = q \o (u \o v) /\ u \o v \in Seq(Events)
          BY <4>1, ConcatAssoc, SMTT(30)
        <4> QED
          BY <4>2 DEF q, z
      <3>6. m[k].over => m[k + (d + 1)] = m[k]
        BY <2>2, <3>2, MipsStepGrows
      <3>7. P(k + (d + 1))
        BY <3>5, <3>6
      <3> HIDE DEF P
      <3> QED
        BY <3>1, <3>7
    <2>3. 0 .. (Fuel - k) \subseteq T
      <3> HIDE DEF T
      <3> QED
        BY <2>0, <2>1, <2>2, UpTo
    <2>4. ASSUME NEW n \in k .. Fuel PROVE P(n)
      <3>1. n - k \in 0 .. (Fuel - k) /\ k + (n - k) = n
        BY <1>0
      <3> HIDE DEF P
      <3> QED
        BY <2>3, <3>1
    <2> QED
      BY <2>4
  <1>3. ASSUME Direction = "forward"
        PROVE  \A k \in 0 .. Fuel : ~m[k].over => m[k].pc > k
    <2> DEFINE T == {k \in 0 .. Fuel : ~m[k].over => m[k].pc > k}
    <2>1. 0 \in T
      BY <1>0, <1>1
    <2>2. ASSUME NEW k \in 0 .. (Fuel - 1), k \in T PROVE k + 1 \in T
      <3>1. k + 1 \in 1 .. Fuel /\ (k + 1) - 1 = k /\ k \in 0 .. Fuel /\ k + 1 \in 0 .. Fuel
        BY <1>0
      <3>2. m[k + 1] = MipsStep(p, m[k]) /\ m[k] \in MipsConfigs(p) /\ m[k + 1] \in MipsConfigs(p)
        BY <1>1, <3>1
      <3>3. m[k].pc \in Nat /\ m[k + 1].pc \in Nat
        BY <3>2 DEF MipsConfigs, Heads
      <3>4. ~m[k + 1].over => ~m[k].over /\ m[k + 1].pc > m[k].pc
        BY <1>3, <3>2, MipsStepGrows, ZenonT(60)
      <3> QED
        BY <2>2, <3>1, <3>3, <3>4
    <2> HIDE DEF T
    <2> QED
      BY <1>0, <2>1, <2>2, UpTo DEF T
  <1> QED
    BY <1>2, <1>3 DEF m
-----------------------------------------------------------------------------
(***************************************************************************)
(* What resolveDelaySlots makes of a function.  Resolved is a recursive    *)
(* function, so that it exists has to be shown: Rest(p)[a] is what it      *)
(* makes of the instructions from a on.                                    *)
(***************************************************************************)
Listing(p) == [i \in 1 .. Size |-> Parse(p[i].t, i, p[i].j)]

Item(type, addr, jump, ifs, elses) ==
  [eType |-> type, uAddress |-> addr, uJumpAddress |-> jump, bDelayedDelete |-> FALSE,
   collIfBranch |-> ifs, collElseBranch |-> elses]

\* The slot of the instruction at a, as it is copied into a branch, the jump a
\* branch is closed with, the slot where it goes first, and the instruction
\* behind it.
SlotItem(p, a) == Item(p[a + 1].t, a + 1, p[a + 1].j, <<>>, <<>>)
CloseItem(p, a) == Item("J", NoAddress, p[a].j, <<>>, <<>>)
FirstItem(p, a) == Item(p[a + 1].t, a, p[a + 1].j, <<>>, <<>>)
SecondItem(p, a, ifs) == Item(p[a].t, a + 1, p[a].j, ifs, <<>>)

\* What EXCEPT makes of such a record.
LEMMA ItemAddress ==
  ASSUME NEW t, NEW a, NEW j, NEW i, NEW e, NEW x, x = Item(t, a, j, i, e), NEW v
  PROVE  [x EXCEPT !.uAddress = v] = Item(t, v, j, i, e)
  <1> DEFINE f == FALSE
             I(b, y, z) == [eType |-> t, uAddress |-> b, uJumpAddress |-> j, bDelayedDelete |-> f,
                            collIfBranch |-> y, collElseBranch |-> z]
  <1>1. x = I(a, i, e)
    BY DEF Item
  <1> SUFFICES [x EXCEPT !.uAddress = v] = I(v, i, e)
    BY DEF Item
  <1> HIDE DEF f
  <1> QED
    BY <1>1

LEMMA ItemIf ==
  ASSUME NEW t, NEW a, NEW j, NEW i, NEW e, NEW x, x = Item(t, a, j, i, e), NEW v
  PROVE  [x EXCEPT !.collIfBranch = v] = Item(t, a, j, v, e)
  <1> DEFINE f == FALSE
             I(b, y, z) == [eType |-> t, uAddress |-> b, uJumpAddress |-> j, bDelayedDelete |-> f,
                            collIfBranch |-> y, collElseBranch |-> z]
  <1>1. x = I(a, i, e)
    BY DEF Item
  <1> SUFFICES [x EXCEPT !.collIfBranch = v] = I(a, v, e)
    BY DEF Item
  <1> HIDE DEF f
  <1> QED
    BY <1>1

LEMMA ItemElse ==
  ASSUME NEW t, NEW a, NEW j, NEW i, NEW e, NEW x, x = Item(t, a, j, i, e), NEW v
  PROVE  [x EXCEPT !.collElseBranch = v] = Item(t, a, j, i, v)
  <1> DEFINE f == FALSE
             I(b, y, z) == [eType |-> t, uAddress |-> b, uJumpAddress |-> j, bDelayedDelete |-> f,
                            collIfBranch |-> y, collElseBranch |-> z]
  <1>1. x = I(a, i, e)
    BY DEF Item
  <1> SUFFICES [x EXCEPT !.collElseBranch = v] = I(a, i, v)
    BY DEF Item
  <1> HIDE DEF f
  <1> QED
    BY <1>1

LEMMA ListingIs ==
  ASSUME "BGEZ" \notin Branches, NEW p, WellFormed(p)
  PROVE  /\ Len(Listing(p)) = Size /\ Size \in Nat
         /\ \A a \in 1 .. Size : /\ Listing(p)[a] = Item(p[a].t, a, p[a].j, <<>>, <<>>)
                                 /\ HasDelaySlot(Listing(p)[a]) <=> Delayed(p, a)
  <1>1. Size \in Nat
    BY MipsDecAssumption
  <1>2. Len(Listing(p)) = Size
    BY <1>1 DEF Listing
  <1>3. ASSUME NEW a \in 1 .. Size
        PROVE  /\ Listing(p)[a] = Item(p[a].t, a, p[a].j, <<>>, <<>>)
               /\ HasDelaySlot(Listing(p)[a]) <=> Delayed(p, a)
    <2>1. p[a].t # "BGEZ"
      BY ProgramTypes DEF BranchTypes
    <2>2. Listing(p)[a] = Item(p[a].t, a, p[a].j, <<>>, <<>>)
      BY <2>1 DEF Listing, Parse, Instr, Item
    <2>3. Listing(p)[a].eType = p[a].t
      BY <2>2 DEF Item
    <2> QED
      BY <2>2, <2>3 DEF HasDelaySlot, Delayed
  <1> QED
    BY <1>1, <1>2, <1>3

LEMMA TurnedCases ==
  ASSUME "BGEZ" \notin Branches, NEW p, WellFormed(p), NEW a \in Heads(p)
  PROVE  LET turned == Turned(Listing(p), a) IN
         /\ ~Delayed(p, a) => turned = <<Item(p[a].t, a, p[a].j, <<>>, <<>>)>>
         /\ p[a].t \in Likely => turned =
              <<Item(p[a].t, a, p[a].j, <<SlotItem(p, a), CloseItem(p, a)>>, <<>>)>>
         /\ p[a].t \in BranchTypes \ Likely /\ p[a + 1].t \in Modifies => turned =
              <<Item(p[a].t, a, p[a].j, <<SlotItem(p, a), CloseItem(p, a)>>, <<SlotItem(p, a)>>)>>
         /\ p[a].t \in BranchTypes \ Likely /\ p[a + 1].t \notin Modifies => turned =
              <<FirstItem(p, a), SecondItem(p, a, <<CloseItem(p, a)>>)>>
         /\ p[a].t \in {"J", "JALR", "JR"} => turned = <<FirstItem(p, a), SecondItem(p, a, <<>>)>>
  <1> DEFINE x == Listing(p)[a]
             slot == Listing(p)[a + 1]
  <1>1. a \in 1 .. Size /\ a + 1 \in 1 .. Size
    BY HeadFacts DEF Heads
  <1>2. /\ x = Item(p[a].t, a, p[a].j, <<>>, <<>>)
        /\ HasDelaySlot(x) <=> Delayed(p, a)
    BY <1>1, ListingIs
  <1>3. slot = SlotItem(p, a)
    BY <1>1, ListingIs DEF SlotItem
  <1> HIDE DEF x, slot
  <1>4. x.eType = p[a].t /\ x.uJumpAddress = p[a].j /\ x.uAddress = a
    BY <1>2 DEF Item
  <1>5. slot.eType = p[a + 1].t /\ slot.uAddress = a + 1
    BY <1>3 DEF SlotItem, Item
  <1>6. encodeAbsoluteJump(x.uJumpAddress) = CloseItem(p, a)
    BY <1>4 DEF encodeAbsoluteJump, CloseItem, Instr, Item
  <1>7. [slot EXCEPT !.uAddress = x.uAddress] = FirstItem(p, a)
    <2>1. ASSUME NEW v PROVE [slot EXCEPT !.uAddress = v] = Item(p[a + 1].t, v, p[a + 1].j, <<>>, <<>>)
      BY <1>3, ItemAddress DEF SlotItem
    <2> QED
      BY <1>4, <2>1 DEF FirstItem
  <1>8. [x EXCEPT !.uAddress = slot.uAddress] = SecondItem(p, a, <<>>)
    <2>1. ASSUME NEW v PROVE [x EXCEPT !.uAddress = v] = Item(p[a].t, v, p[a].j, <<>>, <<>>)
      BY <1>2, ItemAddress
    <2> QED
      BY <1>5, <2>1 DEF SecondItem
  <1>9. ASSUME NEW y, y = SecondItem(p, a, <<>>), NEW q
        PROVE  [y EXCEPT !.collIfBranch = q] = SecondItem(p, a, q)
    BY <1>9, ItemIf DEF SecondItem
  <1>10a. ASSUME NEW q PROVE [x EXCEPT !.collIfBranch = q] = Item(p[a].t, a, p[a].j, q, <<>>)
    BY <1>2, ItemIf
  <1>10b. ASSUME NEW q, NEW z
          PROVE  [x EXCEPT !.collIfBranch = q, !.collElseBranch = z] = Item(p[a].t, a, p[a].j, q, z)
    <2> DEFINE y == [x EXCEPT !.collIfBranch = q]
    <2>1. y = Item(p[a].t, a, p[a].j, q, <<>>)
      BY <1>10a
    <2>2. [y EXCEPT !.collElseBranch = z] = Item(p[a].t, a, p[a].j, q, z)
      <3> HIDE DEF y
      <3> QED
        BY <2>1, ItemElse
    <2> QED
      BY <2>2
  <1>11. p[a].t \in BranchTypes \cup {"J", "JALR", "JR"} <=> Delayed(p, a)
    BY DEF Delayed
  <1>12. Likely \subseteq BranchTypes /\ BranchTypes \cap {"J", "JALR", "JR"} = {}
    BY DEF Likely, BranchTypes
  <1> DEFINE turned == Turned(Listing(p), a)
  <1>13. turned =
           CASE ~HasDelaySlot(x) -> <<x>>
             [] x.eType \in Likely ->
                  <<[x EXCEPT !.collIfBranch = <<slot, encodeAbsoluteJump(x.uJumpAddress)>>]>>
             [] x.eType \in BranchTypes \ Likely /\ delaySlotClash(slot) ->
                  <<[x EXCEPT !.collIfBranch = <<slot, encodeAbsoluteJump(x.uJumpAddress)>>,
                              !.collElseBranch = <<slot>>]>>
             [] x.eType \in BranchTypes \ Likely /\ ~delaySlotClash(slot) ->
                  <<[slot EXCEPT !.uAddress = x.uAddress],
                    [[x EXCEPT !.uAddress = slot.uAddress] EXCEPT
                       !.collIfBranch = <<encodeAbsoluteJump(x.uJumpAddress)>>]>>
             [] x.eType \in {"J", "JALR", "JR"} ->
                  <<[slot EXCEPT !.uAddress = x.uAddress], [x EXCEPT !.uAddress = slot.uAddress]>>
    BY DEF Turned, x, slot
  <1> HIDE DEF turned
  <1>14. delaySlotClash(slot) <=> p[a + 1].t \in Modifies
    BY <1>5 DEF delaySlotClash
  <1>15. ~Delayed(p, a) => turned = <<Item(p[a].t, a, p[a].j, <<>>, <<>>)>>
    BY <1>2, <1>4, <1>11, <1>12, <1>13
  <1>16. p[a].t \in Likely => turned =
           <<Item(p[a].t, a, p[a].j, <<SlotItem(p, a), CloseItem(p, a)>>, <<>>)>>
    BY <1>2, <1>3, <1>4, <1>6, <1>10a, <1>11, <1>12, <1>13, SMTT(30)
  <1>17. p[a].t \in BranchTypes \ Likely /\ p[a + 1].t \in Modifies => turned =
           <<Item(p[a].t, a, p[a].j, <<SlotItem(p, a), CloseItem(p, a)>>, <<SlotItem(p, a)>>)>>
    BY <1>2, <1>3, <1>4, <1>6, <1>10b, <1>11, <1>12, <1>13, <1>14, ZenonT(60)
  <1>18. p[a].t \in BranchTypes \ Likely /\ p[a + 1].t \notin Modifies => turned =
           <<FirstItem(p, a), SecondItem(p, a, <<CloseItem(p, a)>>)>>
    <2> DEFINE z == [[x EXCEPT !.uAddress = slot.uAddress] EXCEPT
                       !.collIfBranch = <<encodeAbsoluteJump(x.uJumpAddress)>>]
    <2>1. z = SecondItem(p, a, <<CloseItem(p, a)>>)
      BY <1>6, <1>8, <1>9
    <2>2. p[a].t \in BranchTypes \ Likely /\ p[a + 1].t \notin Modifies => turned = <<FirstItem(p, a), z>>
      BY <1>2, <1>4, <1>7, <1>11, <1>12, <1>13, <1>14
    <2> HIDE DEF z
    <2> QED
      BY <2>1, <2>2
  <1>19. p[a].t \in {"J", "JALR", "JR"} => turned = <<FirstItem(p, a), SecondItem(p, a, <<>>)>>
    BY <1>2, <1>4, <1>7, <1>8, <1>11, <1>12, <1>13
  <1> QED
    BY <1>15, <1>16, <1>17, <1>18, <1>19 DEF turned
FromBody(l, f, i) ==
  IF i > Len(l) THEN <<>>
  ELSE Turned(l, i) \o f[IF HasDelaySlot(l[i]) THEN i + 2 ELSE i + 1]

FromTo(l, m) == \E f : f = [i \in m .. (Len(l) + 2) |-> FromBody(l, f, i)]

LEMMA FromToNext ==
  ASSUME NEW l, Len(l) \in Nat, NEW m \in 1 .. (Len(l) + 1), FromTo(l, m + 1)
  PROVE  FromTo(l, m)
  <1>1. PICK f : f = [i \in (m + 1) .. (Len(l) + 2) |-> FromBody(l, f, i)]
    BY DEF FromTo
  <1> DEFINE g == [i \in m .. (Len(l) + 2) |-> IF i = m THEN FromBody(l, f, m) ELSE f[i]]
  <1>2. ASSUME NEW i \in m .. (Len(l) + 2) PROVE g[i] = FromBody(l, g, i)
    <2> DEFINE n == IF HasDelaySlot(l[i]) THEN i + 2 ELSE i + 1
    <2>1. g[i] = FromBody(l, f, i)
      <3>1. CASE i = m
        BY <3>1
      <3>2. CASE i # m
        <4>1. i \in (m + 1) .. (Len(l) + 2)
          BY <3>2
        <4>2. f[i] = FromBody(l, f, i)
          BY <1>1, <4>1
        <4> QED
          BY <3>2, <4>2
      <3> QED
        BY <3>1, <3>2
    <2>2. CASE i > Len(l)
      <3> HIDE DEF g
      <3> QED
        BY <2>1, <2>2 DEF FromBody
    <2>3. CASE ~(i > Len(l))
      <3>1. n \in m .. (Len(l) + 2) /\ n # m
        BY <2>3
      <3>2. g[n] = f[n]
        <4> HIDE DEF n
        <4> QED
          BY <3>1
      <3> HIDE DEF g
      <3>3. FromBody(l, f, i) = Turned(l, i) \o f[n] /\ FromBody(l, g, i) = Turned(l, i) \o g[n]
        BY <2>3 DEF FromBody
      <3> HIDE DEF n
      <3> QED
        BY <2>1, <3>2, <3>3
    <2> QED
      BY <2>2, <2>3
  <1>3. g = [i \in m .. (Len(l) + 2) |-> g[i]]
    OBVIOUS
  <1> HIDE DEF g
  <1>4. g = [i \in m .. (Len(l) + 2) |-> FromBody(l, g, i)]
    BY <1>2, <1>3
  <1> QED
    BY <1>4 DEF FromTo

LEMMA FromExists ==
  ASSUME NEW l, Len(l) \in Nat
  PROVE  FromTo(l, 1)
  <1> DEFINE n == Len(l) + 1
             T == {k \in 0 .. n : FromTo(l, (n + 1) - k)}
  <1>0. n \in Nat
    OBVIOUS
  <1>1. 0 \in T
    <2> DEFINE f == [i \in (n + 1) .. (n + 1) |-> <<>>]
    <2>1. f = [i \in (n + 1) .. (Len(l) + 2) |-> FromBody(l, f, i)]
      <3>1. n + 1 = Len(l) + 2
        OBVIOUS
      <3>2. \A i \in (n + 1) .. (n + 1) : i > Len(l)
        BY <3>1
      <3>3. \A g : \A i \in (n + 1) .. (n + 1) : FromBody(l, g, i) = <<>>
        BY <3>2 DEF FromBody
      <3> HIDE DEF n
      <3> QED
        BY <3>1, <3>3
    <2>2. FromTo(l, n + 1)
      BY <2>1 DEF FromTo
    <2>3. (n + 1) - 0 = n + 1
      OBVIOUS
    <2> HIDE DEF n
    <2> QED
      BY <1>0, <2>2, <2>3
  <1>2. ASSUME NEW k \in 0 .. (n - 1), k \in T PROVE k + 1 \in T
    <2> DEFINE m == (n + 1) - (k + 1)
    <2>1. m \in 1 .. (Len(l) + 1) /\ m + 1 = (n + 1) - k /\ k + 1 \in 0 .. n
      OBVIOUS
    <2>2. FromTo(l, m + 1)
      BY <1>2, <2>1
    <2>3. FromTo(l, m)
      <3> HIDE DEF m, n
      <3> QED
        BY <2>1, <2>2, FromToNext
    <2> QED
      BY <2>1, <2>3
  <1>3. 0 .. n \subseteq T
    <2> HIDE DEF T, n
    <2> QED
      BY <1>0, <1>1, <1>2, UpTo
  <1>4. n \in T /\ (n + 1) - n = 1
    <2> HIDE DEF T, n
    <2> QED
      BY <1>0, <1>3
  <1> QED
    BY <1>4

Rest(p) == CHOOSE f : f = [i \in 1 .. (Len(Listing(p)) + 2) |-> FromBody(Listing(p), f, i)]

NextHead(p, a) == IF Delayed(p, a) THEN a + 2 ELSE a + 1

LEMMA RestIs ==
  ASSUME "BGEZ" \notin Branches, NEW p, WellFormed(p)
  PROVE  /\ Resolved(Listing(p)) = Rest(p)[1]
         /\ \A a \in 1 .. Size : Rest(p)[a] = Turned(Listing(p), a) \o Rest(p)[NextHead(p, a)]
         /\ Rest(p)[Size + 1] = <<>> /\ Rest(p)[Size + 2] = <<>>
  <1> DEFINE l == Listing(p)
             f == Rest(p)
             Is(g) == g = [i \in 1 .. (Len(l) + 2) |-> FromBody(l, g, i)]
  <1>1. Len(l) = Size /\ Size \in Nat /\ \A a \in 1 .. Size : HasDelaySlot(l[a]) <=> Delayed(p, a)
    BY ListingIs
  <1>2. \E g : Is(g)
    <2> HIDE DEF l
    <2>1. FromTo(l, 1)
      BY <1>1, FromExists
    <2> QED
      BY <2>1 DEF FromTo
  <1>3. Resolved(l) = f[1]
    BY DEF Resolved, Rest, FromBody
  <1>4. f = CHOOSE g : Is(g)
    BY DEF Rest
  <1>5. Is(f)
    <2> HIDE DEF Is, f
    <2> QED
      BY <1>2, <1>4
  <1> HIDE DEF l, f
  <1>6. ASSUME NEW a \in 1 .. (Size + 2) PROVE f[a] = FromBody(l, f, a)
    BY <1>1, <1>5
  <1>7. f[Size + 1] = <<>> /\ f[Size + 2] = <<>>
    <2>1. Size + 1 \in 1 .. (Size + 2) /\ Size + 2 \in 1 .. (Size + 2) /\ Size + 1 > Size /\ Size + 2 > Size
      BY <1>1
    <2> QED
      BY <1>1, <1>6, <2>1 DEF FromBody
  <1>8. ASSUME NEW a \in 1 .. Size PROVE f[a] = Turned(l, a) \o f[NextHead(p, a)]
    <2>1. a \in 1 .. (Size + 2) /\ ~(a > Size)
      BY <1>1
    <2>2. f[a] = Turned(l, a) \o f[IF HasDelaySlot(l[a]) THEN a + 2 ELSE a + 1]
      BY <1>1, <1>6, <2>1 DEF FromBody
    <2>3. (IF HasDelaySlot(l[a]) THEN a + 2 ELSE a + 1) = NextHead(p, a)
      BY <1>1 DEF NextHead
    <2> QED
      BY <2>2, <2>3
  <1> QED
    BY <1>3, <1>7, <1>8 DEF l, f
-----------------------------------------------------------------------------
(***************************************************************************)
(* What the resolved list consists of: in the branches only slots and      *)
(* closing jumps, on the top level ascending addresses, every instruction  *)
(* that is no slot once, and every jump to such an instruction.            *)
(***************************************************************************)
AllTypes == PlainTypes \cup BranchTypes \cup {"J", "JALR", "JR"}

ArmItems(p) ==
  {x \in [eType : AllTypes, uAddress : Int, uJumpAddress : Int, bDelayedDelete : BOOLEAN,
          collIfBranch : {<<>>}, collElseBranch : {<<>>}] :
     /\ x.uAddress \notin Heads(p) /\ x.eType \notin BranchTypes
     /\ x.eType = "J" => x.uJumpAddress \in Heads(p)}

\* A branch knows its target, and has something to do when it is taken.
Closed(p, x) == x.eType \in BranchTypes => x.uJumpAddress \in Heads(p) /\ x.collIfBranch # <<>>

TreeItems(p) ==
  {x \in [eType : AllTypes, uAddress : Int, uJumpAddress : Int, bDelayedDelete : BOOLEAN,
          collIfBranch : Seq(ArmItems(p)), collElseBranch : Seq(ArmItems(p))] :
     Closed(p, x) /\ (x.eType = "J" => x.uJumpAddress \in Heads(p))}

LEMMA ArmItemTyped ==
  ASSUME NEW p, NEW t \in AllTypes, NEW a \in Int, NEW j \in Int, a \notin Heads(p),
         t \notin BranchTypes, t = "J" => j \in Heads(p)
  PROVE  Item(t, a, j, <<>>, <<>>) \in ArmItems(p)
  <1> DEFINE x == Item(t, a, j, <<>>, <<>>)
  <1>1. x \in [eType : AllTypes, uAddress : Int, uJumpAddress : Int, bDelayedDelete : BOOLEAN,
               collIfBranch : {<<>>}, collElseBranch : {<<>>}]
    BY DEF Item
  <1>2. x.eType = t /\ x.uAddress = a /\ x.uJumpAddress = j
    BY DEF Item
  <1> HIDE DEF x
  <1>3. x \in ArmItems(p)
    BY <1>1, <1>2 DEF ArmItems
  <1> QED
    BY <1>3 DEF x

LEMMA TreeItemTyped ==
  ASSUME NEW p, NEW t \in AllTypes, NEW a \in Int, NEW j \in Int,
         NEW i \in Seq(ArmItems(p)), NEW e \in Seq(ArmItems(p)), t = "J" => j \in Heads(p),
         t \in BranchTypes => j \in Heads(p) /\ i # <<>>
  PROVE  Item(t, a, j, i, e) \in TreeItems(p)
  <1> DEFINE x == Item(t, a, j, i, e)
             S == Seq(ArmItems(p))
  <1>0. i \in S /\ e \in S
    OBVIOUS
  <1> HIDE DEF S
  <1>1. x \in [eType : AllTypes, uAddress : Int, uJumpAddress : Int, bDelayedDelete : BOOLEAN,
               collIfBranch : S, collElseBranch : S]
    BY <1>0 DEF Item
  <1>2. x.eType = t /\ x.uAddress = a /\ x.uJumpAddress = j /\ x.collIfBranch = i
    BY DEF Item
  <1> HIDE DEF x
  <1>2a. Closed(p, x)
    BY <1>2 DEF Closed
  <1>3. x \in TreeItems(p)
    BY <1>1, <1>2, <1>2a DEF TreeItems, S
  <1> QED
    BY <1>3 DEF x

LEMMA PartsTyped ==
  ASSUME NEW p, WellFormed(p), NEW a \in Heads(p), Delayed(p, a)
  PROVE  /\ SlotItem(p, a) \in ArmItems(p)
         /\ FirstItem(p, a) \in TreeItems(p)
         /\ \A i \in Seq(ArmItems(p)) :
              (p[a].t \in BranchTypes => i # <<>>) => SecondItem(p, a, i) \in TreeItems(p)
         /\ p[a].t \in BranchTypes => CloseItem(p, a) \in ArmItems(p)
  <1>1. a \in 1 .. Size /\ a + 1 \in 1 .. Size /\ a \in Int /\ a + 1 \in Int /\ a + 1 \notin Heads(p)
    BY HeadFacts DEF Heads
  <1>2. p[a].t \in AllTypes /\ p[a + 1].t \in AllTypes /\ p[a].j \in Int /\ p[a + 1].j \in Int
    BY <1>1, ProgramTypes, MipsDecAssumption DEF AllTypes, PlainTypes
  <1>3. p[a + 1].t # "J" /\ p[a + 1].t \notin BranchTypes
    BY HeadFacts DEF BranchTypes, PlainTypes
  <1>4. p[a].t \in BranchTypes \cup {"J"} => p[a].j \in Heads(p)
    BY HeadFacts
  <1>5. <<>> \in Seq(ArmItems(p))
    OBVIOUS
  <1>6. "J" \in AllTypes /\ "J" \notin BranchTypes /\ NoAddress \in Int /\ NoAddress \notin Heads(p)
    BY MipsDecAssumption DEF AllTypes, PlainTypes, BranchTypes, NoAddress, Heads
  <1>7. SlotItem(p, a) \in ArmItems(p)
    BY <1>1, <1>2, <1>3, ArmItemTyped DEF SlotItem
  <1>8. FirstItem(p, a) \in TreeItems(p)
    BY <1>1, <1>2, <1>3, <1>5, TreeItemTyped DEF FirstItem
  <1>9. \A i \in Seq(ArmItems(p)) :
          (p[a].t \in BranchTypes => i # <<>>) => SecondItem(p, a, i) \in TreeItems(p)
    BY <1>1, <1>2, <1>4, <1>5, TreeItemTyped DEF SecondItem
  <1>10. p[a].t \in BranchTypes => CloseItem(p, a) \in ArmItems(p)
    BY <1>2, <1>4, <1>6, ArmItemTyped DEF CloseItem
  <1> QED
    BY <1>7, <1>8, <1>9, <1>10

LEMMA TurnedShape ==
  ASSUME "BGEZ" \notin Branches, NEW p, WellFormed(p), NEW a \in Heads(p)
  PROVE  \/ \E x \in TreeItems(p) : Turned(Listing(p), a) = <<x>> /\ x.uAddress = a
         \/ /\ Delayed(p, a)
            /\ \E x, y \in TreeItems(p) :
                 Turned(Listing(p), a) = <<x, y>> /\ x.uAddress = a /\ y.uAddress = a + 1
  <1> DEFINE turned == Turned(Listing(p), a)
             A == ArmItems(p)
  <1>1. a \in 1 .. Size /\ a \in Int
    BY HeadFacts DEF Heads
  <1>2. p[a].t \in AllTypes /\ p[a].j \in Int
    BY <1>1, ProgramTypes, MipsDecAssumption DEF AllTypes, PlainTypes
  <1>3. <<>> \in Seq(A)
    OBVIOUS
  <1>4. CASE ~Delayed(p, a)
    <2> DEFINE x == Item(p[a].t, a, p[a].j, <<>>, <<>>)
    <2>1. p[a].t # "J" /\ p[a].t \notin BranchTypes
      BY <1>4 DEF Delayed
    <2>2. x \in TreeItems(p) /\ x.uAddress = a
      <3>1. x.uAddress = a
        BY DEF Item
      <3> QED
        BY <1>1, <1>2, <1>3, <2>1, <3>1, TreeItemTyped
    <2>3. turned = <<x>>
      BY <1>4, TurnedCases
    <2> HIDE DEF x, turned
    <2>4. \E z \in TreeItems(p) : turned = <<z>> /\ z.uAddress = a
      BY <2>2, <2>3
    <2> QED
      BY <2>4 DEF turned
  <1>5. ASSUME Delayed(p, a), NEW i \in Seq(A), NEW e \in Seq(A), p[a].t \in BranchTypes, i # <<>>,
               turned = <<Item(p[a].t, a, p[a].j, i, e)>>
        PROVE  \E x \in TreeItems(p) : turned = <<x>> /\ x.uAddress = a
    <2> DEFINE x == Item(p[a].t, a, p[a].j, i, e)
    <2>1. x \in TreeItems(p) /\ x.uAddress = a
      <3>1. x.uAddress = a
        BY DEF Item
      <3> QED
        <4>1. p[a].t # "J" /\ p[a].j \in Heads(p)
          BY <1>5, HeadFacts DEF BranchTypes
        <4> QED
          BY <1>1, <1>2, <1>5, <3>1, <4>1, TreeItemTyped
    <2>2. turned = <<x>>
      BY <1>5
    <2> HIDE DEF x, turned
    <2> QED
      BY <2>1, <2>2
  <1>6. ASSUME Delayed(p, a), NEW i \in Seq(A), p[a].t \in BranchTypes => i # <<>>,
               turned = <<FirstItem(p, a), SecondItem(p, a, i)>>
        PROVE  \E x, y \in TreeItems(p) : turned = <<x, y>> /\ x.uAddress = a /\ y.uAddress = a + 1
    <2> DEFINE x == FirstItem(p, a)
               y == SecondItem(p, a, i)
    <2>1. x \in TreeItems(p) /\ y \in TreeItems(p)
      BY <1>6, PartsTyped
    <2>2. x.uAddress = a /\ y.uAddress = a + 1
      BY DEF FirstItem, SecondItem, Item
    <2>3. turned = <<x, y>>
      BY <1>6
    <2> HIDE DEF x, y, turned
    <2> QED
      BY <2>1, <2>2, <2>3
  <1>7. CASE p[a].t \in Likely
    <2>1. p[a].t \in BranchTypes /\ p[a].t # "J" /\ Delayed(p, a)
      BY <1>7 DEF Likely, BranchTypes, Delayed
    <2>2. <<SlotItem(p, a), CloseItem(p, a)>> \in Seq(A) /\ <<SlotItem(p, a), CloseItem(p, a)>> # <<>>
      BY <2>1, PartsTyped
    <2>3. turned = <<Item(p[a].t, a, p[a].j, <<SlotItem(p, a), CloseItem(p, a)>>, <<>>)>>
      BY <1>7, TurnedCases
    <2> HIDE DEF turned
    <2> QED
      BY <1>3, <1>5, <2>1, <2>2, <2>3 DEF turned
  <1>8. CASE p[a].t \in BranchTypes \ Likely /\ p[a + 1].t \in Modifies
    <2>1. p[a].t # "J" /\ Delayed(p, a)
      BY <1>8 DEF BranchTypes, Delayed
    <2>2. /\ <<SlotItem(p, a), CloseItem(p, a)>> \in Seq(A) /\ <<SlotItem(p, a)>> \in Seq(A)
          /\ <<SlotItem(p, a), CloseItem(p, a)>> # <<>>
      BY <1>8, <2>1, PartsTyped
    <2>3. turned = <<Item(p[a].t, a, p[a].j, <<SlotItem(p, a), CloseItem(p, a)>>, <<SlotItem(p, a)>>)>>
      BY <1>8, TurnedCases
    <2> HIDE DEF turned
    <2> QED
      BY <1>5, <1>8, <2>1, <2>2, <2>3 DEF turned
  <1>9. CASE p[a].t \in BranchTypes \ Likely /\ p[a + 1].t \notin Modifies
    <2>1. Delayed(p, a)
      BY <1>9 DEF Delayed
    <2>2. <<CloseItem(p, a)>> \in Seq(A) /\ <<CloseItem(p, a)>> # <<>>
      BY <1>9, <2>1, PartsTyped
    <2>3. turned = <<FirstItem(p, a), SecondItem(p, a, <<CloseItem(p, a)>>)>>
      BY <1>9, TurnedCases
    <2> HIDE DEF turned
    <2> QED
      BY <1>6, <2>1, <2>2, <2>3 DEF turned
  <1>10. CASE p[a].t \in {"J", "JALR", "JR"}
    <2>1. Delayed(p, a) /\ p[a].t \notin BranchTypes
      BY <1>10 DEF Delayed, BranchTypes
    <2>2. turned = <<FirstItem(p, a), SecondItem(p, a, <<>>)>>
      BY <1>10, TurnedCases
    <2> HIDE DEF turned
    <2> QED
      BY <1>3, <1>6, <2>1, <2>2 DEF turned
  <1> QED
    BY <1>4, <1>7, <1>8, <1>9, <1>10 DEF Delayed
LEMMA Cons2 ==
  ASSUME NEW S, NEW x \in S, NEW y \in S, NEW t \in Seq(S)
  PROVE  <<x, y>> \o t = <<x>> \o (<<y>> \o t)
  <1> DEFINE u == <<x>> \o <<y>>
             v == <<x, y>>
  <1>1. <<x>> \in Seq(S) /\ <<y>> \in Seq(S) /\ Len(<<y>>) = 1 /\ <<y>>[1] = y
    OBVIOUS
  <1>2. u \in Seq(S) /\ Len(u) = 2 /\ u[1] = x /\ u[2] = y
    <2>1. 1 \in 1 .. Len(<<y>>) /\ 1 + 1 = 2
      BY <1>1
    <2>2. u \in Seq(S) /\ Len(u) = 1 + 1 /\ u[1] = x /\ u[1 + 1] = y
      BY <1>1, <2>1, HeadTail
    <2> QED
      BY <2>2
  <1>3. v \in Seq(S) /\ Len(v) = 2 /\ v[1] = x /\ v[2] = y
    OBVIOUS
  <1>4. v = u
    <2>1. \A k \in 1 .. 2 : k = 1 \/ k = 2
      OBVIOUS
    <2> HIDE DEF u, v
    <2> QED
      BY <1>2, <1>3, <2>1
  <1>5. (<<x>> \o <<y>>) \o t = <<x>> \o (<<y>> \o t)
    BY <1>1, ConcatAssoc
  <1> QED
    BY <1>4, <1>5

Ascending(p, s, a) ==
  /\ s \in Seq(TreeItems(p))
  /\ \A k \in 1 .. Len(s) : s[k].uAddress >= a
  /\ \A k, n \in 1 .. Len(s) : k < n => s[k].uAddress < s[n].uAddress

LEMMA AscendingCons ==
  ASSUME NEW p, NEW s, NEW a \in Int, NEW b \in Int, a < b, Ascending(p, s, b),
         NEW x \in TreeItems(p), x.uAddress = a
  PROVE  Ascending(p, <<x>> \o s, a)
  <1> DEFINE u == <<x>> \o s
  <1>1. /\ u \in Seq(TreeItems(p)) /\ Len(u) = Len(s) + 1 /\ u[1] = x
        /\ \A k \in 1 .. Len(s) : u[k + 1] = s[k]
    BY HeadTail DEF Ascending
  <1>2. s \in Seq(TreeItems(p)) /\ Len(s) \in Nat
    BY DEF Ascending
  <1>3. \A k \in 1 .. Len(s) : s[k] \in TreeItems(p)
    BY <1>2
  <1>4. \A y \in TreeItems(p) : y.uAddress \in Int
    BY DEF TreeItems
  <1> HIDE DEF u
  <1>5. ASSUME NEW k \in 1 .. Len(u)
        PROVE  \/ k = 1
               \/ k - 1 \in 1 .. Len(s) /\ u[k] = s[k - 1]
    <2>1. k = 1 \/ (k - 1 \in 1 .. Len(s) /\ (k - 1) + 1 = k)
      BY <1>1, <1>2
    <2> QED
      BY <1>1, <2>1
  <1>6. ASSUME NEW k \in 1 .. Len(u) PROVE u[k].uAddress >= a
    <2>1. CASE k = 1
      BY <1>1, <2>1
    <2>2. CASE k - 1 \in 1 .. Len(s) /\ u[k] = s[k - 1]
      <3>1. s[k - 1].uAddress >= b /\ s[k - 1].uAddress \in Int
        BY <1>3, <1>4, <2>2 DEF Ascending
      <3> QED
        BY <2>2, <3>1
    <2> QED
      BY <1>5, <2>1, <2>2
  <1>7. ASSUME NEW k \in 1 .. Len(u), NEW n \in 1 .. Len(u), k < n
        PROVE  u[k].uAddress < u[n].uAddress
    <2>1. n - 1 \in 1 .. Len(s) /\ u[n] = s[n - 1]
      BY <1>5, <1>7
    <2>2. CASE k = 1
      <3>1. s[n - 1].uAddress >= b /\ s[n - 1].uAddress \in Int
        BY <1>3, <1>4, <2>1 DEF Ascending
      <3> QED
        BY <1>1, <2>1, <2>2, <3>1
    <2>3. CASE k - 1 \in 1 .. Len(s) /\ u[k] = s[k - 1]
      <3>1. k - 1 < n - 1
        BY <1>7
      <3> QED
        BY <2>1, <2>3, <3>1 DEF Ascending
    <2> QED
      BY <1>5, <2>2, <2>3
  <1>8. Ascending(p, u, a)
    BY <1>1, <1>6, <1>7 DEF Ascending
  <1> QED
    BY <1>8 DEF u

LEMMA RestAscending ==
  ASSUME "BGEZ" \notin Branches, NEW p, WellFormed(p)
  PROVE  /\ \A a \in Heads(p) \cup {Size + 1} : Ascending(p, Rest(p)[a], a)
         /\ \A a \in Heads(p) : /\ Len(Rest(p)[a]) > 0 /\ Rest(p)[a][1].uAddress = a
                                /\ NextHead(p, a) \in Heads(p) \cup {Size + 1} /\ NextHead(p, a) > a
  <1> DEFINE H == Heads(p) \cup {Size + 1}
             f == Rest(p)
  <1>0. Size \in Nat
    BY MipsDecAssumption
  <1>1. H \subseteq 1 .. (Size + 1)
    BY <1>0 DEF Heads
  <1>2. ASSUME NEW a \in Heads(p)
        PROVE  /\ NextHead(p, a) \in H /\ NextHead(p, a) > a
               /\ Delayed(p, a) => NextHead(p, a) > a + 1
    <2>1. a \in 1 .. (Size - 1)
      BY HeadFacts
    <2>2. a = Size - 1 => a + 2 = Size + 1
      BY <1>0, <2>1
    <2>3. NextHead(p, a) \in H
      BY <2>2, HeadFacts DEF NextHead
    <2> QED
      BY <1>0, <2>1, <2>3 DEF NextHead
  <1>3. ASSUME NEW a \in Heads(p), Ascending(p, f[NextHead(p, a)], NextHead(p, a))
        PROVE  Ascending(p, f[a], a) /\ Len(f[a]) > 0 /\ f[a][1].uAddress = a
    <2> DEFINE n == NextHead(p, a)
               t == f[n]
    <2>1. a \in 1 .. Size /\ a \in Int /\ n \in Int
      BY <1>0, <1>1, <1>2 DEF Heads
    <2>2. f[a] = Turned(Listing(p), a) \o t
      BY <2>1, RestIs
    <2>3. n > a /\ (Delayed(p, a) => n > a + 1) /\ Ascending(p, t, n) /\ t \in Seq(TreeItems(p))
      BY <1>2, <1>3 DEF Ascending
    <2> HIDE DEF n, f
    <2>4. ASSUME NEW x \in TreeItems(p), x.uAddress = a, NEW s, NEW b \in Int, a < b, Ascending(p, s, b),
                 f[a] = <<x>> \o s
          PROVE  Ascending(p, f[a], a) /\ Len(f[a]) > 0 /\ f[a][1].uAddress = a
      <3>1. Ascending(p, <<x>> \o s, a)
        BY <2>1, <2>4, AscendingCons
      <3>2. s \in Seq(TreeItems(p)) /\ Len(s) \in Nat
        BY <2>4 DEF Ascending
      <3>3. Len(<<x>> \o s) = Len(s) + 1 /\ (<<x>> \o s)[1] = x
        BY <3>2, HeadTail
      <3>4. Len(f[a]) = Len(s) + 1 /\ f[a][1] = x
        BY <2>4, <3>3
      <3> QED
        BY <2>4, <3>1, <3>2, <3>4
    <2>5. CASE \E x \in TreeItems(p) : Turned(Listing(p), a) = <<x>> /\ x.uAddress = a
      BY <2>1, <2>2, <2>3, <2>4, <2>5
    <2>6. CASE /\ Delayed(p, a)
               /\ \E x, y \in TreeItems(p) :
                    Turned(Listing(p), a) = <<x, y>> /\ x.uAddress = a /\ y.uAddress = a + 1
      <3>1. PICK x, y \in TreeItems(p) :
                    Turned(Listing(p), a) = <<x, y>> /\ x.uAddress = a /\ y.uAddress = a + 1
        BY <2>6
      <3> DEFINE s == <<y>> \o t
      <3>2. f[a] = <<x>> \o s
        <4>1. f[a] = <<x, y>> \o t
          BY <2>2, <3>1
        <4>2. t \in Seq(TreeItems(p))
          BY <2>3
        <4> HIDE DEF t
        <4>3. <<x, y>> \o t = <<x>> \o (<<y>> \o t)
          BY <4>2, Cons2
        <4> QED
          BY <4>1, <4>3
      <3>3. Ascending(p, s, a + 1)
        BY <2>1, <2>3, <2>6, <3>1, AscendingCons
      <3>4. a + 1 \in Int /\ a < a + 1
        BY <2>1
      <3> HIDE DEF s
      <3> QED
        BY <2>4, <3>1, <3>2, <3>3, <3>4
    <2> QED
      BY <2>5, <2>6, TurnedShape
  <1>4. Ascending(p, f[Size + 1], Size + 1)
    <2>1. f[Size + 1] = <<>>
      BY RestIs
    <2> HIDE DEF f
    <2> QED
      BY <2>1 DEF Ascending
  <1> DEFINE T == {d \in 0 .. Size : \A a \in H : a >= (Size + 1) - d => Ascending(p, f[a], a)}
  <1>5. 0 \in T
    <2>1. \A a \in H : a >= (Size + 1) - 0 => a = Size + 1
      BY <1>0, <1>1
    <2> HIDE DEF H, f
    <2> QED
      BY <1>0, <1>4, <2>1
  <1>6. ASSUME NEW d \in 0 .. (Size - 1), d \in T PROVE d + 1 \in T
    <2>1. ASSUME NEW a \in H, a >= (Size + 1) - (d + 1) PROVE Ascending(p, f[a], a)
      <3>1. CASE a = Size + 1
        BY <1>4, <3>1
      <3>2. CASE a # Size + 1
        <4>1. a \in Heads(p) /\ NextHead(p, a) \in H /\ NextHead(p, a) > a
          BY <1>2, <3>2
        <4>2. NextHead(p, a) >= (Size + 1) - d
          <5>1. a \in Int /\ NextHead(p, a) \in Int /\ d \in Int
            BY <1>1, <4>1
          <5> HIDE DEF H
          <5> QED
            BY <1>0, <2>1, <4>1, <5>1
        <4>3. Ascending(p, f[NextHead(p, a)], NextHead(p, a))
          BY <1>6, <4>1, <4>2
        <4> QED
          BY <1>3, <4>1, <4>3
      <3> QED
        BY <3>1, <3>2
    <2>2. d + 1 \in 0 .. Size
      BY <1>0
    <2> HIDE DEF H, f
    <2> QED
      BY <2>1, <2>2
  <1>7. 0 .. Size \subseteq T
    <2> HIDE DEF T
    <2> QED
      BY <1>0, <1>5, <1>6, UpTo
  <1>8. \A a \in H : Ascending(p, f[a], a)
    <2> TAKE a \in H
    <2>1. Size \in T /\ a >= (Size + 1) - Size
      <3>1. a \in 1 .. (Size + 1)
        BY <1>1
      <3> HIDE DEF T, H
      <3> QED
        BY <1>0, <1>7, <3>1
    <2> HIDE DEF H, f
    <2> QED
      BY <2>1
  <1>9. \A a \in Heads(p) : Len(f[a]) > 0 /\ f[a][1].uAddress = a
    BY <1>2, <1>3, <1>8
  <1> QED
    BY <1>2, <1>8, <1>9
-----------------------------------------------------------------------------
(***************************************************************************)
(* Where a jump goes: the one place with that address is on the top level, *)
(* and what follows it is Rest(p) of that address.                         *)
(***************************************************************************)
LEMMA SubIs ==
  ASSUME NEW S, NEW s \in Seq(S), NEW k \in 1 .. (Len(s) + 1)
  PROVE  LET t == SubSeq(s, k, Len(s)) IN
         /\ t \in Seq(S) /\ Len(t) = Len(s) - k + 1 /\ Len(t) \in Nat
         /\ \A i \in 1 .. Len(t) : t[i] = s[k + i - 1]
  <1> DEFINE t == SubSeq(s, k, Len(s))
  <1>1. t \in Seq(S) /\ Len(t) = Len(s) - k + 1
    OBVIOUS
  <1>2. \A i \in 1 .. (Len(s) - k + 1) : t[i] = s[k + i - 1]
    OBVIOUS
  <1> HIDE DEF t
  <1>3. \A i \in 1 .. Len(t) : t[i] = s[k + i - 1]
    BY <1>1, <1>2
  <1>4. Len(t) \in Nat
    BY <1>1
  <1> QED
    BY <1>1, <1>3, <1>4 DEF t

LEMMA SeqEqual ==
  ASSUME NEW S, NEW s \in Seq(S), NEW t \in Seq(S), Len(s) = Len(t), \A i \in 1 .. Len(s) : s[i] = t[i]
  PROVE  s = t
  OBVIOUS

LEMMA SubSub ==
  ASSUME NEW S, NEW s \in Seq(S), NEW k \in 1 .. (Len(s) + 1), NEW t, t = SubSeq(s, k, Len(s)),
         NEW j \in 1 .. (Len(t) + 1)
  PROVE  /\ k + j - 1 \in 1 .. (Len(s) + 1)
         /\ SubSeq(t, j, Len(t)) = SubSeq(s, k + j - 1, Len(s))
  <1> DEFINE u == SubSeq(t, j, Len(t))
             v == SubSeq(s, k + j - 1, Len(s))
  <1>0. Len(s) \in Nat
    OBVIOUS
  <1>1. t \in Seq(S) /\ Len(t) = Len(s) - k + 1 /\ Len(t) \in Nat
    BY SubIs
  <1>2. \A i \in 1 .. Len(t) : t[i] = s[k + i - 1]
    BY SubIs
  <1>3. k + j - 1 \in 1 .. (Len(s) + 1)
    BY <1>0, <1>1
  <1>4. u \in Seq(S) /\ Len(u) = Len(t) - j + 1 /\ \A i \in 1 .. Len(u) : u[i] = t[j + i - 1]
    BY <1>1, SubIs
  <1>5. /\ v \in Seq(S) /\ Len(v) = Len(s) - (k + j - 1) + 1
        /\ \A i \in 1 .. Len(v) : v[i] = s[(k + j - 1) + i - 1]
    <2> DEFINE h == k + j - 1
    <2>1. h \in 1 .. (Len(s) + 1)
      BY <1>3
    <2> HIDE DEF h
    <2>2. LET z == SubSeq(s, h, Len(s)) IN
          /\ z \in Seq(S) /\ Len(z) = Len(s) - h + 1 /\ \A i \in 1 .. Len(z) : z[i] = s[h + i - 1]
      BY <2>1, SubIs
    <2> QED
      BY <2>2 DEF h
  <1> HIDE DEF u, v
  <1>6. Len(u) = Len(v)
    BY <1>0, <1>1, <1>4, <1>5
  <1>7. ASSUME NEW i \in 1 .. Len(u) PROVE u[i] = v[i]
    <2>1. j + i - 1 \in 1 .. Len(t) /\ k + (j + i - 1) - 1 = (k + j - 1) + i - 1
      BY <1>0, <1>1, <1>4
    <2> QED
      BY <1>2, <1>4, <1>5, <1>6, <2>1
  <1>8. u = v
    BY <1>4, <1>5, <1>6, <1>7, SeqEqual
  <1> QED
    BY <1>3, <1>8 DEF u, v

LEMMA PrevHead ==
  ASSUME NEW p, WellFormed(p), NEW a \in Heads(p), a # 1
  PROVE  \E b \in Heads(p) : NextHead(p, b) = a /\ b < a
  <1>1. a \in 2 .. Size /\ ~IsSlot(p, a) /\ Size \in Nat
    BY MipsDecAssumption DEF Heads
  <1>2. ~Delayed(p, a - 1)
    BY <1>1 DEF IsSlot
  <1>3. CASE ~IsSlot(p, a - 1)
    <2>1. a - 1 \in Heads(p)
      BY <1>1, <1>3 DEF Heads
    <2>2. NextHead(p, a - 1) = a
      BY <1>1, <1>2 DEF NextHead
    <2> QED
      BY <1>1, <2>1, <2>2
  <1>4. CASE IsSlot(p, a - 1)
    <2>1. a - 1 > 1 /\ Delayed(p, a - 2)
      <3>1. (a - 1) - 1 = a - 2
        BY <1>1
      <3> QED
        BY <1>4, <3>1 DEF IsSlot
    <2>2. a - 2 \in 1 .. Size
      BY <1>1, <2>1
    <2>3. ~IsSlot(p, a - 2)
      BY <2>1, <2>2, ProgramTypes
    <2>4. a - 2 \in Heads(p)
      BY <2>2, <2>3 DEF Heads
    <2>5. NextHead(p, a - 2) = a
      BY <1>1, <2>1 DEF NextHead
    <2> QED
      BY <1>1, <2>4, <2>5
  <1> QED
    BY <1>3, <1>4

LEMMA RestSuffix ==
  ASSUME "BGEZ" \notin Branches, NEW p, WellFormed(p)
  PROVE  LET R == Rest(p)[1] IN
         \A a \in Heads(p) : \E k \in 1 .. Len(R) : Rest(p)[a] = SubSeq(R, k, Len(R)) /\ R[k].uAddress = a
  <1> DEFINE R == Rest(p)[1]
             H == Heads(p)
             f == Rest(p)
             P(a) == \E k \in 1 .. (Len(R) + 1) : f[a] = SubSeq(R, k, Len(R))
  <1>0. Size \in Nat /\ H \subseteq 1 .. Size /\ 1 \in H
    BY MipsDecAssumption, FirstHead DEF Heads
  <1>1. \A a \in H : f[a] \in Seq(TreeItems(p)) /\ Len(f[a]) > 0 /\ f[a][1].uAddress = a
    BY RestAscending DEF Ascending
  <1>2. R \in Seq(TreeItems(p)) /\ Len(R) \in Nat
    BY <1>0, <1>1
  <1>3. P(1)
    <2>1. R = SubSeq(R, 1, Len(R)) /\ 1 \in 1 .. (Len(R) + 1)
      <3> HIDE DEF R
      <3> QED
        BY <1>2
    <2> QED
      BY <2>1
  <1>4. ASSUME NEW b \in H, P(b), NextHead(p, b) \in H PROVE P(NextHead(p, b))
    <2> DEFINE n == NextHead(p, b)
               t == Turned(Listing(p), b)
    <2>1. f[b] = t \o f[n]
      BY <1>0, RestIs
    <2>2. t \in Seq(TreeItems(p)) /\ f[n] \in Seq(TreeItems(p))
      <3>1. CASE \E x \in TreeItems(p) : t = <<x>>
        BY <1>1, <1>4, <3>1
      <3>2. CASE \E x, y \in TreeItems(p) : t = <<x, y>>
        BY <1>1, <1>4, <3>2
      <3> QED
        BY <3>1, <3>2, TurnedShape
    <2> HIDE DEF n, t, f, R
    <2> DEFINE j == Len(t) + 1
    <2>3. j \in 1 .. (Len(f[b]) + 1) /\ f[n] = SubSeq(f[b], j, Len(f[b]))
      <3>1. Len(t) \in 0 .. Len(t \o f[n]) /\ f[n] = SubSeq(t \o f[n], Len(t) + 1, Len(t \o f[n]))
        BY <2>2, ConcatSub
      <3>2. Len(f[b]) \in Nat /\ Len(t) \in Nat
        BY <1>1, <2>2
      <3> QED
        BY <2>1, <3>1, <3>2
    <2>4. PICK k \in 1 .. (Len(R) + 1) : f[b] = SubSeq(R, k, Len(R))
      BY <1>4
    <2> HIDE DEF j
    <2>5. k + j - 1 \in 1 .. (Len(R) + 1) /\ SubSeq(f[b], j, Len(f[b])) = SubSeq(R, k + j - 1, Len(R))
      BY <1>2, <2>3, <2>4, SubSub
    <2> QED
      BY <2>3, <2>5 DEF n
  <1> DEFINE T == {d \in 0 .. Size : \A a \in H : a <= d => P(a)}
  <1> HIDE DEF P
  <1>5. 0 \in T
    BY <1>0
  <1>6. ASSUME NEW d \in 0 .. (Size - 1), d \in T PROVE d + 1 \in T
    <2>1. ASSUME NEW a \in H, a <= d + 1 PROVE P(a)
      <3>1. CASE a = 1
        BY <1>3, <3>1
      <3>2. CASE a # 1
        <4>1. PICK b \in H : NextHead(p, b) = a /\ b < a
          BY <3>2, PrevHead
        <4>2. b <= d
          BY <1>0, <2>1, <4>1
        <4>3. P(b)
          BY <1>6, <4>2
        <4> QED
          BY <1>4, <4>1, <4>3
      <3> QED
        BY <3>1, <3>2
    <2>2. d + 1 \in 0 .. Size
      BY <1>0
    <2> HIDE DEF H
    <2> QED
      BY <2>1, <2>2
  <1>7. 0 .. Size \subseteq T
    <2> HIDE DEF T
    <2> QED
      BY <1>0, <1>5, <1>6, UpTo
  <1>8. ASSUME NEW a \in H
        PROVE  \E k \in 1 .. Len(R) : f[a] = SubSeq(R, k, Len(R)) /\ R[k].uAddress = a
    <2>1. P(a)
      <3>1. Size \in T /\ a <= Size
        <4> HIDE DEF T, H
        <4> QED
          BY <1>0, <1>7
      <3> HIDE DEF H
      <3> QED
        BY <3>1
    <2>2. PICK k \in 1 .. (Len(R) + 1) : f[a] = SubSeq(R, k, Len(R))
      BY <2>1 DEF P
    <2>3. Len(f[a]) > 0 /\ f[a][1].uAddress = a
      BY <1>1
    <2> HIDE DEF R, f, H
    <2>4. Len(SubSeq(R, k, Len(R))) = Len(R) - k + 1
      BY <1>2
    <2>5. k \in 1 .. Len(R)
      BY <1>2, <2>2, <2>3, <2>4
    <2>6. SubSeq(R, k, Len(R))[1] = R[k]
      BY <1>2, <2>5, SMTT(30)
    <2> QED
      BY <2>2, <2>3, <2>5, <2>6
  <1> QED
    BY <1>8
LEMMA ListAtShort ==
  ASSUME NEW l, NEW path, Len(path) \in 0 .. 2
  PROVE  LET arm == l[path[1].i][path[1].b] IN
         /\ Len(path) = 0 => ListAt(l, path) = l
         /\ Len(path) = 1 => ListAt(l, path) = arm
         /\ Len(path) = 2 => ListAt(l, path) = arm[path[2].i][path[2].b]
  <1> DEFINE n == Len(path)
             X == l[path[1].i][path[1].b]
             Y == X[path[2].i][path[2].b]
             Body(f, k) == IF k = 0 THEN l ELSE f[k - 1][path[k].i][path[k].b]
             Is(f) == f = [k \in 0 .. n |-> Body(f, k)]
             at == CHOOSE f : Is(f)
             g == [k \in 0 .. n |-> IF k = 0 THEN l ELSE IF k = 1 THEN X ELSE Y]
  <1>0. n \in 0 .. 2
    OBVIOUS
  <1>1. ListAt(l, path) = at[n]
    BY DEF ListAt
  <1> HIDE DEF n
  <1>2. Is(g)
    <2>1. ASSUME NEW k \in 0 .. n PROVE g[k] = Body(g, k)
      <3>1. CASE k = 0
        BY <3>1
      <3>2. CASE k = 1
        <4>1. 0 \in 0 .. n /\ k - 1 = 0 /\ k # 0
          BY <1>0, <3>2
        <4>2. g[0] = l /\ g[1] = X
          BY <3>2, <4>1
        <4> HIDE DEF g
        <4> QED
          BY <3>2, <4>1, <4>2
      <3>3. CASE k = 2
        <4>1. 1 \in 0 .. n /\ k - 1 = 1 /\ k # 0
          BY <1>0, <3>3
        <4>2. g[1] = X /\ g[2] = Y
          BY <3>3, <4>1
        <4> HIDE DEF g, X
        <4> QED
          BY <3>3, <4>1, <4>2
      <3>4. k = 0 \/ k = 1 \/ k = 2
        BY <1>0
      <3> HIDE DEF g, Body
      <3> QED
        BY <3>1, <3>2, <3>3, <3>4
    <2>2. g = [k \in 0 .. n |-> g[k]]
      OBVIOUS
    <2> HIDE DEF g, Body
    <2> QED
      BY <2>1, <2>2
  <1>3. Is(at)
    <2> HIDE DEF Is, g
    <2> QED
      BY <1>2
  <1> HIDE DEF at
  <1>4. \A k \in 0 .. n : at[k] = Body(at, k)
    <2> HIDE DEF Body
    <2> QED
      BY <1>3
  <1>5. at[0] = l
    BY <1>0, <1>4
  <1>6. n >= 1 => at[1] = X
    <2> SUFFICES ASSUME n >= 1 PROVE at[1] = X
      OBVIOUS
    <2>1. 1 \in 0 .. n /\ 1 - 1 = 0 /\ 1 # 0
      BY <1>0
    <2>2. at[1] = at[1 - 1][path[1].i][path[1].b]
      BY <1>4, <2>1
    <2> QED
      BY <1>5, <2>1, <2>2
  <1>7. n = 2 => at[2] = Y
    <2> SUFFICES ASSUME n = 2 PROVE at[2] = Y
      OBVIOUS
    <2>1. 2 \in 0 .. n /\ 2 - 1 = 1 /\ 2 # 0
      BY <1>0
    <2>2. at[2] = at[2 - 1][path[2].i][path[2].b]
      BY <1>4, <2>1
    <2> HIDE DEF X
    <2> QED
      BY <1>6, <2>1, <2>2
  <1>8. n = 0 => ListAt(l, path) = l
    BY <1>1, <1>5
  <1>9. n = 1 => ListAt(l, path) = X
    <2> HIDE DEF X
    <2> QED
      BY <1>1, <1>6
  <1>10. n = 2 => ListAt(l, path) = Y
    <2> HIDE DEF Y
    <2> QED
      BY <1>1, <1>7
  <1> QED
    BY <1>8, <1>9, <1>10 DEF n

Shallow(l) == {<<>>} \cup {<<[i |-> i, b |-> b]>> : i \in 1 .. Len(l), b \in Arms}

\* In a resolved list, no branch has branches.
LEMMA PathsShallow ==
  ASSUME NEW p, NEW l \in Seq(TreeItems(p))
  PROVE  /\ <<>> \in Paths(l) /\ Paths(l) \subseteq Shallow(l)
         /\ ListAt(l, <<>>) = l
         /\ \A i \in 1 .. Len(l), b \in Arms :
              ListAt(l, <<[i |-> i, b |-> b]>>) = l[i][b] /\ l[i][b] \in Seq(ArmItems(p))
  <1>1. ListAt(l, <<>>) = l
    <2> DEFINE q == <<>>
    <2>1. Len(q) = 0
      OBVIOUS
    <2> HIDE DEF q
    <2>2. ListAt(l, q) = l
      BY <2>1, ListAtShort
    <2> QED
      BY <2>2 DEF q
  <1>2. ASSUME NEW x \in TreeItems(p), NEW b \in Arms PROVE x[b] \in Seq(ArmItems(p))
    <2>1. b = "collIfBranch" \/ b = "collElseBranch"
      BY DEF Arms
    <2> DEFINE S == Seq(ArmItems(p))
    <2>2. x.collIfBranch \in S /\ x.collElseBranch \in S
      BY DEF TreeItems
    <2> HIDE DEF S
    <2>3. x[b] \in S
      BY <2>1, <2>2
    <2> QED
      BY <2>3 DEF S
  <1>3. ASSUME NEW i \in 1 .. Len(l), NEW b \in Arms
        PROVE  ListAt(l, <<[i |-> i, b |-> b]>>) = l[i][b] /\ l[i][b] \in Seq(ArmItems(p))
    <2> DEFINE q == <<[i |-> i, b |-> b]>>
    <2>1. Len(q) = 1 /\ q[1].i = i /\ q[1].b = b
      OBVIOUS
    <2> HIDE DEF q
    <2>2. ListAt(l, q) = l[i][b]
      BY <2>1, ListAtShort
    <2>3. l[i] \in TreeItems(p)
      OBVIOUS
    <2> QED
      BY <1>2, <2>2, <2>3 DEF q
  <1>4. ASSUME NEW x \in ArmItems(p), NEW b \in Arms PROVE x[b] = <<>>
    BY DEF ArmItems, Arms
  <1> DEFINE arms(here) == {s \in [i : DOMAIN here, b : Arms] : here[s.i][s.b] # <<>>}
             below(q) == {Append(q, s) : s \in arms(ListAt(l, q))}
             Next1(d, X) == X \cup UNION {below(h) : h \in {h \in X : Len(h) = d - 1}}
             S == {X \in SUBSET Shallow(l) : <<>> \in X}
  <1>5. ASSUME NEW X \in S, NEW h \in X, NEW q \in below(h)
        PROVE  q \in Shallow(l)
    <2>1. PICK s \in [i : DOMAIN ListAt(l, h), b : Arms] :
            ListAt(l, h)[s.i][s.b] # <<>> /\ q = Append(h, s)
      OBVIOUS
    <2>2. h \in Shallow(l)
      OBVIOUS
    <2>3. CASE h = <<>>
      <3>1. s.i \in 1 .. Len(l) /\ s.b \in Arms /\ s = [i |-> s.i, b |-> s.b]
        BY <1>1, <2>1, <2>3
      <3>2. q = <<[i |-> s.i, b |-> s.b]>>
        BY <2>1, <2>3, <3>1
      <3> QED
        BY <3>1, <3>2 DEF Shallow
    <2>4. CASE h # <<>>
      <3>1. PICK j \in 1 .. Len(l), a \in Arms : h = <<[i |-> j, b |-> a]>>
        BY <2>2, <2>4 DEF Shallow
      <3>2. ListAt(l, h) = l[j][a] /\ l[j][a] \in Seq(ArmItems(p))
        BY <1>3, <3>1
      <3>3. l[j][a][s.i] \in ArmItems(p) /\ s.b \in Arms
        BY <2>1, <3>2
      <3> QED
        BY <1>4, <2>1, <3>2, <3>3
    <2> QED
      BY <2>3, <2>4
  <1>6. ASSUME NEW d \in 1 .. Nesting, NEW X \in S PROVE Next1(d, X) \in S
    <2>1. ASSUME NEW q \in Next1(d, X) PROVE q \in Shallow(l)
      <3>1. CASE q \in X
        BY <3>1
      <3>2. CASE q \notin X
        <4> HIDE DEF below, S
        <4>1. PICK h \in X : q \in below(h)
          BY <2>1, <3>2
        <4> QED
          BY <1>5, <4>1
      <3> QED
        BY <3>1, <3>2
    <2>2. <<>> \in Next1(d, X)
      OBVIOUS
    <2> HIDE DEF Next1
    <2> QED
      BY <2>1, <2>2
  <1> DEFINE a == {<<>>}
             F == [d \in 1 .. Nesting |-> [X \in S |-> Next1(d, X)]]
             Is(f) == f = [d \in 0 .. Nesting |-> IF d = 0 THEN a ELSE Next1(d, f[d - 1])]
             down == CHOOSE f : Is(f)
  <1>7. Nesting \in Nat
    BY MipsDecAssumption DEF Nesting
  <1>8. a \in S
    BY DEF Shallow
  <1>9. Paths(l) = down[Nesting]
    BY DEF Paths
  <1> HIDE DEF Next1, S, a
  <1>10. F \in [1 .. Nesting -> [S -> S]]
    BY <1>6
  <1>11. \E g : Iterates(g, Nesting, S, a, F)
    <2> HIDE DEF F
    <2> QED
      BY <1>7, <1>8, <1>10, Iterated
  <1>11a. PICK g \in [0 .. Nesting -> S] : g[0] = a /\ \A d \in 1 .. Nesting : g[d] = F[d][g[d - 1]]
    <2> HIDE DEF F
    <2> QED
      BY <1>11 DEF Iterates
  <1>12. Is(g)
    <2>1. ASSUME NEW d \in 0 .. Nesting PROVE g[d] = IF d = 0 THEN a ELSE Next1(d, g[d - 1])
      <3>1. CASE d = 0
        BY <1>11a, <3>1
      <3>2. CASE d # 0
        <4>1. d \in 1 .. Nesting /\ d - 1 \in 0 .. Nesting /\ g[d - 1] \in S
          BY <1>7, <3>2
        <4>2. F[d][g[d - 1]] = Next1(d, g[d - 1])
          BY <4>1
        <4> HIDE DEF F
        <4> QED
          BY <1>11a, <3>2, <4>1, <4>2
      <3> QED
        BY <3>1, <3>2
    <2> HIDE DEF F
    <2> QED
      BY <2>1
  <1>13. Is(down)
    <2> HIDE DEF Is
    <2> QED
      BY <1>12
  <1> HIDE DEF down, F
  <1>14. down[0] = a /\ \A d \in 1 .. Nesting : down[d] = Next1(d, down[d - 1])
    <2>1. \A d \in 0 .. Nesting : down[d] = IF d = 0 THEN a ELSE Next1(d, down[d - 1])
      BY <1>13
    <2>2. 0 \in 0 .. Nesting /\ \A d \in 1 .. Nesting : d \in 0 .. Nesting /\ d # 0
      BY <1>7
    <2> QED
      BY <2>1, <2>2
  <1>15. down[Nesting] \in S
    <2> DEFINE T == {d \in 0 .. Nesting : down[d] \in S}
    <2>1. 0 \in T
      BY <1>7, <1>8, <1>14
    <2>2. ASSUME NEW d \in 0 .. (Nesting - 1), d \in T PROVE d + 1 \in T
      <3>1. d + 1 \in 1 .. Nesting /\ (d + 1) - 1 = d /\ d + 1 \in 0 .. Nesting
        BY <1>7
      <3> QED
        BY <1>6, <1>14, <2>2, <3>1
    <2>3. 0 .. Nesting \subseteq T
      <3> HIDE DEF T
      <3> QED
        BY <1>7, <2>1, <2>2, UpTo
    <2> QED
      BY <1>7, <2>3
  <1> QED
    BY <1>1, <1>3, <1>9, <1>15 DEF S
LEMMA PositionIs ==
  ASSUME NEW l
  PROVE  /\ \A pos \in Positions(l) :
              \E q \in Paths(l) : \E i \in 1 .. Len(ListAt(l, q)) : pos = [path |-> q, i |-> i]
         /\ \A q \in Paths(l) : \A i \in 1 .. Len(ListAt(l, q)) : [path |-> q, i |-> i] \in Positions(l)
  <1> DEFINE Pos(q, i) == [path |-> q, i |-> i]
             in(q) == {Pos(q, i) : i \in 1 .. Len(ListAt(l, q))}
  <1>1. Positions(l) = UNION {in(q) : q \in Paths(l)}
    BY DEF Positions
  <1> HIDE DEF Pos
  <1>2. ASSUME NEW pos \in Positions(l)
        PROVE  \E q \in Paths(l) : \E i \in 1 .. Len(ListAt(l, q)) : pos = Pos(q, i)
    <2>1. \E q \in Paths(l) : pos \in in(q)
      <3> HIDE DEF in
      <3> QED
        BY <1>1
    <2> QED
      BY <2>1
  <1>3. ASSUME NEW q \in Paths(l), NEW i \in 1 .. Len(ListAt(l, q)) PROVE Pos(q, i) \in Positions(l)
    <2>1. Pos(q, i) \in in(q)
      OBVIOUS
    <2> HIDE DEF in
    <2> QED
      BY <1>1, <2>1
  <1> QED
    BY <1>2, <1>3 DEF Pos

\* The places of a resolved list: on the top level, or in a branch there.
LEMMA PlacesShallow ==
  ASSUME NEW p, NEW l \in Seq(TreeItems(p)), NEW pos \in Positions(l)
  PROVE  \/ \E k \in 1 .. Len(l) : pos = [path |-> <<>>, i |-> k] /\ At(l, pos) = l[k]
         \/ At(l, pos) \in ArmItems(p)
  <1>1. PICK q \in Paths(l) : \E i \in 1 .. Len(ListAt(l, q)) : pos = [path |-> q, i |-> i]
    BY PositionIs
  <1>2. PICK i \in 1 .. Len(ListAt(l, q)) : pos = [path |-> q, i |-> i]
    BY <1>1
  <1>3. pos.path = q /\ pos.i = i
    BY <1>2
  <1>4. At(l, pos) = ListAt(l, q)[i]
    BY <1>3 DEF At
  <1>5. CASE q = <<>>
    <2>1. ListAt(l, q) = l
      BY <1>5, PathsShallow
    <2> QED
      BY <1>2, <1>4, <1>5, <2>1
  <1>6. CASE q # <<>>
    <2>1. q \in Shallow(l)
      BY PathsShallow
    <2> DEFINE P(j, b) == <<[i |-> j, b |-> b]>>
    <2>2. \E j \in 1 .. Len(l), b \in Arms : q = P(j, b)
      <3>1. q \in {P(j, b) : j \in 1 .. Len(l), b \in Arms}
        BY <1>6, <2>1 DEF Shallow
      <3> HIDE DEF P
      <3> QED
        BY <3>1
    <2>3. PICK j \in 1 .. Len(l), b \in Arms : q = <<[i |-> j, b |-> b]>>
      BY <2>2
    <2>4. ListAt(l, q) = l[j][b] /\ l[j][b] \in Seq(ArmItems(p))
      BY <2>3, PathsShallow
    <2>5. ListAt(l, q) \in Seq(ArmItems(p))
      BY <2>4
    <2> DEFINE s == ListAt(l, q)
    <2>6. s \in Seq(ArmItems(p)) /\ i \in 1 .. Len(s)
      BY <2>5
    <2> HIDE DEF s
    <2>7. s[i] \in ArmItems(p)
      BY <2>6
    <2> QED
      BY <1>4, <2>7 DEF s
  <1> QED
    BY <1>5, <1>6

LEMMA TopPlace ==
  ASSUME NEW p, NEW l \in Seq(TreeItems(p)), NEW k \in 1 .. Len(l)
  PROVE  [path |-> <<>>, i |-> k] \in Positions(l) /\ At(l, [path |-> <<>>, i |-> k]) = l[k]
  <1> DEFINE q == <<>>
  <1>1. q \in Paths(l) /\ ListAt(l, q) = l
    BY PathsShallow
  <1> HIDE DEF q
  <1>2. [path |-> q, i |-> k] \in Positions(l)
    BY <1>1, PositionIs
  <1>3. At(l, [path |-> q, i |-> k]) = l[k]
    BY <1>1 DEF At
  <1> QED
    BY <1>2, <1>3 DEF q

LEMMA LabelsOfHead ==
  ASSUME "BGEZ" \notin Branches, NEW p, WellFormed(p), NEW a \in Heads(p)
  PROVE  LET R == Rest(p)[1] IN
         \E k \in 1 .. Len(R) : /\ Labels(R, a) = {[path |-> <<>>, i |-> k]}
                                /\ Rest(p)[a] = SubSeq(R, k, Len(R))
  <1> DEFINE R == Rest(p)[1]
  <1>1. Ascending(p, R, 1)
    BY FirstHead, RestAscending
  <1>2. PICK k \in 1 .. Len(R) : Rest(p)[a] = SubSeq(R, k, Len(R)) /\ R[k].uAddress = a
    BY RestSuffix
  <1> HIDE DEF R
  <1>3. R \in Seq(TreeItems(p)) /\ Len(R) \in Nat
    BY <1>1 DEF Ascending
  <1> DEFINE here == [path |-> <<>>, i |-> k]
  <1>4. here \in Labels(R, a)
    <2>1. here \in Positions(R) /\ At(R, here) = R[k]
      BY <1>3, TopPlace
    <2> HIDE DEF here
    <2> QED
      BY <1>2, <2>1 DEF Labels
  <1>5. ASSUME NEW pos \in Labels(R, a) PROVE pos = here
    <2>1. pos \in Positions(R) /\ At(R, pos).uAddress = a
      BY DEF Labels
    <2>2. CASE \E n \in 1 .. Len(R) : pos = [path |-> <<>>, i |-> n] /\ At(R, pos) = R[n]
      <3>1. PICK n \in 1 .. Len(R) : pos = [path |-> <<>>, i |-> n] /\ At(R, pos) = R[n]
        BY <2>2
      <3>2. R[n].uAddress = a /\ R[k].uAddress = a /\ a \in Int
        BY <1>2, <2>1, <3>1 DEF Heads
      <3>3. ~(k < n) /\ ~(n < k)
        BY <1>1, <3>2 DEF Ascending
      <3>4. k = n
        BY <1>3, <3>3
      <3> QED
        BY <3>1, <3>4
    <2>3. CASE At(R, pos) \in ArmItems(p)
      <3>1. At(R, pos).uAddress \notin Heads(p)
        BY <2>3 DEF ArmItems
      <3> QED
        BY <2>1, <3>1
    <2> QED
      BY <1>3, <2>1, <2>2, <2>3, PlacesShallow
  <1>6. Labels(R, a) = {here}
    <2> HIDE DEF here
    <2> QED
      BY <1>4, <1>5
  <1> QED
    BY <1>2, <1>6 DEF R

LEMMA FollowingTop ==
  ASSUME NEW p, NEW l \in Seq(TreeItems(p)), NEW k \in 1 .. Len(l)
  PROVE  Following(l, [path |-> <<>>, i |-> k]) = SubSeq(l, k, Len(l))
  <1> DEFINE pos == [path |-> <<>>, i |-> k]
             n == Len(pos.path)
             here(h) == ListAt(l, SubSeq(pos.path, 1, h))
             Body(f, h) == SubSeq(here(h), IF h = n THEN pos.i ELSE pos.path[h + 1].i + 1, Len(here(h)))
                           \o (IF h = 0 THEN <<>> ELSE f[h - 1])
             Is(f) == f = [h \in 0 .. n |-> Body(f, h)]
             after == CHOOSE f : Is(f)
             t == SubSeq(l, k, Len(l))
  <1>1. Following(l, pos) = after[n]
    BY DEF Following
  <1>2. n = 0 /\ pos.i = k
    OBVIOUS
  <1>3. here(0) = l
    <2>1. SubSeq(pos.path, 1, 0) = <<>>
      OBVIOUS
    <2> QED
      BY <2>1, PathsShallow
  <1>4. t \in Seq(TreeItems(p)) /\ t \o <<>> = t
    <2>1. t \in Seq(TreeItems(p))
      <3>1. k \in 1 .. (Len(l) + 1)
        OBVIOUS
      <3> QED
        BY <3>1, SubIs
    <2> HIDE DEF t
    <2> QED
      BY <2>1
  <1> HIDE DEF here
  <1>5. \A f : Body(f, 0) = t
    BY <1>2, <1>3, <1>4
  <1> HIDE DEF Body, n, t, pos
  <1> DEFINE g == [h \in 0 .. n |-> t]
  <1>6. Is(g)
    BY <1>2, <1>5
  <1>7. Is(after)
    <2> HIDE DEF Is, g
    <2> QED
      BY <1>6
  <1> HIDE DEF after
  <1>8. after[0] = t
    BY <1>2, <1>5, <1>7
  <1> QED
    BY <1>1, <1>2, <1>8 DEF pos, t
-----------------------------------------------------------------------------
(***************************************************************************)
(* What the generated code does while the processor does one step: it goes *)
(* through one, two or three configurations, depending on where            *)
(* resolveDelaySlots has put the slot.                                     *)
(***************************************************************************)
TreeConfig(code, r, seen, over) == [code |-> code, r |-> r, seen |-> seen, over |-> over]

LEMMA TreeConfigCode ==
  ASSUME NEW w, NEW r, NEW s, NEW o, NEW c, c = TreeConfig(w, r, s, o), NEW v
  PROVE  [c EXCEPT !.code = v] = TreeConfig(v, r, s, o)
  BY DEF TreeConfig

LEMMA TreeConfigSeen ==
  ASSUME NEW w, NEW r, NEW s, NEW o, NEW c, c = TreeConfig(w, r, s, o), NEW v
  PROVE  [c EXCEPT !.seen = v] = TreeConfig(w, r, v, o)
  BY DEF TreeConfig

LEMMA TreeConfigOver ==
  ASSUME NEW w, NEW r, NEW s, NEW o, NEW c, c = TreeConfig(w, r, s, o), NEW v
  PROVE  [c EXCEPT !.over = v] = TreeConfig(w, r, s, v)
  BY DEF TreeConfig

Going(code, r, seen) == TreeConfig(code, r, seen, FALSE)

Splits(x, rest) == Cons(x, rest) # <<>> /\ Head(Cons(x, rest)) = x /\ Tail(Cons(x, rest)) = rest

LEMMA ConsPair ==
  ASSUME NEW S, NEW x \in S, NEW y \in S, NEW t \in Seq(S)
  PROVE  <<x, y>> \o t = Cons(x, Cons(y, t))
  <1>1. <<x, y>> \o t = <<x>> \o (<<y>> \o t)
    BY Cons2
  <1> QED
    BY <1>1, Zenon DEF Cons

LEMMA ItemsSplit ==
  ASSUME NEW p, NEW x \in TreeItems(p), NEW rest \in Seq(TreeItems(p))
  PROVE  Splits(x, rest) /\ Cons(x, rest) \in Seq(TreeItems(p))
  <1> DEFINE T == TreeItems(p)
  <1> HIDE DEF T
  <1>1. x \in T /\ rest \in Seq(T)
    BY DEF T
  <1>2. Splits(x, rest) /\ Cons(x, rest) \in Seq(T)
    BY <1>1, HeadTail DEF Splits, Cons
  <1> QED
    BY <1>2 DEF T

LEMMA Ready ==
  ASSUME NEW x, NEW rest, Splits(x, rest), NEW r, NEW seen,
         NEW c, c = Going(Cons(x, rest), r, seen)
  PROVE  /\ c.code # <<>> /\ Head(c.code) = x /\ Tail(c.code) = rest
         /\ c.r = r /\ c.seen = seen /\ ~c.over
  <1> DEFINE code == Cons(x, rest)
             no == FALSE
  <1>1. code # <<>> /\ Head(code) = x /\ Tail(code) = rest
    BY DEF Splits
  <1>2. c = TreeConfig(code, r, seen, no)
    BY DEF Going
  <1>3. c.code = code /\ c.r = r /\ c.seen = seen /\ c.over = no
    <2> HIDE DEF no, code
    <2> QED
      BY <1>2 DEF TreeConfig
  <1> QED
    BY <1>1, <1>3

LEMMA GoingCode ==
  ASSUME NEW code, NEW r, NEW seen, NEW c, c = Going(code, r, seen), NEW v
  PROVE  [c EXCEPT !.code = v] = Going(v, r, seen)
  <1> DEFINE no == FALSE
  <1>1. c = TreeConfig(code, r, seen, no)
    BY DEF Going
  <1>2. [c EXCEPT !.code = v] = TreeConfig(v, r, seen, no)
    <2> HIDE DEF no
    <2> QED
      BY <1>1, TreeConfigCode
  <1> QED
    BY <1>2 DEF Going

LEMMA StepBranches ==
  ASSUME NEW l, NEW x, NEW rest, Splits(x, rest), NEW r, NEW seen, x.eType \in BranchTypes, x.collIfBranch # <<>>
  PROVE  TreeStep(l, Going(Cons(x, rest), r, seen)) =
           Going((IF Taken(x.eType, r) THEN x.collIfBranch ELSE x.collElseBranch) \o rest, r, seen)
  <1> DEFINE c == Going(Cons(x, rest), r, seen)
             next == (IF Taken(x.eType, r) THEN x.collIfBranch ELSE x.collElseBranch) \o rest
  <1>0. c = Going(Cons(x, rest), r, seen)
    OBVIOUS
  <1> HIDE DEF c
  <1>1. /\ c.code # <<>> /\ Head(c.code) = x /\ Tail(c.code) = rest
        /\ c.r = r /\ c.seen = seen /\ ~c.over
    BY <1>0, Ready
  <1>2. [c EXCEPT !.code = next] = Going(next, r, seen)
    <2> HIDE DEF next
    <2> QED
      BY <1>0, GoingCode
  <1>3. "J" \notin BranchTypes /\ "JR" \notin BranchTypes
    BY DEF BranchTypes
  <1>4. TreeStep(l, c) = [c EXCEPT !.code = next]
    BY <1>1, <1>3 DEF TreeStep, NoBody
  <1> QED
    BY <1>2, <1>4 DEF c

LEMMA StepTaken ==
  ASSUME NEW l, NEW x, NEW rest, Splits(x, rest), NEW r, NEW seen, x.eType \in BranchTypes,
         x.collIfBranch # <<>>, Taken(x.eType, r)
  PROVE  TreeStep(l, Going(Cons(x, rest), r, seen)) = Going(x.collIfBranch \o rest, r, seen)
  BY StepBranches

LEMMA StepNotTaken ==
  ASSUME NEW l, NEW x, NEW rest, Splits(x, rest), NEW r, NEW seen, x.eType \in BranchTypes,
         x.collIfBranch # <<>>, ~Taken(x.eType, r)
  PROVE  TreeStep(l, Going(Cons(x, rest), r, seen)) = Going(x.collElseBranch \o rest, r, seen)
  BY StepBranches

LEMMA StepJumps ==
  ASSUME NEW l, NEW x, NEW rest, Splits(x, rest), NEW r, NEW seen, x.eType = "J",
         Labels(l, x.uJumpAddress) # {}
  PROVE  TreeStep(l, Going(Cons(x, rest), r, seen)) =
           Going(Following(l, First(Labels(l, x.uJumpAddress))), r, seen)
  <1> DEFINE c == Going(Cons(x, rest), r, seen)
             next == Following(l, First(Labels(l, x.uJumpAddress)))
  <1>0. c = Going(Cons(x, rest), r, seen)
    OBVIOUS
  <1> HIDE DEF c
  <1>1. /\ c.code # <<>> /\ Head(c.code) = x /\ Tail(c.code) = rest
        /\ c.r = r /\ c.seen = seen /\ ~c.over
    BY <1>0, Ready
  <1>2. [c EXCEPT !.code = next] = Going(next, r, seen)
    <2> HIDE DEF next
    <2> QED
      BY <1>0, GoingCode
  <1>3. "J" \notin BranchTypes /\ "JR" \notin BranchTypes
    BY DEF BranchTypes
  <1>4. TreeStep(l, c) = [c EXCEPT !.code = next]
    BY <1>1, <1>3 DEF TreeStep, NoBody
  <1> QED
    BY <1>2, <1>4 DEF c

LEMMA StepReturns ==
  ASSUME NEW l, NEW x, NEW rest, Splits(x, rest), NEW r, NEW seen, x.eType = "JR"
  PROVE  TreeStep(l, Going(Cons(x, rest), r, seen)) =
           TreeConfig(Cons(x, rest), r, Append(seen, <<"return", r>>), TRUE)
  <1> DEFINE code == Cons(x, rest)
             c == Going(code, r, seen)
             w == Append(seen, <<"return", r>>)
             y == [c EXCEPT !.seen = w]
             yes == TRUE
             no == FALSE
  <1>0. c = Going(Cons(x, rest), r, seen)
    OBVIOUS
  <1> HIDE DEF c
  <1>1. /\ c.code # <<>> /\ Head(c.code) = x /\ Tail(c.code) = rest
        /\ c.r = r /\ c.seen = seen /\ ~c.over
    BY <1>0, Ready
  <1>2. c = TreeConfig(code, r, seen, no)
    BY <1>0 DEF Going, code
  <1>3. "J" \notin BranchTypes /\ "JR" \notin BranchTypes
    BY DEF BranchTypes
  <1> HIDE DEF code
  <1>4. TreeStep(l, c) = [c EXCEPT !.seen = w, !.over = yes]
    BY <1>1, <1>3 DEF TreeStep, NoBody
  <1> HIDE DEF yes, no, w
  <1>5. TreeStep(l, c) = [y EXCEPT !.over = yes]
    BY <1>4
  <1>6. y = TreeConfig(code, r, w, no)
    BY <1>2, TreeConfigSeen DEF y
  <1> HIDE DEF y
  <1>7. TreeStep(l, c) = TreeConfig(code, r, w, yes)
    BY <1>5, <1>6, TreeConfigOver
  <1> QED
    BY <1>7 DEF c, code, yes, w

LEMMA StepPlain ==
  ASSUME NEW l, NEW x, NEW rest, Splits(x, rest), NEW r, NEW seen,
         x.eType \notin BranchTypes \cup {"J", "JR"}
  PROVE  TreeStep(l, Going(Cons(x, rest), r, seen)) =
           Going(rest, Step(x.eType, r), seen \o Seen(x.eType, r))
  <1> DEFINE c == Going(Cons(x, rest), r, seen)
  <1>0. c = Going(Cons(x, rest), r, seen)
    OBVIOUS
  <1> HIDE DEF c
  <1>1. /\ c.code # <<>> /\ Head(c.code) = x /\ Tail(c.code) = rest
        /\ c.r = r /\ c.seen = seen /\ ~c.over
    BY <1>0, Ready
  <1>2. TreeStep(l, c) = [code |-> rest, r |-> Step(x.eType, r), seen |-> seen \o Seen(x.eType, r),
                          over |-> FALSE]
    BY <1>1 DEF TreeStep, NoBody
  <1> QED
    BY <1>2 DEF c, Going, TreeConfig

LEMMA ArmsAreTree ==
  ASSUME NEW p
  PROVE  ArmItems(p) \subseteq TreeItems(p)
  <1> SUFFICES ASSUME NEW x \in ArmItems(p) PROVE x \in TreeItems(p)
    OBVIOUS
  <1> DEFINE S == Seq(ArmItems(p))
  <1>1. <<>> \in S
    OBVIOUS
  <1> HIDE DEF S
  <1>2. x \in [eType : AllTypes, uAddress : Int, uJumpAddress : Int, bDelayedDelete : BOOLEAN,
               collIfBranch : S, collElseBranch : S]
    BY <1>1 DEF ArmItems
  <1>3. Closed(p, x) /\ (x.eType = "J" => x.uJumpAddress \in Heads(p))
    BY DEF ArmItems, Closed
  <1> QED
    BY <1>2, <1>3 DEF TreeItems, S

\* A jump leads to what resolveDelaySlots has made of the rest of the function.
LEMMA JumpStep ==
  ASSUME "BGEZ" \notin Branches, NEW p, WellFormed(p), NEW x \in TreeItems(p), x.eType = "J",
         NEW rest \in Seq(TreeItems(p)), NEW r, NEW seen
  PROVE  TreeStep(Rest(p)[1], Going(Cons(x, rest), r, seen)) =
         Going(Rest(p)[x.uJumpAddress], r, seen)
  <1> DEFINE R == Rest(p)[1]
             h == x.uJumpAddress
  <1>1. h \in Heads(p)
    BY DEF TreeItems
  <1>2. PICK k \in 1 .. Len(R) : Labels(R, h) = {[path |-> <<>>, i |-> k]} /\ Rest(p)[h] = SubSeq(R, k, Len(R))
    BY <1>1, LabelsOfHead
  <1> DEFINE pos == [path |-> <<>>, i |-> k]
  <1>3. First(Labels(R, h)) = pos
    <2>1. Labels(R, h) = {pos}
      BY <1>2
    <2> HIDE DEF pos, R, h
    <2> QED
      BY <2>1 DEF First
  <1>4. R \in Seq(TreeItems(p))
    BY FirstHead, RestAscending DEF Ascending
  <1>5. Following(R, pos) = Rest(p)[h]
    <2>1. Following(R, pos) = SubSeq(R, k, Len(R))
      <3> HIDE DEF R
      <3> QED
        BY <1>4, FollowingTop
    <2> QED
      BY <1>2, <2>1
  <1>6. Labels(R, h) # {}
    BY <1>2
  <1> HIDE DEF pos, R
  <1>7. TreeStep(R, Going(Cons(x, rest), r, seen)) =
          Going(Following(R, First(Labels(R, h))), r, seen)
    <2>1. Splits(x, rest)
      BY ItemsSplit
    <2> QED
      BY <1>6, <2>1, StepJumps, ZenonT(60)
  <1>8. Following(R, First(Labels(R, h))) = Rest(p)[h]
    BY <1>3, <1>5
  <1> HIDE DEF h
  <1>9. TreeStep(R, Going(Cons(x, rest), r, seen)) = Going(Rest(p)[h], r, seen)
    BY <1>7, <1>8
  <1> QED
    BY <1>9 DEF R, h

\* The configuration in which the generated code is where the processor is,
\* the number of steps it then takes for one of the processor's, and the
\* configurations on the way.
Starts(p, m) ==
  IF m.over THEN TreeConfig(Cons(SecondItem(p, m.pc, <<>>), Rest(p)[m.pc + 2]), m.r, m.seen, TRUE)
  ELSE Going(Rest(p)[m.pc], m.r, m.seen)

Stages(p, m) ==
  LET type == p[m.pc].t IN
  IF m.over \/ ~Delayed(p, m.pc) \/ (type \in Likely /\ ~Taken(type, m.r)) THEN 1
  ELSE IF type \in BranchTypes /\ Taken(type, m.r) THEN 3
  ELSE 2

Stage(p, m, q) ==
  LET step(c) == TreeStep(Rest(p)[1], c) IN
  IF q = 0 THEN Starts(p, m)
  ELSE IF q = 1 THEN step(Starts(p, m)) ELSE step(step(Starts(p, m)))

\* What has been seen when the slot has run.
Ahead(p, m) == m.seen \o Seen(p[m.pc + 1].t, m.r)

\* What a configuration on the way has in common with the processor's: the
\* slot, if it runs, may be ahead.
Agrees(p, m, c) ==
  /\ c.over = m.over
  /\ \/ c.seen = m.seen
     \/ /\ c.seen = Ahead(p, m)
        /\ ~m.over /\ Delayed(p, m.pc) /\ ~(p[m.pc].t \in Likely /\ ~Taken(p[m.pc].t, m.r))

\* One step of the processor, in which the generated code takes the steps
\* from Starts(p, m) to Starts(p, MipsStep(p, m)).
Keeps(p, m) ==
  /\ TreeStep(Rest(p)[1], Stage(p, m, Stages(p, m) - 1)) = Starts(p, MipsStep(p, m))
  /\ \A q \in 0 .. (Stages(p, m) - 1) : Agrees(p, m, Stage(p, m, q))

LEMMA StartsAgree ==
  ASSUME NEW p, NEW m \in MipsConfigs(p)
  PROVE  Agrees(p, m, Starts(p, m))
  <1> DEFINE c == Starts(p, m)
  <1>0. m.over \in BOOLEAN
    BY DEF MipsConfigs
  <1>1. CASE m.over
    <2>1. c = TreeConfig(Cons(SecondItem(p, m.pc, <<>>), Rest(p)[m.pc + 2]), m.r, m.seen, TRUE)
      BY <1>1 DEF Starts
    <2>2. c.over = TRUE /\ c.seen = m.seen
      <3> DEFINE w == Cons(SecondItem(p, m.pc, <<>>), Rest(p)[m.pc + 2])
      <3> HIDE DEF w, c
      <3> QED
        BY <2>1 DEF TreeConfig, w
    <2> HIDE DEF c
    <2> QED
      BY <1>0, <1>1, <2>2 DEF Agrees, c
  <1>2. CASE ~m.over
    <2>1. c = Going(Rest(p)[m.pc], m.r, m.seen)
      BY <1>2 DEF Starts
    <2>2. c.over = FALSE /\ c.seen = m.seen
      <3> HIDE DEF c
      <3> QED
        BY <2>1 DEF TreeConfig, Going
    <2> HIDE DEF c
    <2> QED
      BY <1>0, <1>2, <2>2 DEF Agrees, c
  <1> QED
    BY <1>1, <1>2

LEMMA GoingAgrees ==
  ASSUME NEW p, NEW m \in MipsConfigs(p), ~m.over, Stages(p, m) # 1, NEW code, NEW r, NEW seen,
         seen = m.seen \/ seen = Ahead(p, m)
  PROVE  Agrees(p, m, Going(code, r, seen))
  <1> DEFINE c == Going(code, r, seen)
             b == Ahead(p, m)
             X == ~m.over /\ Delayed(p, m.pc) /\ ~(p[m.pc].t \in Likely /\ ~Taken(p[m.pc].t, m.r))
  <1>0. m.over \in BOOLEAN
    BY DEF MipsConfigs
  <1>1. X
    BY DEF Stages
  <1>2. c.over = FALSE /\ c.seen = seen
    BY DEF TreeConfig, Going
  <1>3. seen = m.seen \/ seen = b
    OBVIOUS
  <1> HIDE DEF c, b, X
  <1>4. c.over = m.over /\ (c.seen = m.seen \/ (c.seen = b /\ X))
    BY <1>0, <1>1, <1>2, <1>3
  <1> QED
    BY <1>4 DEF Agrees, c, b, X

LEMMA KeepsOne ==
  ASSUME NEW p, NEW m \in MipsConfigs(p), Stages(p, m) = 1,
         TreeStep(Rest(p)[1], Starts(p, m)) = Starts(p, MipsStep(p, m))
  PROVE  Keeps(p, m)
  <1>1. Stage(p, m, 0) = Starts(p, m)
    BY DEF Stage
  <1>2. \A q \in 0 .. (Stages(p, m) - 1) : q = 0
    OBVIOUS
  <1>3. Stages(p, m) - 1 = 0
    OBVIOUS
  <1> QED
    BY <1>1, <1>2, <1>3, StartsAgree DEF Keeps

LEMMA KeepsTwo ==
  ASSUME NEW p, NEW m \in MipsConfigs(p), ~m.over, Stages(p, m) = 2, NEW code, NEW r, NEW seen,
         seen = m.seen \/ seen = Ahead(p, m),
         TreeStep(Rest(p)[1], Starts(p, m)) = Going(code, r, seen),
         TreeStep(Rest(p)[1], Going(code, r, seen)) = Starts(p, MipsStep(p, m))
  PROVE  Keeps(p, m)
  <1>1. Stage(p, m, 0) = Starts(p, m) /\ Stage(p, m, 1) = Going(code, r, seen)
    BY DEF Stage
  <1>2. \A q \in 0 .. (Stages(p, m) - 1) : q = 0 \/ q = 1
    OBVIOUS
  <1>3. Stages(p, m) - 1 = 1
    OBVIOUS
  <1>4. Agrees(p, m, Going(code, r, seen))
    <2>1. Stages(p, m) # 1
      OBVIOUS
    <2> QED
      BY <2>1, GoingAgrees
  <1> QED
    BY <1>1, <1>2, <1>3, <1>4, StartsAgree DEF Keeps

LEMMA KeepsThree ==
  ASSUME NEW p, NEW m \in MipsConfigs(p), ~m.over, Stages(p, m) = 3, NEW code, NEW r, NEW seen,
         seen = m.seen \/ seen = Ahead(p, m),
         NEW code2, NEW r2, NEW seen2,
         seen2 = m.seen \/ seen2 = Ahead(p, m),
         TreeStep(Rest(p)[1], Starts(p, m)) = Going(code, r, seen),
         TreeStep(Rest(p)[1], Going(code, r, seen)) = Going(code2, r2, seen2),
         TreeStep(Rest(p)[1], Going(code2, r2, seen2)) = Starts(p, MipsStep(p, m))
  PROVE  Keeps(p, m)
  <1>1. Stage(p, m, 0) = Starts(p, m) /\ Stage(p, m, 1) = Going(code, r, seen)
        /\ Stage(p, m, 2) = Going(code2, r2, seen2)
    BY DEF Stage
  <1>2. \A q \in 0 .. (Stages(p, m) - 1) : q = 0 \/ q = 1 \/ q = 2
    OBVIOUS
  <1>3. Stages(p, m) - 1 = 2
    OBVIOUS
  <1>4. Agrees(p, m, Going(code, r, seen)) /\ Agrees(p, m, Going(code2, r2, seen2))
    <2>1. Stages(p, m) # 1
      OBVIOUS
    <2> QED
      BY <2>1, GoingAgrees
  <1> QED
    BY <1>1, <1>2, <1>3, <1>4, StartsAgree DEF Keeps

\* What is left to run from the head of an instruction on.
LEMMA RestShape ==
  ASSUME "BGEZ" \notin Branches, NEW p, WellFormed(p), NEW a \in Heads(p)
  PROVE  /\ ~Delayed(p, a) => /\ Rest(p)[a + 1] \in Seq(TreeItems(p))
                              /\ Item(p[a].t, a, p[a].j, <<>>, <<>>) \in TreeItems(p)
                              /\ Rest(p)[a] = Cons(Item(p[a].t, a, p[a].j, <<>>, <<>>), Rest(p)[a + 1])
         /\ Delayed(p, a) => Rest(p)[a + 2] \in Seq(TreeItems(p))
         /\ p[a].t \in Likely => Rest(p)[a] =
              Cons(Item(p[a].t, a, p[a].j, <<SlotItem(p, a), CloseItem(p, a)>>, <<>>), Rest(p)[a + 2])
         /\ p[a].t \in BranchTypes \ Likely /\ p[a + 1].t \in Modifies => Rest(p)[a] =
              Cons(Item(p[a].t, a, p[a].j, <<SlotItem(p, a), CloseItem(p, a)>>, <<SlotItem(p, a)>>),
                   Rest(p)[a + 2])
         /\ p[a].t \in BranchTypes \ Likely /\ p[a + 1].t \notin Modifies => Rest(p)[a] =
              Cons(FirstItem(p, a), Cons(SecondItem(p, a, <<CloseItem(p, a)>>), Rest(p)[a + 2]))
         /\ p[a].t \in {"J", "JALR", "JR"} => Rest(p)[a] =
              Cons(FirstItem(p, a), Cons(SecondItem(p, a, <<>>), Rest(p)[a + 2]))
  <1> DEFINE rest == Rest(p)[NextHead(p, a)]
             turned == Turned(Listing(p), a)
             T == TreeItems(p)
  <1>1. rest \in Seq(T)
    BY RestAscending DEF Ascending
  <1>2. Rest(p)[a] = turned \o rest
    BY RestIs DEF Heads
  <1>3. /\ ~Delayed(p, a) => NextHead(p, a) = a + 1
        /\ Delayed(p, a) => NextHead(p, a) = a + 2
    BY DEF NextHead
  <1>4. p[a].t \in BranchTypes \cup {"J", "JALR", "JR"} <=> Delayed(p, a)
    BY DEF Delayed
  <1>5. Likely \subseteq BranchTypes
    BY DEF Likely, BranchTypes
  <1>6. ASSUME ~Delayed(p, a)
        PROVE  /\ Item(p[a].t, a, p[a].j, <<>>, <<>>) \in T
               /\ Rest(p)[a] = Cons(Item(p[a].t, a, p[a].j, <<>>, <<>>), rest)
    <2>1. a \in 1 .. Size /\ a \in Int
      BY DEF Heads
    <2>2. p[a].t \in PlainTypes /\ p[a].j \in 0 .. Size
      BY <1>6, <2>1, ProgramTypes
    <2>3. p[a].t \in AllTypes /\ p[a].t # "J" /\ p[a].t \notin BranchTypes /\ p[a].j \in Int
      BY <2>2, MipsDecAssumption DEF AllTypes, BranchTypes, PlainTypes
    <2>4. <<>> \in Seq(ArmItems(p))
      OBVIOUS
    <2>5. Item(p[a].t, a, p[a].j, <<>>, <<>>) \in T
      BY <2>1, <2>3, <2>4, TreeItemTyped
    <2>6. turned = <<Item(p[a].t, a, p[a].j, <<>>, <<>>)>>
      BY <1>6, TurnedCases
    <2> HIDE DEF turned, T, rest
    <2> QED
      BY <1>2, <2>5, <2>6 DEF Cons
  <1>7. ASSUME p[a].t \in Likely
        PROVE  Rest(p)[a] = Cons(Item(p[a].t, a, p[a].j, <<SlotItem(p, a), CloseItem(p, a)>>, <<>>), rest)
    <2>1. turned = <<Item(p[a].t, a, p[a].j, <<SlotItem(p, a), CloseItem(p, a)>>, <<>>)>>
      BY <1>7, TurnedCases
    <2> DEFINE x == Item(p[a].t, a, p[a].j, <<SlotItem(p, a), CloseItem(p, a)>>, <<>>)
    <2> HIDE DEF turned, T, rest, x
    <2>2. Rest(p)[a] = Cons(x, rest)
      BY <1>2, <2>1 DEF Cons, x
    <2> QED
      BY <2>2 DEF x
  <1>8. ASSUME p[a].t \in BranchTypes \ Likely, p[a + 1].t \in Modifies
        PROVE  Rest(p)[a] =
                 Cons(Item(p[a].t, a, p[a].j, <<SlotItem(p, a), CloseItem(p, a)>>, <<SlotItem(p, a)>>), rest)
    <2> DEFINE x == Item(p[a].t, a, p[a].j, <<SlotItem(p, a), CloseItem(p, a)>>, <<SlotItem(p, a)>>)
    <2>1. turned = <<x>>
      BY <1>8, TurnedCases
    <2> HIDE DEF turned, T, rest, x
    <2>2. Rest(p)[a] = Cons(x, rest)
      BY <1>2, <2>1 DEF Cons
    <2> QED
      BY <2>2 DEF x
  <1>9. ASSUME NEW x \in T, NEW y \in T, turned = <<x, y>>
        PROVE  Rest(p)[a] = Cons(x, Cons(y, rest))
    <2> HIDE DEF turned, T, rest
    <2> QED
      BY <1>1, <1>2, <1>9, Cons2, SMTT(30) DEF Cons
  <1>10. ASSUME Delayed(p, a)
         PROVE  /\ FirstItem(p, a) \in T
                /\ \A i \in Seq(ArmItems(p)) :
                     (p[a].t \in BranchTypes => i # <<>>) => SecondItem(p, a, i) \in T
    BY <1>10, PartsTyped
  <1>11. ASSUME p[a].t \in BranchTypes \ Likely, p[a + 1].t \notin Modifies
         PROVE  Rest(p)[a] = Cons(FirstItem(p, a), Cons(SecondItem(p, a, <<CloseItem(p, a)>>), rest))
    <2>1. Delayed(p, a)
      BY <1>4, <1>11
    <2>2. CloseItem(p, a) \in ArmItems(p)
      BY <1>11, <2>1, PartsTyped
    <2>3. <<CloseItem(p, a)>> \in Seq(ArmItems(p)) /\ <<CloseItem(p, a)>> # <<>>
      BY <2>2
    <2>4. FirstItem(p, a) \in T /\ SecondItem(p, a, <<CloseItem(p, a)>>) \in T
      BY <1>10, <2>1, <2>3
    <2>5. turned = <<FirstItem(p, a), SecondItem(p, a, <<CloseItem(p, a)>>)>>
      BY <1>11, TurnedCases
    <2> HIDE DEF turned, T, rest
    <2> QED
      BY <1>9, <2>4, <2>5
  <1>12. ASSUME p[a].t \in {"J", "JALR", "JR"}
         PROVE  Rest(p)[a] = Cons(FirstItem(p, a), Cons(SecondItem(p, a, <<>>), rest))
    <2>1. Delayed(p, a) /\ p[a].t \notin BranchTypes
      BY <1>4, <1>12 DEF BranchTypes
    <2>2. <<>> \in Seq(ArmItems(p))
      OBVIOUS
    <2>3. FirstItem(p, a) \in T /\ SecondItem(p, a, <<>>) \in T
      BY <1>10, <2>1, <2>2
    <2>4. turned = <<FirstItem(p, a), SecondItem(p, a, <<>>)>>
      BY <1>12, TurnedCases
    <2> HIDE DEF turned, T, rest
    <2> QED
      BY <1>9, <2>3, <2>4
  <1>13. ASSUME ~Delayed(p, a) PROVE rest = Rest(p)[a + 1]
    BY <1>3, <1>13
  <1>14. ASSUME Delayed(p, a) PROVE rest = Rest(p)[a + 2]
    BY <1>3, <1>14
  <1> HIDE DEF rest, turned
  <1>15. CASE Delayed(p, a)
    <2>1. rest = Rest(p)[a + 2]
      BY <1>14, <1>15
    <2> QED
      BY <1>1, <1>7, <1>8, <1>11, <1>12, <1>15, <2>1
  <1>16. CASE ~Delayed(p, a)
    <2>1. rest = Rest(p)[a + 1]
      BY <1>13, <1>16
    <2>2. p[a].t \notin BranchTypes /\ p[a].t \notin {"J", "JALR", "JR"} /\ p[a].t \notin Likely
      BY <1>4, <1>5, <1>16
    <2> QED
      BY <1>1, <1>6, <1>16, <2>1, <2>2
  <1> QED
    BY <1>15, <1>16

LEMMA ItemFields ==
  ASSUME NEW t, NEW a, NEW j, NEW i, NEW e
  PROVE  /\ Item(t, a, j, i, e).eType = t /\ Item(t, a, j, i, e).uJumpAddress = j
         /\ Item(t, a, j, i, e).collIfBranch = i /\ Item(t, a, j, i, e).collElseBranch = e
  BY DEF Item

LEMMA StartsGoing ==
  ASSUME NEW p, NEW a, NEW r, NEW w
  PROVE  Starts(p, [pc |-> a, r |-> r, seen |-> w, over |-> FALSE]) = Going(Rest(p)[a], r, w)
  BY DEF Starts

LEMMA StartsOver ==
  ASSUME NEW p, NEW a, NEW r, NEW w
  PROVE  Starts(p, [pc |-> a, r |-> r, seen |-> w, over |-> TRUE]) =
           TreeConfig(Cons(SecondItem(p, a, <<>>), Rest(p)[a + 2]), r, w, TRUE)
  BY DEF Starts

\* Where the generated code is after a step of the processor.
LEMMA StartsNext ==
  ASSUME NEW p, WellFormed(p), NEW m \in MipsConfigs(p), ~m.over
  PROVE  LET i == p[m.pc]
             next == Starts(p, MipsStep(p, m))
             r == Step(p[m.pc + 1].t, m.r)
         IN
         /\ ~Delayed(p, m.pc) => next = Going(Rest(p)[m.pc + 1], Step(i.t, m.r), m.seen \o Seen(i.t, m.r))
         /\ i.t \in BranchTypes /\ Taken(i.t, m.r) => next = Going(Rest(p)[i.j], r, Ahead(p, m))
         /\ i.t \in Likely /\ ~Taken(i.t, m.r) => next = Going(Rest(p)[m.pc + 2], m.r, m.seen)
         /\ i.t \in BranchTypes \ Likely /\ ~Taken(i.t, m.r) =>
              next = Going(Rest(p)[m.pc + 2], r, Ahead(p, m))
         /\ i.t = "J" => next = Going(Rest(p)[i.j], r, Ahead(p, m))
         /\ i.t = "JALR" => next = Going(Rest(p)[m.pc + 2], r, Ahead(p, m) \o Seen("JALR", Called(p[m.pc + 1].t, m.r)))
         /\ i.t = "JR" => next =
              TreeConfig(Cons(SecondItem(p, m.pc, <<>>), Rest(p)[m.pc + 2]), r,
                         Append(Ahead(p, m), <<"return", r>>), TRUE)
  <1> DEFINE i == p[m.pc]
             s == p[m.pc + 1]
             did == MipsStep(p, m)
             next == Starts(p, did)
             r == Step(s.t, m.r)
             v == Called(s.t, m.r)
             w == m.seen \o Seen(s.t, m.r)
             slot(a) == [pc |-> a, r |-> r, seen |-> w, over |-> FALSE]
  <1>1. ~Delayed(p, m.pc) => next = Going(Rest(p)[m.pc + 1], Step(i.t, m.r), m.seen \o Seen(i.t, m.r))
    <2>1. ~Delayed(p, m.pc) => did =
            [pc |-> m.pc + 1, r |-> Step(i.t, m.r), seen |-> m.seen \o Seen(i.t, m.r), over |-> FALSE]
      BY MipsCases
    <2> HIDE DEF did
    <2> QED
      BY <2>1, StartsGoing
  <1>2. i.t \in BranchTypes /\ Taken(i.t, m.r) => did = slot(i.j)
    BY MipsCases
  <1>3. i.t \in BranchTypes \ Likely /\ ~Taken(i.t, m.r) => did = slot(m.pc + 2)
    BY MipsCases
  <1>4. i.t = "J" => did = slot(i.j)
    BY MipsCases
  <1>5. ASSUME NEW a PROVE Starts(p, slot(a)) = Going(Rest(p)[a], r, w)
    <2> HIDE DEF r, w
    <2> QED
      BY StartsGoing
  <1>6. i.t \in Likely /\ ~Taken(i.t, m.r) => next = Going(Rest(p)[m.pc + 2], m.r, m.seen)
    <2> SUFFICES ASSUME i.t \in Likely, ~Taken(i.t, m.r)
                 PROVE  next = Going(Rest(p)[m.pc + 2], m.r, m.seen)
      OBVIOUS
    <2>1. did = [m EXCEPT !.pc = m.pc + 2]
      BY MipsCases
    <2>2. did.pc = m.pc + 2 /\ did.r = m.r /\ did.seen = m.seen /\ did.over = m.over
      <3> DEFINE E == Seq(Events)
      <3>1. m \in [pc : Heads(p), r : Int, seen : E, over : BOOLEAN]
        BY DEF MipsConfigs
      <3> HIDE DEF did, E
      <3> QED
        BY <2>1, <3>1
    <2> HIDE DEF did
    <2> QED
      BY <2>2 DEF Starts
  <1>7. i.t = "JALR" => next = Going(Rest(p)[m.pc + 2], r, w \o Seen("JALR", v))
    <2>1. i.t = "JALR" => did =
            [pc |-> m.pc + 2, r |-> r, seen |-> w \o Seen("JALR", v), over |-> FALSE]
      BY MipsCases, ZenonT(60)
    <2> HIDE DEF did, r, v, w
    <2> QED
      BY <2>1, StartsGoing, ZenonT(60)
  <1>8. i.t = "JR" => next = TreeConfig(Cons(SecondItem(p, m.pc, <<>>), Rest(p)[m.pc + 2]), r,
                                        Append(w, <<"return", r>>), TRUE)
    <2>1. i.t = "JR" => did =
            [pc |-> m.pc, r |-> r, seen |-> Append(w, <<"return", r>>), over |-> TRUE]
      BY MipsCases, ZenonT(60)
    <2> HIDE DEF did, r, w
    <2> QED
      BY <2>1, StartsOver
  <1>9. w = Ahead(p, m)
    BY DEF Ahead
  <1> HIDE DEF did, r, v, w, slot
  <1> QED
    BY <1>1, <1>2, <1>3, <1>4, <1>5, <1>6, <1>7, <1>8, <1>9 DEF did, r, v

\* The items resolveDelaySlots makes, run.
LEMMA PlainRuns ==
  ASSUME NEW p, NEW l, NEW x \in TreeItems(p), x.eType \in PlainTypes \cup {"JALR"},
         NEW rest \in Seq(TreeItems(p)), NEW r, NEW seen
  PROVE  TreeStep(l, Going(Cons(x, rest), r, seen)) =
           Going(rest, Step(x.eType, r), seen \o Seen(x.eType, r))
  <1>1. Splits(x, rest)
    BY ItemsSplit
  <1>2. x.eType \notin BranchTypes \cup {"J", "JR"}
    BY DEF BranchTypes, PlainTypes
  <1> QED
    BY <1>1, <1>2, StepPlain

LEMMA SlotsRun ==
  ASSUME NEW p, WellFormed(p), NEW a \in Heads(p), Delayed(p, a), NEW l, NEW r, NEW seen,
         NEW rest \in Seq(TreeItems(p))
  PROVE  /\ TreeStep(l, Going(Cons(SlotItem(p, a), rest), r, seen)) =
              Going(rest, Step(p[a + 1].t, r), seen \o Seen(p[a + 1].t, r))
         /\ TreeStep(l, Going(Cons(FirstItem(p, a), rest), r, seen)) =
              Going(rest, Step(p[a + 1].t, r), seen \o Seen(p[a + 1].t, r))
  <1>1. p[a + 1].t \in PlainTypes \cup {"JALR"}
    BY HeadFacts
  <1>2. SlotItem(p, a) \in TreeItems(p) /\ FirstItem(p, a) \in TreeItems(p)
    BY PartsTyped, ArmsAreTree
  <1> DEFINE x == SlotItem(p, a)
             y == FirstItem(p, a)
             t == p[a + 1].t
  <1>3. x.eType = t /\ y.eType = t
    BY ItemFields DEF SlotItem, FirstItem
  <1>4. x \in TreeItems(p) /\ y \in TreeItems(p) /\ t \in PlainTypes \cup {"JALR"}
    BY <1>1, <1>2
  <1> HIDE DEF x, y, t
  <1>5. TreeStep(l, Going(Cons(x, rest), r, seen)) = Going(rest, Step(t, r), seen \o Seen(t, r))
    BY <1>3, <1>4, PlainRuns
  <1>6. TreeStep(l, Going(Cons(y, rest), r, seen)) = Going(rest, Step(t, r), seen \o Seen(t, r))
    BY <1>3, <1>4, PlainRuns
  <1> QED
    BY <1>5, <1>6 DEF x, y, t

LEMMA CloseRuns ==
  ASSUME "BGEZ" \notin Branches, NEW p, WellFormed(p), NEW a \in Heads(p), p[a].t \in BranchTypes,
         NEW r, NEW seen, NEW rest \in Seq(TreeItems(p))
  PROVE  TreeStep(Rest(p)[1], Going(Cons(CloseItem(p, a), rest), r, seen)) =
           Going(Rest(p)[p[a].j], r, seen)
  <1> DEFINE x == CloseItem(p, a)
             j == p[a].j
  <1>1. Delayed(p, a)
    BY DEF Delayed
  <1>2. x \in TreeItems(p)
    BY <1>1, PartsTyped, ArmsAreTree
  <1>3. x.eType = "J" /\ x.uJumpAddress = j
    BY ItemFields DEF CloseItem
  <1> HIDE DEF x, j
  <1>4. TreeStep(Rest(p)[1], Going(Cons(x, rest), r, seen)) = Going(Rest(p)[x.uJumpAddress], r, seen)
    BY <1>2, <1>3, JumpStep
  <1> QED
    BY <1>3, <1>4 DEF x, j

LEMMA BranchTyped ==
  ASSUME NEW p, WellFormed(p), NEW a \in Heads(p), p[a].t \in BranchTypes, NEW b \in Int,
         NEW i \in Seq(ArmItems(p)), NEW e \in Seq(ArmItems(p)), i # <<>>
  PROVE  LET x == Item(p[a].t, b, p[a].j, i, e) IN
         /\ x \in TreeItems(p) /\ x.eType = p[a].t
         /\ x.collIfBranch = i /\ x.collElseBranch = e
  <1>1. p[a].j \in Int /\ p[a].t \in AllTypes /\ p[a].t # "J" /\ p[a].j \in Heads(p)
    BY HeadFacts, ProgramTypes, MipsDecAssumption DEF Heads, AllTypes, BranchTypes
  <1>2. Item(p[a].t, b, p[a].j, i, e) \in TreeItems(p)
    BY <1>1, TreeItemTyped
  <1> QED
    BY <1>2, ItemFields

\* Both runs have ended.
LEMMA KeepsOver ==
  ASSUME NEW p, WellFormed(p), NEW m \in MipsConfigs(p), m.over
  PROVE  Keeps(p, m)
  <1> DEFINE c == Starts(p, m)
  <1>1. MipsStep(p, m) = m
    BY MipsStepGrows
  <1>3. c.over
    <2>1. Agrees(p, m, c)
      BY StartsAgree
    <2> HIDE DEF c
    <2> QED
      BY <2>1 DEF Agrees
  <1>4. Stages(p, m) = 1
    BY DEF Stages
  <1> HIDE DEF c
  <1>5. TreeStep(Rest(p)[1], c) = c
    BY <1>3 DEF TreeStep
  <1>6. TreeStep(Rest(p)[1], Starts(p, m)) = Starts(p, MipsStep(p, m))
    BY <1>1, <1>5 DEF c
  <1> QED
    BY <1>4, <1>6, KeepsOne

LEMMA Running ==
  ASSUME NEW p, WellFormed(p), NEW m \in MipsConfigs(p), ~m.over
  PROVE  /\ m.pc \in Heads(p) /\ m.over \in BOOLEAN /\ m.pc \in Int
         /\ Starts(p, m) = Going(Rest(p)[m.pc], m.r, m.seen)
  BY DEF MipsConfigs, Starts, Heads

LEMMA KeepsPlain ==
  ASSUME "BGEZ" \notin Branches, NEW p, WellFormed(p), NEW m \in MipsConfigs(p), ~m.over,
         ~Delayed(p, m.pc)
  PROVE  Keeps(p, m)
  <1> DEFINE a == m.pc
             x == Item(p[a].t, a, p[a].j, <<>>, <<>>)
             rest == Rest(p)[a + 1]
             t == p[a].t
  <1>1. a \in Heads(p) /\ m.over \in BOOLEAN /\ Starts(p, m) = Going(Rest(p)[a], m.r, m.seen)
    BY Running
  <1>2. rest \in Seq(TreeItems(p)) /\ x \in TreeItems(p) /\ Rest(p)[a] = Cons(x, rest)
    BY <1>1, RestShape
  <1>3. x.eType = t
    BY ItemFields
  <1>4. t \in PlainTypes \cup {"JALR"}
    BY <1>1, ProgramTypes DEF Heads
  <1>5. Starts(p, MipsStep(p, m)) = Going(rest, Step(t, m.r), m.seen \o Seen(t, m.r))
    BY StartsNext
  <1>6. Stages(p, m) = 1
    BY DEF Stages
  <1> HIDE DEF x, rest, t
  <1>7. TreeStep(Rest(p)[1], Going(Cons(x, rest), m.r, m.seen)) =
          Going(rest, Step(t, m.r), m.seen \o Seen(t, m.r))
    BY <1>2, <1>3, <1>4, PlainRuns
  <1>8. TreeStep(Rest(p)[1], Starts(p, m)) = Starts(p, MipsStep(p, m))
    BY <1>1, <1>2, <1>5, <1>7
  <1> QED
    BY <1>1, <1>6, <1>8, KeepsOne

\* The slot is in the arms: it runs after the branch has decided.
LEMMA KeepsArms ==
  ASSUME "BGEZ" \notin Branches, NEW p, WellFormed(p), NEW m \in MipsConfigs(p), ~m.over,
         p[m.pc].t \in BranchTypes, p[m.pc].t \in Likely \/ p[m.pc + 1].t \in Modifies
  PROVE  Keeps(p, m)
  <1> DEFINE a == m.pc
             R == Rest(p)[1]
             rest == Rest(p)[a + 2]
             i == <<SlotItem(p, a), CloseItem(p, a)>>
             e == IF p[a].t \in Likely THEN <<>> ELSE <<SlotItem(p, a)>>
             x == Item(p[a].t, a, p[a].j, i, e)
             t == p[a].t
             slot == SlotItem(p, a)
             close == Cons(CloseItem(p, a), rest)
             r == Step(p[a + 1].t, m.r)
             ahead == m.seen \o Seen(p[a + 1].t, m.r)
  <1>1. a \in Heads(p) /\ a \in Int /\ m.over \in BOOLEAN /\ Starts(p, m) = Going(Rest(p)[a], m.r, m.seen)
    BY Running
  <1>2. Delayed(p, a)
    BY DEF Delayed
  <1>3. rest \in Seq(TreeItems(p)) /\ Rest(p)[a] = Cons(x, rest)
    <2>1. CASE t \in Likely
      BY <1>1, <1>2, <2>1, RestShape
    <2>2. CASE t \notin Likely
      BY <1>1, <1>2, <2>2, RestShape
    <2> QED
      BY <2>1, <2>2
  <1>4. /\ i \in Seq(ArmItems(p)) /\ e \in Seq(ArmItems(p)) /\ i # <<>>
        /\ i \o rest = Cons(slot, close)
        /\ t \in Likely => e \o rest = rest
        /\ t \notin Likely => e \o rest = Cons(slot, rest)
        /\ close \in Seq(TreeItems(p))
    <2> DEFINE y == CloseItem(p, a)
               S == TreeItems(p)
               B == ArmItems(p)
               T == Seq(S)
               A == Seq(B)
    <2>0. slot \in B /\ y \in B /\ B \subseteq S /\ rest \in Seq(S)
      BY <1>1, <1>2, <1>3, PartsTyped, ArmsAreTree
    <2>1. /\ <<slot, y>> \o rest = Cons(slot, close)
          /\ <<slot>> \o rest = Cons(slot, rest) /\ <<>> \o rest = rest
          /\ close \in T /\ <<slot, y>> \in A /\ <<slot>> \in A /\ <<>> \in A
      <3>0. close = Cons(y, rest)
        OBVIOUS
      <3> HIDE DEF rest, slot, y, S, B, close
      <3>1. slot \in S /\ y \in S
        BY <2>0
      <3>2. <<slot, y>> \o rest = Cons(slot, close)
        <4>1. <<slot, y>> \o rest = Cons(slot, Cons(y, rest))
          BY <2>0, <3>1, ConsPair
        <4> QED
          BY <3>0, <4>1
      <3>3. close \in T
        BY <2>0, <3>0, <3>1, ItemsSplit DEF S
      <3>4. <<slot>> \o rest = Cons(slot, rest) /\ <<>> \o rest = rest
        BY <2>0 DEF Cons
      <3>5. <<slot, y>> \in A /\ <<slot>> \in A /\ <<>> \in A
        BY <2>0
      <3> QED
        BY <3>2, <3>3, <3>4, <3>5
    <2>2. i = <<slot, y>> /\ i # <<>>
      OBVIOUS
    <2>3. (t \in Likely => e = <<>>) /\ (t \notin Likely => e = <<slot>>)
      OBVIOUS
    <2> HIDE DEF i, e, slot, close, rest, y, t, T, A
    <2>4. t \in Likely => e \in A /\ e \o rest = rest
      BY <2>1, <2>3
    <2>5. t \notin Likely => e \in A /\ e \o rest = Cons(slot, rest)
      BY <2>1, <2>3
    <2>6. i \in A /\ i \o rest = Cons(slot, close)
      BY <2>1, <2>2
    <2> QED
      BY <2>1, <2>2, <2>4, <2>5, <2>6 DEF A, T
  <1>5. ahead = Ahead(p, m)
    BY DEF Ahead
  <1>6. /\ Taken(t, m.r) => TreeStep(R, Starts(p, m)) = Going(Cons(slot, close), m.r, m.seen)
        /\ ~Taken(t, m.r) => TreeStep(R, Starts(p, m)) = Going(e \o rest, m.r, m.seen)
    <2>1. x \in TreeItems(p) /\ x.eType = t /\ x.collIfBranch = i /\ x.collElseBranch = e
      <3> HIDE DEF i, e
      <3> QED
        BY <1>1, <1>4, BranchTyped
    <2>2. t \in BranchTypes
      OBVIOUS
    <2> HIDE DEF R, rest, i, e, x, slot, close, t
    <2>3. Splits(x, rest)
      BY <1>3, <2>1, ItemsSplit
    <2>4. x.eType \in BranchTypes /\ x.collIfBranch # <<>>
      BY <1>4, <2>1, <2>2
    <2>5. Taken(t, m.r) => TreeStep(R, Going(Cons(x, rest), m.r, m.seen)) = Going(i \o rest, m.r, m.seen)
      BY <2>1, <2>3, <2>4, StepTaken
    <2>6. ~Taken(t, m.r) => TreeStep(R, Going(Cons(x, rest), m.r, m.seen)) = Going(e \o rest, m.r, m.seen)
      BY <2>1, <2>3, <2>4, StepNotTaken
    <2> QED
      BY <1>1, <1>3, <1>4, <2>5, <2>6
  <1>7. /\ TreeStep(R, Going(Cons(slot, close), m.r, m.seen)) = Going(close, r, ahead)
        /\ TreeStep(R, Going(Cons(slot, rest), m.r, m.seen)) = Going(rest, r, ahead)
    <2> HIDE DEF R, rest, close
    <2> QED
      BY <1>1, <1>2, <1>3, <1>4, SlotsRun
  <1>8. TreeStep(R, Going(close, r, ahead)) = Going(Rest(p)[p[a].j], r, ahead)
    <2> HIDE DEF rest, r, ahead
    <2> QED
      BY <1>1, <1>3, CloseRuns
  <1>9. /\ Taken(t, m.r) => Starts(p, MipsStep(p, m)) = Going(Rest(p)[p[a].j], r, ahead)
        /\ ~Taken(t, m.r) /\ t \in Likely => Starts(p, MipsStep(p, m)) = Going(rest, m.r, m.seen)
        /\ ~Taken(t, m.r) /\ t \notin Likely => Starts(p, MipsStep(p, m)) = Going(rest, r, ahead)
    BY <1>5, StartsNext
  <1>10. /\ Taken(t, m.r) => Stages(p, m) = 3
         /\ ~Taken(t, m.r) /\ t \in Likely => Stages(p, m) = 1
         /\ ~Taken(t, m.r) /\ t \notin Likely => Stages(p, m) = 2
    BY <1>2 DEF Stages
  <1> DEFINE next == Starts(p, MipsStep(p, m))
  <1> HIDE DEF R, rest, i, e, x, slot, close, r, ahead, t, next
  <1>11. CASE Taken(t, m.r)
    <2>1. /\ TreeStep(R, Starts(p, m)) = Going(Cons(slot, close), m.r, m.seen)
          /\ TreeStep(R, Going(Cons(slot, close), m.r, m.seen)) = Going(close, r, ahead)
          /\ TreeStep(R, Going(close, r, ahead)) = next /\ Stages(p, m) = 3
      BY <1>6, <1>7, <1>8, <1>9, <1>10, <1>11 DEF next
    <2> QED
      BY <1>1, <1>5, <2>1, KeepsThree DEF R, next
  <1>12. CASE ~Taken(t, m.r) /\ t \in Likely
    <2>1. TreeStep(R, Starts(p, m)) = next /\ Stages(p, m) = 1
      BY <1>4, <1>6, <1>9, <1>10, <1>12 DEF next
    <2> QED
      BY <1>1, <2>1, KeepsOne DEF R, next
  <1>13. CASE ~Taken(t, m.r) /\ t \notin Likely
    <2>1. /\ TreeStep(R, Starts(p, m)) = Going(Cons(slot, rest), m.r, m.seen)
          /\ TreeStep(R, Going(Cons(slot, rest), m.r, m.seen)) = next /\ Stages(p, m) = 2
      BY <1>4, <1>6, <1>7, <1>9, <1>10, <1>13 DEF next
    <2> QED
      BY <1>1, <2>1, KeepsTwo DEF R, next
  <1> QED
    BY <1>11, <1>12, <1>13

\* The slot has gone before the branch, which does not read what it changes.
LEMMA KeepsBefore ==
  ASSUME "BGEZ" \notin Branches, NEW p, WellFormed(p), NEW m \in MipsConfigs(p), ~m.over,
         p[m.pc].t \in BranchTypes \ Likely, p[m.pc + 1].t \notin Modifies
  PROVE  Keeps(p, m)
  <1> DEFINE a == m.pc
             R == Rest(p)[1]
             rest == Rest(p)[a + 2]
             y == CloseItem(p, a)
             i == <<y>>
             e == <<>>
             x == SecondItem(p, a, i)
             t == p[a].t
             slot == FirstItem(p, a)
             close == Cons(y, rest)
             r == Step(p[a + 1].t, m.r)
             ahead == m.seen \o Seen(p[a + 1].t, m.r)
  <1>1. a \in Heads(p) /\ a \in Int /\ m.over \in BOOLEAN /\ Starts(p, m) = Going(Rest(p)[a], m.r, m.seen)
    BY Running
  <1>2. Delayed(p, a) /\ t \in BranchTypes
    BY DEF Delayed
  <1>3. rest \in Seq(TreeItems(p)) /\ Rest(p)[a] = Cons(slot, Cons(x, rest))
    BY <1>1, <1>2, RestShape
  <1>4. y \in ArmItems(p) /\ y \in TreeItems(p)
    BY <1>1, <1>2, PartsTyped, ArmsAreTree
  <1>5. i \in Seq(ArmItems(p)) /\ e \in Seq(ArmItems(p)) /\ i # <<>>
    <2> HIDE DEF y
    <2> QED
      BY <1>4
  <1>6. x \in TreeItems(p) /\ x.eType = t /\ x.collIfBranch = i /\ x.collElseBranch = e
    <2> DEFINE z == Item(p[a].t, a + 1, p[a].j, i, e)
    <2>1. x = z
      BY DEF SecondItem
    <2>2. a + 1 \in Int
      BY <1>1
    <2>3. z \in TreeItems(p) /\ z.eType = t /\ z.collIfBranch = i /\ z.collElseBranch = e
      <3> HIDE DEF i, e
      <3> QED
        BY <1>1, <1>2, <1>5, <2>2, BranchTyped
    <2> HIDE DEF x, z
    <2> QED
      BY <2>1, <2>3
  <1>7. close \in Seq(TreeItems(p)) /\ i \o rest = close
    <2>1. close \in Seq(TreeItems(p))
      <3> HIDE DEF y, rest
      <3> QED
        BY <1>3, <1>4, ItemsSplit
    <2>2. i \o rest = close
      BY DEF Cons
    <2> QED
      BY <2>1, <2>2
  <1>8. e \o rest = rest
    <2> HIDE DEF rest
    <2> QED
      BY <1>3
  <1>9. r = m.r /\ ahead = Ahead(p, m)
    BY DEF Ahead, Step, Modifies
  <1>10. TreeStep(R, Going(close, r, ahead)) = Going(Rest(p)[p[a].j], r, ahead)
    <2> HIDE DEF rest, r, ahead
    <2> QED
      BY <1>1, <1>3, CloseRuns
  <1>11. /\ Taken(t, m.r) => Starts(p, MipsStep(p, m)) = Going(Rest(p)[p[a].j], r, ahead)
         /\ ~Taken(t, m.r) => Starts(p, MipsStep(p, m)) = Going(rest, r, ahead)
    BY <1>9, StartsNext
  <1>12. (Taken(t, m.r) => Stages(p, m) = 3) /\ (~Taken(t, m.r) => Stages(p, m) = 2)
    BY <1>2 DEF Stages
  <1>13. Splits(x, rest) /\ Cons(x, rest) \in Seq(TreeItems(p))
    <2> HIDE DEF x, rest
    <2> QED
      BY <1>3, <1>6, ItemsSplit
  <1>14. TreeStep(R, Starts(p, m)) = Going(Cons(x, rest), r, ahead)
    <2>1. TreeStep(R, Going(Cons(slot, Cons(x, rest)), m.r, m.seen)) = Going(Cons(x, rest), r, ahead)
      <3> DEFINE w == Cons(x, rest)
      <3> HIDE DEF R, w
      <3> QED
        BY <1>1, <1>2, <1>13, SlotsRun DEF w
    <2> HIDE DEF R, x, rest, slot, r, ahead
    <2> QED
      BY <1>1, <1>3, <2>1
  <1> DEFINE next == Starts(p, MipsStep(p, m))
  <1> HIDE DEF R, rest, i, e, x, slot, close, r, ahead, t, next
  <1>15. x.eType \in BranchTypes /\ x.collIfBranch # <<>>
    BY <1>2, <1>5, <1>6
  <1>16. Taken(t, r) => TreeStep(R, Going(Cons(x, rest), r, ahead)) = Going(close, r, ahead)
    <2>1. Taken(t, r) => TreeStep(R, Going(Cons(x, rest), r, ahead)) = Going(i \o rest, r, ahead)
      BY <1>6, <1>13, <1>15, StepTaken
    <2> QED
      BY <1>7, <2>1
  <1>17. ~Taken(t, r) => TreeStep(R, Going(Cons(x, rest), r, ahead)) = Going(rest, r, ahead)
    <2>1. ~Taken(t, r) => TreeStep(R, Going(Cons(x, rest), r, ahead)) = Going(e \o rest, r, ahead)
      BY <1>6, <1>13, <1>15, StepNotTaken
    <2> QED
      BY <1>8, <2>1
  <1>18. CASE Taken(t, m.r)
    <2>1. /\ TreeStep(R, Going(Cons(x, rest), r, ahead)) = Going(close, r, ahead)
          /\ TreeStep(R, Going(close, r, ahead)) = next /\ Stages(p, m) = 3
      BY <1>9, <1>10, <1>11, <1>12, <1>16, <1>18 DEF next
    <2> QED
      BY <1>1, <1>9, <1>14, <2>1, KeepsThree DEF R, next
  <1>19. CASE ~Taken(t, m.r)
    <2>1. TreeStep(R, Going(Cons(x, rest), r, ahead)) = next /\ Stages(p, m) = 2
      BY <1>9, <1>11, <1>12, <1>17, <1>19 DEF next
    <2> QED
      BY <1>1, <1>9, <1>14, <2>1, KeepsTwo DEF R, next
  <1> QED
    BY <1>18, <1>19

\* So it has before a jump, a call and a return.
LEMMA KeepsJump ==
  ASSUME "BGEZ" \notin Branches, CallThrough = "other", NEW p, WellFormed(p),
         NEW m \in MipsConfigs(p), ~m.over,
         p[m.pc].t \in {"J", "JALR", "JR"}
  PROVE  Keeps(p, m)
  <1> DEFINE a == m.pc
             R == Rest(p)[1]
             rest == Rest(p)[a + 2]
             x == SecondItem(p, a, <<>>)
             t == p[a].t
             slot == FirstItem(p, a)
             r == Step(p[a + 1].t, m.r)
             ahead == m.seen \o Seen(p[a + 1].t, m.r)
             next == Starts(p, MipsStep(p, m))
  <1>1. a \in Heads(p) /\ m.over \in BOOLEAN /\ Starts(p, m) = Going(Rest(p)[a], m.r, m.seen)
    BY Running
  <1>2. Delayed(p, a)
    BY DEF Delayed
  <1>3. rest \in Seq(TreeItems(p)) /\ Rest(p)[a] = Cons(slot, Cons(x, rest))
    BY <1>1, <1>2, RestShape
  <1>4. x \in TreeItems(p) /\ x.eType = t /\ x.uJumpAddress = p[a].j
    <2>1. <<>> \in Seq(ArmItems(p)) /\ t \notin BranchTypes
      BY DEF BranchTypes
    <2>2. x \in TreeItems(p)
      BY <1>1, <1>2, <2>1, PartsTyped
    <2> QED
      BY <2>2, ItemFields DEF SecondItem
  <1>5. ahead = Ahead(p, m)
    BY DEF Ahead
  <1>6. Stages(p, m) = 2
    BY <1>2 DEF Stages, BranchTypes, Likely
  <1>7. Splits(x, rest) /\ Cons(x, rest) \in Seq(TreeItems(p))
    <2> HIDE DEF x, rest
    <2> QED
      BY <1>3, <1>4, ItemsSplit
  <1>8. TreeStep(R, Starts(p, m)) = Going(Cons(x, rest), r, ahead)
    <2>1. TreeStep(R, Going(Cons(slot, Cons(x, rest)), m.r, m.seen)) = Going(Cons(x, rest), r, ahead)
      <3> DEFINE w == Cons(x, rest)
      <3> HIDE DEF R, w
      <3> QED
        BY <1>1, <1>2, <1>7, SlotsRun DEF w
    <2> HIDE DEF R, x, rest, slot, r, ahead
    <2> QED
      BY <1>1, <1>3, <2>1
  <1>9. /\ t = "J" => next = Going(Rest(p)[p[a].j], r, ahead)
        /\ t = "JALR" => next = Going(rest, r, ahead \o Seen("JALR", r))
        /\ t = "JR" => next = TreeConfig(Cons(x, rest), r, Append(ahead, <<"return", r>>), TRUE)
    <2>1. Called(p[a + 1].t, m.r) = r
      BY DEF Called
    <2> QED
      BY <1>5, <2>1, StartsNext
  <1> HIDE DEF x, rest, slot, r, ahead, t, next
  <1>10. TreeStep(R, Going(Cons(x, rest), r, ahead)) = next
    <2>1. t = "J" \/ t = "JALR" \/ t = "JR"
      BY DEF t
    <2>2. CASE t = "J"
      <3>1. TreeStep(R, Going(Cons(x, rest), r, ahead)) = Going(Rest(p)[x.uJumpAddress], r, ahead)
        BY <1>3, <1>4, <2>2, JumpStep
      <3> QED
        BY <1>4, <1>9, <2>2, <3>1
    <2>3. CASE t = "JALR"
      <3>1. x.eType \in PlainTypes \cup {"JALR"} /\ x.eType = "JALR"
        BY <1>4, <2>3
      <3> HIDE DEF R
      <3>2. TreeStep(R, Going(Cons(x, rest), r, ahead)) =
              Going(rest, Step(x.eType, r), ahead \o Seen(x.eType, r))
        BY <1>3, <1>4, <3>1, PlainRuns
      <3>3. Step("JALR", r) = r
        BY DEF Step, Modifies
      <3> QED
        BY <1>9, <2>3, <3>1, <3>2, <3>3
    <2>4. CASE t = "JR"
      <3> HIDE DEF R
      <3>1. TreeStep(R, Going(Cons(x, rest), r, ahead)) =
              TreeConfig(Cons(x, rest), r, Append(ahead, <<"return", r>>), TRUE)
        BY <1>4, <1>7, <2>4, StepReturns, ZenonT(60)
      <3> QED
        BY <1>9, <2>4, <3>1
    <2> QED
      BY <2>1, <2>2, <2>3, <2>4
  <1> HIDE DEF R
  <1> QED
    BY <1>1, <1>5, <1>6, <1>8, <1>10, KeepsTwo DEF R, next

LEMMA KeepsAll ==
  ASSUME "BGEZ" \notin Branches, CallThrough = "other", NEW p, WellFormed(p), NEW m \in MipsConfigs(p)
  PROVE  Keeps(p, m)
  <1>1. CASE m.over
    BY <1>1, KeepsOver
  <1>2. CASE ~m.over /\ ~Delayed(p, m.pc)
    BY <1>2, KeepsPlain
  <1>3. CASE ~m.over /\ p[m.pc].t \in BranchTypes
    <2>1. CASE p[m.pc].t \in Likely \/ p[m.pc + 1].t \in Modifies
      BY <1>3, <2>1, KeepsArms
    <2>2. CASE ~(p[m.pc].t \in Likely \/ p[m.pc + 1].t \in Modifies)
      BY <1>3, <2>2, KeepsBefore
    <2> QED
      BY <2>1, <2>2
  <1>4. CASE ~m.over /\ p[m.pc].t \in {"J", "JALR", "JR"}
    BY <1>4, KeepsJump
  <1>5. Delayed(p, m.pc) <=> p[m.pc].t \in BranchTypes \/ p[m.pc].t \in {"J", "JALR", "JR"}
    BY DEF Delayed
  <1> QED
    BY <1>1, <1>2, <1>3, <1>4, <1>5
-----------------------------------------------------------------------------
(***************************************************************************)
(* The two runs, side by side.  A place is a configuration of the          *)
(* processor and how far the generated code is in its step.                *)
(***************************************************************************)
Places(p) == {w \in MipsConfigs(p) \X (0 .. 2) : w[2] < Stages(p, w[1])}

Placed(p, w) == Stage(p, w[1], w[2])

Reached(p) == {Placed(p, w) : w \in Places(p)}

LEMMA StagesAre ==
  ASSUME NEW p, NEW m
  PROVE  Stages(p, m) \in {1, 2, 3}
  BY DEF Stages

LEMMA PlaceIs ==
  ASSUME NEW p, NEW m \in MipsConfigs(p), NEW q \in 0 .. 2, q < Stages(p, m)
  PROVE  <<m, q>> \in Places(p) /\ Placed(p, <<m, q>>) = Stage(p, m, q)
  <1> DEFINE M == MipsConfigs(p)
  <1> HIDE DEF M
  <1>1. m \in M
    BY DEF M
  <1>2. <<m, q>> \in M \X (0 .. 2)
    BY <1>1
  <1>3. <<m, q>>[1] = m /\ <<m, q>>[2] = q
    OBVIOUS
  <1> QED
    BY <1>2, <1>3 DEF Places, Placed, M

LEMMA StageSteps ==
  ASSUME "BGEZ" \notin Branches, CallThrough = "other", NEW p, WellFormed(p),
         NEW m \in MipsConfigs(p), NEW q \in 0 .. 2, q < Stages(p, m)
  PROVE  /\ q + 1 < Stages(p, m) => /\ q + 1 \in 0 .. 2
                                    /\ TreeStep(Rest(p)[1], Stage(p, m, q)) = Stage(p, m, q + 1)
         /\ ~(q + 1 < Stages(p, m)) =>
              TreeStep(Rest(p)[1], Stage(p, m, q)) = Stage(p, MipsStep(p, m), 0)
  <1> DEFINE n == Stages(p, m)
             R == Rest(p)[1]
  <1>1. n \in {1, 2, 3}
    BY StagesAre
  <1>2. /\ Stage(p, m, 1) = TreeStep(R, Stage(p, m, 0))
        /\ Stage(p, m, 2) = TreeStep(R, Stage(p, m, 1))
        /\ Stage(p, MipsStep(p, m), 0) = Starts(p, MipsStep(p, m))
    BY DEF Stage
  <1>3. TreeStep(R, Stage(p, m, n - 1)) = Stage(p, MipsStep(p, m), 0)
    BY <1>2, KeepsAll DEF Keeps
  <1> HIDE DEF n, R
  <1>4. q < n
    BY DEF n
  <1>5. ASSUME q + 1 < n
        PROVE  q + 1 \in 0 .. 2 /\ TreeStep(R, Stage(p, m, q)) = Stage(p, m, q + 1)
    <2>1. q = 0 \/ q = 1
      BY <1>1, <1>5
    <2>2. CASE q = 0
      <3>1. q + 1 = 1
        BY <2>2
      <3> QED
        BY <1>2, <2>2, <3>1
    <2>3. CASE q = 1
      <3>1. q + 1 = 2
        BY <2>3
      <3> QED
        BY <1>2, <2>3, <3>1
    <2> QED
      BY <2>1, <2>2, <2>3
  <1>6. ASSUME ~(q + 1 < n)
        PROVE  TreeStep(R, Stage(p, m, q)) = Stage(p, MipsStep(p, m), 0)
    <2>1. q = n - 1
      BY <1>1, <1>4, <1>6
    <2> QED
      BY <1>3, <2>1
  <1> QED
    BY <1>5, <1>6 DEF n, R

LEMMA OnwardIs ==
  ASSUME "BGEZ" \notin Branches, CallThrough = "other", NEW p, WellFormed(p),
         NEW m \in MipsConfigs(p), NEW q \in 0 .. 2, q < Stages(p, m)
  PROVE  /\ q + 1 < Stages(p, m) => /\ <<m, q + 1>> \in Places(p)
                                    /\ TreeStep(Rest(p)[1], Placed(p, <<m, q>>)) = Placed(p, <<m, q + 1>>)
         /\ ~(q + 1 < Stages(p, m)) =>
              /\ <<MipsStep(p, m), 0>> \in Places(p)
              /\ TreeStep(Rest(p)[1], Placed(p, <<m, q>>)) = Placed(p, <<MipsStep(p, m), 0>>)
  <1>1. Placed(p, <<m, q>>) = Stage(p, m, q)
    BY PlaceIs
  <1>2. ASSUME q + 1 < Stages(p, m)
        PROVE  /\ <<m, q + 1>> \in Places(p)
               /\ TreeStep(Rest(p)[1], Placed(p, <<m, q>>)) = Placed(p, <<m, q + 1>>)
    <2>1. q + 1 \in 0 .. 2 /\ TreeStep(Rest(p)[1], Stage(p, m, q)) = Stage(p, m, q + 1)
      BY <1>2, StageSteps
    <2>2. <<m, q + 1>> \in Places(p) /\ Placed(p, <<m, q + 1>>) = Stage(p, m, q + 1)
      BY <1>2, <2>1, PlaceIs
    <2> QED
      BY <1>1, <2>1, <2>2
  <1>3. ASSUME ~(q + 1 < Stages(p, m))
        PROVE  /\ <<MipsStep(p, m), 0>> \in Places(p)
               /\ TreeStep(Rest(p)[1], Placed(p, <<m, q>>)) = Placed(p, <<MipsStep(p, m), 0>>)
    <2> DEFINE did == MipsStep(p, m)
    <2>1. TreeStep(Rest(p)[1], Stage(p, m, q)) = Stage(p, did, 0)
      BY <1>3, StageSteps
    <2>2. did \in MipsConfigs(p)
      BY MipsStepTyped
    <2> HIDE DEF did
    <2>3. 0 \in 0 .. 2 /\ 0 < Stages(p, did)
      BY StagesAre
    <2>4. <<did, 0>> \in Places(p) /\ Placed(p, <<did, 0>>) = Stage(p, did, 0)
      BY <2>2, <2>3, PlaceIs
    <2> QED
      BY <1>1, <2>1, <2>4 DEF did
  <1> QED
    BY <1>2, <1>3

LEMMA ReachedSteps ==
  ASSUME "BGEZ" \notin Branches, CallThrough = "other", NEW p, WellFormed(p), NEW c \in Reached(p)
  PROVE  TreeStep(Rest(p)[1], c) \in Reached(p)
  <1>1. PICK w \in Places(p) : c = Placed(p, w)
    BY DEF Reached
  <1> DEFINE M == MipsConfigs(p)
  <1>2. w \in M \X (0 .. 2) /\ w[2] < Stages(p, w[1])
    BY DEF Places
  <1>3. PICK m \in M, q \in 0 .. 2 : w = <<m, q>>
    <2> HIDE DEF M
    <2> QED
      BY <1>2
  <1>4. q < Stages(p, m)
    BY <1>2, <1>3
  <1>5. \E v \in Places(p) : TreeStep(Rest(p)[1], Placed(p, <<m, q>>)) = Placed(p, v)
    BY <1>4, OnwardIs
  <1> QED
    BY <1>1, <1>3, <1>5 DEF Reached

LEMMA RunTreeIs ==
  ASSUME "BGEZ" \notin Branches, CallThrough = "other", NEW p, WellFormed(p), NEW r \in Int
  PROVE  LET run == RunTree(Rest(p)[1], r) IN
         /\ run[0] = Placed(p, <<RunMips(p, r)[0], 0>>)
         /\ \A k \in 1 .. Fuel : run[k] = TreeStep(Rest(p)[1], run[k - 1])
  <1> DEFINE R == Rest(p)[1]
             a == [code |-> R, r |-> r, seen |-> <<>>, over |-> FALSE]
             m0 == [pc |-> 1, r |-> r, seen |-> <<>>, over |-> FALSE]
             S == Reached(p)
             F == [k \in 1 .. Fuel |-> [c \in S |-> TreeStep(R, c)]]
             Is(f) == f = [k \in 0 .. Fuel |-> IF k = 0 THEN a ELSE TreeStep(R, f[k - 1])]
             place == <<RunMips(p, r)[0], 0>>
  <1>0. Fuel \in Nat /\ 0 \in 0 .. Fuel
    BY MipsDecAssumption
  <1>1. RunMips(p, r)[0] = m0 /\ RunMips(p, r)[0] \in MipsConfigs(p)
    BY <1>0, RunMipsIs
  <1>2. place \in Places(p) /\ Placed(p, place) = Stage(p, m0, 0)
    <2> DEFINE n0 == RunMips(p, r)[0]
    <2>1. n0 \in MipsConfigs(p) /\ n0 = m0
      BY <1>1
    <2> HIDE DEF n0, m0
    <2>2. 0 \in 0 .. 2 /\ 0 < Stages(p, n0)
      BY StagesAre
    <2>3. <<n0, 0>> \in Places(p) /\ Placed(p, <<n0, 0>>) = Stage(p, n0, 0)
      BY <2>1, <2>2, PlaceIs
    <2> QED
      BY <2>1, <2>3 DEF n0
  <1>3. a = Placed(p, place)
    <2>1. Stage(p, m0, 0) = Starts(p, m0)
      BY DEF Stage
    <2>2. Starts(p, m0) = Going(R, r, <<>>)
      BY StartsGoing
    <2>3. Going(R, r, <<>>) = a
      BY DEF Going, TreeConfig
    <2> QED
      BY <1>2, <2>1, <2>2, <2>3
  <1>4. a \in S
    BY <1>2, <1>3 DEF Reached
  <1>5. \A c \in S : TreeStep(R, c) \in S
    BY ReachedSteps
  <1>6. F \in [1 .. Fuel -> [S -> S]]
    <2> HIDE DEF S, R
    <2> QED
      BY <1>5
  <1>7. \E g : Iterates(g, Fuel, S, a, F)
    <2> HIDE DEF S, a, F
    <2> QED
      BY <1>0, <1>4, <1>6, Iterated
  <1>8. PICK g \in [0 .. Fuel -> S] : g[0] = a /\ \A k \in 1 .. Fuel : g[k] = F[k][g[k - 1]]
    <2> HIDE DEF S, a, F
    <2> QED
      BY <1>7 DEF Iterates
  <1>9. Is(g)
    <2> HIDE DEF S, a, R
    <2>1. \A k \in 0 .. Fuel : g[k] = IF k = 0 THEN a ELSE TreeStep(R, g[k - 1])
      <3> TAKE k \in 0 .. Fuel
      <3>1. CASE k = 0
        BY <1>8, <3>1
      <3>2. CASE k # 0
        <4>1. k \in 1 .. Fuel /\ k - 1 \in 0 .. Fuel /\ g[k - 1] \in S
          BY <1>0, <3>2
        <4>2. F[k][g[k - 1]] = TreeStep(R, g[k - 1])
          BY <4>1
        <4> HIDE DEF F
        <4> QED
          BY <1>8, <3>2, <4>1, <4>2
      <3> QED
        BY <3>1, <3>2
    <2> HIDE DEF F
    <2> QED
      BY <2>1
  <1> DEFINE run == RunTree(R, r)
  <1>10. Is(run)
    <2>1. run = CHOOSE f : Is(f)
      BY DEF RunTree
    <2> HIDE DEF run, Is
    <2> QED
      BY <1>9, <2>1
  <1> HIDE DEF run, a, R, place
  <1>11. run[0] = a
    BY <1>0, <1>10
  <1>12. \A k \in 1 .. Fuel : run[k] = TreeStep(R, run[k - 1])
    <2> TAKE k \in 1 .. Fuel
    <2>1. k \in 0 .. Fuel /\ k # 0
      BY <1>0
    <2> QED
      BY <1>10, <2>1
  <1>13. run[0] = Placed(p, place)
    BY <1>3, <1>11
  <1> QED
    BY <1>12, <1>13 DEF run, R, place

\* After n steps, the generated code is in a step of the processor that has a
\* number not above n and, as no step takes it more than three, not below n/3.
LEMMA RunsTogether ==
  ASSUME "BGEZ" \notin Branches, CallThrough = "other", NEW p, WellFormed(p), NEW r \in Int, NEW n \in 0 .. Fuel
  PROVE  LET m == RunMips(p, r) IN
         \E k \in 0 .. n, q \in 0 .. 2 :
           /\ q < Stages(p, m[k]) /\ RunTree(Rest(p)[1], r)[n] = Placed(p, <<m[k], q>>)
           /\ k + q <= n /\ n <= 3 * k + q
  <1> DEFINE m == RunMips(p, r)
             R == Rest(p)[1]
             run == RunTree(R, r)
             At3(i, k, q) == /\ q < Stages(p, m[k]) /\ run[i] = Placed(p, <<m[k], q>>)
                             /\ k + q <= i /\ i <= 3 * k + q
             T == {i \in 0 .. Fuel : \E k \in 0 .. i, q \in 0 .. 2 : At3(i, k, q)}
  <1>0. Fuel \in Nat
    BY MipsDecAssumption
  <1>1. m \in [0 .. Fuel -> MipsConfigs(p)] /\ \A k \in 1 .. Fuel : m[k] = MipsStep(p, m[k - 1])
    BY RunMipsIs
  <1>2. /\ run[0] = Placed(p, <<m[0], 0>>)
        /\ \A k \in 1 .. Fuel : run[k] = TreeStep(R, run[k - 1])
    BY RunTreeIs
  <1> HIDE DEF m, run
  <1>3. 0 \in T
    <2>1. 0 < Stages(p, m[0]) /\ 0 \in 0 .. 2 /\ 0 \in 0 .. 0 /\ 0 \in 0 .. Fuel
      BY <1>0, StagesAre
    <2>2. At3(0, 0, 0)
      BY <1>2, <2>1
    <2> HIDE DEF At3
    <2> QED
      BY <2>1, <2>2
  <1>4. ASSUME NEW i \in 0 .. (Fuel - 1), i \in T PROVE i + 1 \in T
    <2>1. PICK k \in 0 .. i, q \in 0 .. 2 : At3(i, k, q)
      BY <1>4
    <2>2. /\ k \in 0 .. Fuel /\ k + 1 \in 1 .. Fuel /\ (k + 1) - 1 = k /\ i + 1 \in 1 .. Fuel
          /\ (i + 1) - 1 = i /\ i + 1 \in 0 .. Fuel /\ k \in Nat /\ i \in Nat
          /\ k \in 0 .. (i + 1) /\ k + 1 \in 0 .. (i + 1)
      BY <1>0
    <2>3. m[k] \in MipsConfigs(p) /\ m[k + 1] = MipsStep(p, m[k]) /\ run[i + 1] = TreeStep(R, run[i])
      BY <1>1, <1>2, <2>2
    <2> DEFINE c == m[k]
    <2>4. c \in MipsConfigs(p) /\ q < Stages(p, c) /\ run[i] = Placed(p, <<c, q>>)
          /\ k + q <= i /\ i <= 3 * k + q
      BY <2>1, <2>3
    <2>5. CASE q + 1 < Stages(p, c)
      <3>1. run[i + 1] = Placed(p, <<c, q + 1>>)
        <4> HIDE DEF c
        <4> QED
          BY <2>3, <2>4, <2>5, OnwardIs
      <3>2. q + 1 \in 0 .. 2
        BY <2>5, StagesAre
      <3>3. k + (q + 1) <= i + 1 /\ i + 1 <= 3 * k + (q + 1)
        BY <2>2, <2>4
      <3>4. At3(i + 1, k, q + 1)
        BY <2>5, <3>1, <3>3
      <3> HIDE DEF At3
      <3> QED
        BY <2>2, <3>2, <3>4
    <2>6. CASE ~(q + 1 < Stages(p, c))
      <3>1. run[i + 1] = Placed(p, <<m[k + 1], 0>>)
        <4>1. TreeStep(R, Placed(p, <<c, q>>)) = Placed(p, <<MipsStep(p, c), 0>>)
          <5> HIDE DEF c
          <5> QED
            BY <2>4, <2>6, OnwardIs
        <4> QED
          BY <2>3, <2>4, <4>1
      <3>2. 0 \in 0 .. 2 /\ 0 < Stages(p, m[k + 1])
        BY StagesAre
      <3>3. (k + 1) + 0 <= i + 1 /\ i + 1 <= 3 * (k + 1) + 0
        BY <2>2, <2>4
      <3>4. At3(i + 1, k + 1, 0)
        BY <3>1, <3>2, <3>3
      <3> HIDE DEF At3
      <3> QED
        BY <2>2, <3>2, <3>4
    <2> QED
      BY <2>5, <2>6
  <1>5. 0 .. Fuel \subseteq T
    <2> HIDE DEF T
    <2> QED
      BY <1>0, <1>3, <1>4, UpTo
  <1>6. PICK k \in 0 .. n, q \in 0 .. 2 : At3(n, k, q)
    <2> HIDE DEF At3
    <2> QED
      BY <1>5
  <1> QED
    BY <1>6 DEF m, run

LEMMA SameRuns ==
  ASSUME "BGEZ" \notin Branches, CallThrough = "other", NEW p, WellFormed(p), NEW r \in Int
  PROVE  LET t == RunTree(Rest(p)[1], r)[Fuel]
             m == RunMips(p, r)[Fuel]
         IN /\ IsPrefix(t.seen, m.seen) \/ IsPrefix(m.seen, t.seen)
            /\ t.over => IsPrefix(m.seen, t.seen)
            /\ m.over => IsPrefix(t.seen, m.seen)
            /\ Direction = "forward" => t.over /\ m.over
  <1> DEFINE run == RunMips(p, r)
             t == RunTree(Rest(p)[1], r)[Fuel]
             m == run[Fuel]
             E == Seq(Events)
  <1>0. Fuel \in Nat /\ Size \in Nat /\ Fuel >= 3 * Size /\ Fuel \in 0 .. Fuel /\ Size > 1
    BY MipsDecAssumption
  <1>1. PICK k \in 0 .. Fuel, q \in 0 .. 2 :
          /\ q < Stages(p, run[k]) /\ t = Placed(p, <<run[k], q>>)
          /\ k + q <= Fuel /\ Fuel <= 3 * k + q
    <2> HIDE DEF run, t
    <2> QED
      BY <1>0, RunsTogether DEF run, t
  <1>2. run \in [0 .. Fuel -> MipsConfigs(p)] /\ \A j \in 1 .. Fuel : run[j] = MipsStep(p, run[j - 1])
    BY RunMipsIs
  <1>3. /\ \A j \in 0 .. Fuel : \A n \in j .. Fuel :
             /\ \E u \in E : run[n].seen = run[j].seen \o u
             /\ run[j].over => run[n] = run[j]
        /\ Direction = "forward" => \A j \in 0 .. Fuel : ~run[j].over => run[j].pc > j
    BY RunMipsGrows
  <1> HIDE DEF run
  <1> DEFINE c == run[k]
  <1>4. /\ c \in MipsConfigs(p) /\ c.seen \in E /\ c.pc \in 1 .. Size
        /\ m \in MipsConfigs(p) /\ m.seen \in E /\ m.pc \in 1 .. Size
    BY <1>0, <1>2 DEF MipsConfigs, Heads
  <1>5. Agrees(p, c, t)
    <2>1. q < Stages(p, c) /\ t = Placed(p, <<c, q>>)
      BY <1>1
    <2> HIDE DEF c, t
    <2>2. t = Stage(p, c, q)
      BY <1>4, <2>1, PlaceIs
    <2>3. q \in 0 .. (Stages(p, c) - 1)
      BY <2>1, StagesAre
    <2>4. Keeps(p, c)
      BY <1>4, KeepsAll
    <2> QED
      BY <2>2, <2>3, <2>4 DEF Keeps
  <1>5a. Fuel \in k .. Fuel
    BY <1>0
  <1>6. \E u \in E : m.seen = c.seen \o u
    <2> HIDE DEF E
    <2> QED
      BY <1>0, <1>3, <1>5a
  <1>7. c.over => m = c
    BY <1>0, <1>3, <1>5a
  <1> DEFINE ahead == Ahead(p, c)
             X == ~c.over /\ Delayed(p, c.pc) /\ ~(p[c.pc].t \in Likely /\ ~Taken(p[c.pc].t, c.r))
  <1>8. t.over = c.over /\ (t.seen = c.seen \/ (t.seen = ahead /\ X))
    <2> HIDE DEF c, t
    <2> QED
      BY <1>5 DEF Agrees
  <1>9. IsPrefix(c.seen, m.seen)
    <2> DEFINE a == c.seen
               b == m.seen
    <2>1. a \in E /\ \E u \in E : b = a \o u
      BY <1>4, <1>6
    <2> HIDE DEF a, b
    <2>2. IsPrefix(a, b)
      BY <2>1, PrefixOfConcat
    <2> QED
      BY <2>2 DEF a, b
  <1>10. IsPrefix(c.seen, c.seen) /\ IsPrefix(c.seen, ahead) /\ ahead \in E
    <2> DEFINE a == c.seen
               z == Seen(p[c.pc + 1].t, c.r)
               e == <<>>
    <2>1. a \in E /\ a = a \o e /\ e \in E
      BY <1>4
    <2>2. z \in E
      BY <1>4, StepSeen DEF MipsConfigs
    <2>3. ahead = a \o z
      BY DEF Ahead
    <2> HIDE DEF a, z, e, ahead
    <2>4. IsPrefix(a, a \o e) /\ IsPrefix(a, a \o z) /\ a \o z \in E
      BY <2>1, <2>2, PrefixOfConcat
    <2> QED
      BY <2>1, <2>3, <2>4 DEF a
  <1>11. ASSUME X, k # Fuel PROVE IsPrefix(ahead, m.seen)
    <2> DEFINE b == run[k + 1].seen
               d == m.seen
    <2>1. k + 1 \in 1 .. Fuel /\ (k + 1) - 1 = k /\ k + 1 \in 0 .. Fuel /\ Fuel \in (k + 1) .. Fuel
      BY <1>0, <1>11
    <2>2. run[k + 1] = MipsStep(p, c)
      BY <1>2, <2>1
    <2>3. \E u \in E : MipsStep(p, c).seen = ahead \o u
      <3> HIDE DEF c
      <3>1. \E u \in E : MipsStep(p, c).seen = (c.seen \o Seen(p[c.pc + 1].t, c.r)) \o u
        BY <1>4, <1>11, MipsStepGrows
      <3> QED
        BY <3>1 DEF Ahead
    <2>4. PICK u \in E : b = ahead \o u
      BY <2>2, <2>3
    <2>5. PICK v \in E : d = b \o v
      BY <1>3, <2>1
    <2> HIDE DEF b, d, ahead
    <2>6. d = ahead \o (u \o v) /\ u \o v \in E
      BY <1>10, <2>4, <2>5, ConcatAssoc, SMTT(30)
    <2>7. IsPrefix(ahead, d)
      BY <1>10, <2>6, PrefixOfConcat
    <2> QED
      BY <2>7 DEF d
  <1>12. ASSUME Direction = "forward" PROVE c.over /\ m.over
    <2>1. k \in Nat /\ k >= Size
      BY <1>0, <1>1
    <2>2. c.over
      <3>1. ~c.over => c.pc > k
        BY <1>3, <1>12
      <3> QED
        BY <1>0, <1>4, <2>1, <3>1
    <2> QED
      BY <1>7, <2>2
  <1> DEFINE same == /\ IsPrefix(t.seen, m.seen) \/ IsPrefix(m.seen, t.seen)
                     /\ t.over => IsPrefix(m.seen, t.seen)
                     /\ m.over => IsPrefix(t.seen, m.seen)
                     /\ Direction = "forward" => t.over /\ m.over
  <1> HIDE DEF c, t, m, ahead
  <1> SUFFICES same
    BY DEF t, m, run
  <1>13. CASE t.seen = c.seen
    <2>1. c.over => IsPrefix(m.seen, t.seen)
      BY <1>7, <1>10, <1>13
    <2>2. IsPrefix(t.seen, m.seen)
      BY <1>9, <1>13
    <2>3. same
      BY <1>8, <1>12, <2>1, <2>2
    <2> QED
      BY <2>3
  <1>14. CASE t.seen = ahead /\ X /\ k # Fuel
    <2>1. IsPrefix(t.seen, m.seen) /\ ~t.over
      BY <1>8, <1>11, <1>14
    <2> QED
      BY <1>12, <1>14, <2>1
  <1>15. CASE t.seen = ahead /\ X /\ k = Fuel
    <2>1. m = c
      BY <1>15 DEF m, c
    <2>2. IsPrefix(m.seen, t.seen) /\ ~t.over /\ ~m.over
      BY <1>8, <1>10, <1>15, <2>1
    <2> QED
      BY <1>12, <1>15, <2>2
  <1>16. \/ t.seen = c.seen
         \/ (t.seen = ahead /\ X /\ k # Fuel)
         \/ (t.seen = ahead /\ X /\ k = Fuel)
    BY <1>8
  <1> QED
    BY <1>13, <1>14, <1>15, <1>16

\* The jumps of the resolved list, each of which leads to a head.
LEMMA ResolvedLabels ==
  ASSUME "BGEZ" \notin Branches, NEW p, WellFormed(p), NEW pos \in Sources(Rest(p)[1])
  PROVE  Cardinality(Labels(Rest(p)[1], At(Rest(p)[1], pos).uJumpAddress)) = 1
  <1> DEFINE R == Rest(p)[1]
             x == At(R, pos)
  <1>1. R \in Seq(TreeItems(p))
    BY FirstHead, RestAscending DEF Ascending
  <1>2. pos \in Positions(R) /\ x.eType = "J"
    BY DEF Sources
  <1>3. x \in TreeItems(p)
    <2>1. \/ \E k \in 1 .. Len(R) : x = R[k]
          \/ x \in ArmItems(p)
      <3> HIDE DEF R
      <3> QED
        BY <1>1, <1>2, PlacesShallow
    <2> DEFINE T == TreeItems(p)
    <2>2. \A k \in 1 .. Len(R) : R[k] \in T
      <3> HIDE DEF R, T
      <3> QED
        BY <1>1 DEF T
    <2> HIDE DEF R, x
    <2> QED
      BY <2>1, <2>2, ArmsAreTree
  <1>4. x.uJumpAddress \in Heads(p)
    <2> HIDE DEF x
    <2> QED
      BY <1>2, <1>3 DEF TreeItems
  <1> DEFINE h == x.uJumpAddress
  <1>5. \E k \in 1 .. Len(R) : Labels(R, h) = {[path |-> <<>>, i |-> k]}
    <2> HIDE DEF h
    <2>1. h \in Heads(p)
      BY <1>4 DEF h
    <2> QED
      BY <2>1, LabelsOfHead
  <1>6. PICK v : Labels(R, h) = {v}
    <2> HIDE DEF R, h
    <2> QED
      BY <1>5
  <1>7. Cardinality({v}) = 1
    BY FS_Singleton
  <1> HIDE DEF R, h
  <1>8. Cardinality(Labels(R, h)) = 1
    BY <1>6, <1>7
  <1> QED
    BY <1>8 DEF R, h
-----------------------------------------------------------------------------
(***************************************************************************)
(* The list before and after resolveDelaySlots, as long as the optimizer   *)
(* has not rewritten it.                                                   *)
(***************************************************************************)
ProgOK == WellFormed(prog) /\ uOptimizationPasses \in Nat

ParsedOK == phase = "parsed" => list = Listing(prog) /\ uOptimizationPasses = 0

ResolvedOK == phase # "parsed" /\ uOptimizationPasses = 0 => list = Rest(prog)[1]

AssertsOK == uOptimizationPasses = 0 => NoAssert

DecInv == ProgOK /\ ParsedOK /\ ResolvedOK /\ AssertsOK

\* No jump is left without its one label by resolveDelaySlots.
JumpsLabelled ==
  phase # "parsed" => \A p \in Sources(list) : Cardinality(Labels(list, At(list, p).uJumpAddress)) = 1

LEMMA InitDec ==
  ASSUME Init
  PROVE  DecInv
  <1>1. WellFormed(prog)
    BY DEF Init, Programs
  <1>2. list = Listing(prog) /\ uOptimizationPasses = 0 /\ phase = "parsed" /\ asserts = {}
    BY DEF Init, Listing
  <1> QED
    BY <1>1, <1>2 DEF DecInv, ProgOK, ParsedOK, ResolvedOK, AssertsOK, NoAssert

LEMMA BranchesClosed ==
  ASSUME "BGEZ" \notin Branches, NEW p, WellFormed(p), NEW l, l = Rest(p)[1]
  PROVE  /\ \A i \in 1 .. Len(l) : l[i].eType \in BranchTypes => l[i].uJumpAddress # 0
         /\ HasBodies(l)
  <1> DEFINE T == TreeItems(p)
  <1>1. Rest(p)[1] \in Seq(T)
    BY FirstHead, RestAscending DEF Ascending
  <1>2. l \in Seq(T)
    BY <1>1
  <1>3. \A x \in T : x.eType \in BranchTypes => x.uJumpAddress # 0 /\ x.collIfBranch # <<>>
    <2> TAKE x \in T
    <2>1. Closed(p, x)
      BY DEF TreeItems
    <2> QED
      BY <2>1, MipsDecAssumption DEF Closed, Heads
  <1>4. \A i \in 1 .. Len(l) : l[i] \in T
    <2> HIDE DEF T
    <2> QED
      BY <1>2
  <1>5. ASSUME NEW pos \in Positions(l), At(l, pos).eType \in BranchTypes
        PROVE  At(l, pos).collIfBranch # <<>>
    <2> DEFINE x == At(l, pos)
    <2>1. (\E k \in 1 .. Len(l) : x = l[k]) \/ x \in ArmItems(p)
      BY <1>2, PlacesShallow
    <2>2. x \in ArmItems(p) => x.eType \notin BranchTypes
      <3> HIDE DEF x
      <3> QED
        BY DEF ArmItems
    <2>3. x.eType \in BranchTypes
      BY <1>5
    <2> HIDE DEF x, T
    <2>4. x \in T
      BY <1>4, <2>1, <2>2, <2>3
    <2>5. x.collIfBranch # <<>>
      BY <1>3, <2>3, <2>4
    <2> QED
      BY <2>5 DEF x
  <1> QED
    BY <1>3, <1>4, <1>5 DEF HasBodies, NoBody

LEMMA StepDec ==
  ASSUME "BGEZ" \notin Branches, DecInv, [Next]_vars
  PROVE  DecInv'
  <1> USE DEF DecInv, ProgOK, ParsedOK, ResolvedOK, AssertsOK
  <1>1. CASE resolveDelaySlots
    <2> DEFINE l == Resolved(list)
    <2>1. /\ phase = "parsed" /\ phase' = "optimize" /\ list' = l
          /\ prog' = prog /\ uOptimizationPasses' = uOptimizationPasses
          /\ asserts' = {w \in {"target"} : \E i \in 1 .. Len(l) :
                           l[i].eType \in BranchTypes /\ l[i].uJumpAddress = 0}
      BY <1>1 DEF resolveDelaySlots, Pass
    <2>2. l = Rest(prog)[1]
      BY <2>1, RestIs
    <2> HIDE DEF l
    <2>3. NoAssert'
      BY <2>1, <2>2, BranchesClosed DEF NoAssert
    <2> QED
      BY <2>1, <2>2, <2>3
  <1>2. CASE optimizeInstructions
    <2>1. /\ phase = "optimize" /\ prog' = prog
          /\ \/ uOptimizationPasses' = uOptimizationPasses + 1 /\ phase' = phase
             \/ /\ phase' = "generate" /\ list' = list /\ uOptimizationPasses' = uOptimizationPasses
                /\ asserts' = asserts
      BY <1>2 DEF optimizeInstructions
    <2> QED
      BY <2>1 DEF NoAssert
  <1>3. CASE generateCode
    <2>1. /\ phase = "generate" /\ phase' = "done" /\ prog' = prog /\ list' = list
          /\ uOptimizationPasses' = uOptimizationPasses
          /\ asserts' = asserts \cup {w \in {"body"} : ~HasBodies(list)}
      BY <1>3 DEF generateCode
    <2>2. uOptimizationPasses = 0 => asserts' = asserts
      <3> SUFFICES ASSUME uOptimizationPasses = 0 PROVE asserts' = asserts
        OBVIOUS
      <3>1. list = Rest(prog)[1]
        BY <2>1
      <3>2. HasBodies(list)
        BY <3>1, BranchesClosed
      <3> QED
        BY <2>1, <3>2
    <2> QED
      BY <2>1, <2>2 DEF NoAssert
  <1>4. CASE UNCHANGED vars
    BY <1>4 DEF vars, NoAssert
  <1> QED
    BY <1>1, <1>2, <1>3, <1>4 DEF Next, Finished

LEMMA DecInvariant ==
  ASSUME "BGEZ" \notin Branches
  PROVE  Spec => []DecInv
  <1>1. Init => DecInv
    BY InitDec
  <1>2. DecInv /\ [Next]_vars => DecInv'
    BY StepDec
  <1> QED
    BY <1>1, <1>2, PTL DEF Spec

\* resolveDelaySlots (optimize.cpp) keeps what the function does, for every
\* function a compiler may emit, of any length and with loops: until the
\* optimizer rewrites the list, every if has a body, and the tree and the
\* machine instructions can be seen to do the same, although the slot of a
\* branch has been moved before it, copied into both of its arms or only into
\* the one that is taken.  (Without BGEZ, whose target parse does not compute,
\* and for calls through a register their slot does not change.)
THEOREM ResolveKeepsBehaviour ==
  ASSUME "BGEZ" \notin Branches, CallThrough = "other"
  PROVE  Spec => [](phase # "parsed" /\ uOptimizationPasses = 0 => HasBodies(list) /\ SameBehaviour)
  <1>1. ASSUME DecInv, phase # "parsed", uOptimizationPasses = 0
        PROVE  HasBodies(list) /\ SameBehaviour
    <2>1. WellFormed(prog) /\ list = Rest(prog)[1]
      BY <1>1 DEF DecInv, ProgOK, ResolvedOK
    <2>2. HasBodies(list)
      BY <2>1, BranchesClosed
    <2>3. ASSUME NEW r \in {-1, 0, 1}
          PROVE  LET t == RunTree(list, r)[Fuel]
                     m == RunMips(prog, r)[Fuel]
                 IN /\ IsPrefix(t.seen, m.seen) \/ IsPrefix(m.seen, t.seen)
                    /\ t.over => IsPrefix(m.seen, t.seen)
                    /\ m.over => IsPrefix(t.seen, m.seen)
                    /\ Direction = "forward" => t.over /\ m.over
      <3>1. r \in Int
        OBVIOUS
      <3> QED
        BY <2>1, <3>1, SameRuns
    <2> QED
      BY <2>2, <2>3 DEF SameBehaviour
  <1>2. DecInv => (phase # "parsed" /\ uOptimizationPasses = 0 => HasBodies(list) /\ SameBehaviour)
    BY <1>1
  <1> QED
    BY <1>2, DecInvariant, PTL

\* When resolveDelaySlots has moved and copied the slots, every jump, the ones
\* it has closed the branches with included, leads to exactly one instruction;
\* so does every goto that is printed if no pass of the optimizer applies.
THEOREM ResolveKeepsLabels ==
  ASSUME "BGEZ" \notin Branches
  PROVE  Spec => [](uOptimizationPasses = 0 => JumpsLabelled /\ LabelsUnique)
  <1>1. ASSUME DecInv PROVE uOptimizationPasses = 0 => JumpsLabelled
    <2> SUFFICES ASSUME uOptimizationPasses = 0, phase # "parsed", NEW pos \in Sources(list)
                 PROVE  Cardinality(Labels(list, At(list, pos).uJumpAddress)) = 1
      BY DEF JumpsLabelled
    <2>1. WellFormed(prog) /\ list = Rest(prog)[1]
      BY <1>1 DEF DecInv, ProgOK, ResolvedOK
    <2> QED
      BY <2>1, ResolvedLabels
  <1>2. JumpsLabelled => LabelsUnique
    BY DEF JumpsLabelled, LabelsUnique
  <1>3. DecInv => (uOptimizationPasses = 0 => JumpsLabelled /\ LabelsUnique)
    BY <1>1, <1>2
  <1> QED
    BY <1>3, DecInvariant, PTL

\* resolveDelaySlots closes every branch with a jump whose target is known, so
\* encodeAbsoluteJump's assertion (instruction.cpp 105) holds, and leaves no
\* branch without a body, so generateInstructionCode's (codegen.cpp 387) holds
\* for what it has made: an assertion only fails for what a pass of the
\* optimizer has done.
THEOREM ResolveAssertsHold ==
  ASSUME "BGEZ" \notin Branches
  PROVE  Spec => [](uOptimizationPasses = 0 => NoAssert)
  <1>1. DecInv => (uOptimizationPasses = 0 => NoAssert)
    BY DEF DecInv, AssertsOK
  <1> QED
    BY <1>1, DecInvariant, PTL
=============================================================================
