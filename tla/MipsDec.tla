------------------------------ MODULE MipsDec ------------------------------
(***************************************************************************)
(* The decompiler of tools/mipsdec: a function's MIPS instructions become  *)
(* a tree of ifs and gotos (resolveDelaySlots), the optimizer rewrites     *)
(* that tree until no pass applies any more, and the code generator prints *)
(* it.  An instruction is kept by what the passes look at; what it         *)
(* computes is one register, the one every branch tests, and a trace.      *)
(***************************************************************************)
EXTENDS Integers, Sequences, FiniteSets, SequencesExt

CONSTANTS
  Size,           \* instructions of the function
  Plain,          \* the instructions without delay slot that occur in it
  Branches,       \* the conditional branches
  Jumps,          \* the other instructions with a delay slot: "J", "JALR"
  CallThrough,    \* the register JALR jumps through: the one the branches test, or an "other"
  Direction,      \* where branches and J go: "forward" or "backward"
  CloneLimit,     \* MAX_CLONE_INSTRUCTIONS
  Fuel            \* steps after which an execution is cut off: enough for one without loops

ASSUME MipsDecAssumption ==
  /\ Size \in Nat \ {0, 1} /\ CloneLimit \in Nat
  /\ Fuel \in Nat /\ Fuel >= 3 * Size
  /\ Plain \subseteq {"NOP", "SW", "ADDU", "SP", "SAVE", "RELOAD"}
  /\ Branches \subseteq {"BEQ", "BEQL", "BNE", "BNEL", "BGTZ", "BLEZ", "BLTZ", "BGEZ"}
  /\ Jumps \subseteq {"J", "JALR"} /\ CallThrough \in {"tested", "other"}
  /\ Direction \in {"forward", "backward"}

VARIABLES
  prog,             \* the function as the processor would run it
  list,             \* m_collInstList
  jumpTargets,      \* the addresses at which updateJumpTargets has set bIsJumpTarget
  bHasStackOffset,  \* the function moves the stack pointer
  uOptimizationPasses,
  asserts,          \* the M_ASSERTs that failed; the program goes on after one
  phase             \* "parsed", "optimize", "generate" or "done"

vars == <<prog, list, jumpTargets, bHasStackOffset, uOptimizationPasses, asserts, phase>>

-----------------------------------------------------------------------------
\* Instructions.  "SW" stores the register, "ADDU" changes it, "SP" sets up or
\* tears down the stack frame, which C has no need of.  Two are an LW or SW in
\* the 24 bytes at the top of that frame: "SAVE" saves or restores a register
\* for the caller, "RELOAD" loads a local variable that lies there, here 0.

BranchTypes == {"BEQ", "BEQL", "BNE", "BNEL", "BGTZ", "BLEZ", "BLTZ", "BGEZ"}
Likely == {"BEQL", "BNEL"}
HasDelaySlot(x) == x.eType \in BranchTypes \cup {"J", "JALR", "JR"}

NoAddress == -1

Instr(type, addr, jump) ==
  [eType |-> type, uAddress |-> addr, uJumpAddress |-> jump, bDelayedDelete |-> FALSE,
   collIfBranch |-> <<>>, collElseBranch |-> <<>>]

\* parse computes the target of every branch but BGEZ.
Parse(type, addr, target) == Instr(type, addr, IF type = "BGEZ" THEN 0 ELSE target)

encodeAbsoluteJump(target) == Instr("J", NoAddress, target)

\* The condition a branch tests, given the register.
Taken(type, r) ==
  CASE type \in {"BEQ", "BEQL"} -> r = 0
    [] type \in {"BNE", "BNEL"} -> r # 0
    [] type = "BGTZ" -> r > 0
    [] type = "BLEZ" -> r <= 0
    [] type = "BLTZ" -> r < 0
    [] type = "BGEZ" -> r >= 0

\* The instructions that change the register, and what they leave in it.
Modifies == {"ADDU", "RELOAD"}

Step(type, r) ==
  CASE type = "ADDU" -> (IF r = 1 THEN -1 ELSE r + 1)
    [] type = "RELOAD" -> 0
    [] type \notin Modifies -> r

\* What an execution of it can be seen to do.
Seen(type, r) == IF type \in {"SW", "ADDU", "JALR"} THEN <<<<type, r>>>> ELSE <<>>

-----------------------------------------------------------------------------
\* The functions a compiler emits: no branch in a delay slot, none that jumps
\* into one, a stack frame made before it is used, and a return at the end.

Delayed(p, i) == p[i].t \in BranchTypes \cup {"J", "JALR", "JR"}

IsSlot(p, i) == i > 1 /\ Delayed(p, i - 1)

Targets(addr) == IF Direction = "forward" THEN (addr + 2) .. (Size - 1) ELSE 1 .. addr

Words == [t : Plain \cup Branches \cup Jumps \cup {"JR"}, j : 0 .. Size]

WellFormed(p) ==
  /\ p \in [1 .. Size -> Words]
  /\ p[Size - 1].t = "JR" /\ ~IsSlot(p, Size - 1)
  /\ \A i \in 1 .. Size :
       /\ IsSlot(p, i) => p[i].t \in Plain
       /\ p[i].t \in Branches \cup {"J"} => p[i].j \in Targets(i) /\ ~IsSlot(p, p[i].j)
       /\ p[i].t \in {"SAVE", "RELOAD"} => \E k \in 1 .. (i - 1) : p[k].t = "SP"

\* The n instructions before that return, one by one or with their slots.
Bodies ==
  LET of[n \in 0 .. (Size - 2)] ==
        LET addr == Size - 1 - n
            plain == {[t |-> p, j |-> 0] : p \in Plain}
            masters == {[t |-> b, j |-> x] : b \in Branches \cup (Jumps \cap {"J"}), x \in Targets(addr)}
                       \cup {[t |-> c, j |-> 0] : c \in Jumps \ {"J"}}
        IN
        IF n = 0 THEN {<<>>}
        ELSE {<<w>> \o rest : w \in plain, rest \in of[n - 1]}
             \cup IF n = 1 THEN {}
                  ELSE {<<m, w>> \o rest : m \in masters, w \in plain, rest \in of[n - 2]}
  IN of[Size - 2]

Programs ==
  {p \in {b \o <<[t |-> "JR", j |-> 0], [t |-> w, j |-> 0]>> : b \in Bodies, w \in Plain} :
     WellFormed(p)}

\* The register a call shows: as the processor has read the address from it, or
\* as the function that is called finds it, after the slot.
Called(slot, r) == IF CallThrough = "tested" THEN r ELSE Step(slot, r)

\* One step of the processor: an instruction, with its delay slot if it has
\* one.  The slot runs after the branch has decided, and that of a likely
\* branch only if it is taken.
MipsStep(p, c) ==
  LET i == p[c.pc]
      s == p[c.pc + 1]
      plain == [pc |-> c.pc + 1, r |-> Step(i.t, c.r), seen |-> c.seen \o Seen(i.t, c.r), over |-> FALSE]
      slot(next) == [pc |-> next, r |-> Step(s.t, c.r), seen |-> c.seen \o Seen(s.t, c.r), over |-> FALSE]
  IN
  CASE c.over -> c
    [] ~c.over /\ ~Delayed(p, c.pc) -> plain
    [] ~c.over /\ i.t \in BranchTypes /\ Taken(i.t, c.r) -> slot(i.j)
    [] ~c.over /\ i.t \in Likely /\ ~Taken(i.t, c.r) -> [c EXCEPT !.pc = @ + 2]
    [] ~c.over /\ i.t \in BranchTypes \ Likely /\ ~Taken(i.t, c.r) -> slot(c.pc + 2)
    [] ~c.over /\ i.t = "J" -> slot(i.j)
    [] ~c.over /\ i.t = "JALR" ->
         [slot(c.pc + 2) EXCEPT !.seen = @ \o Seen("JALR", Called(s.t, c.r))]
    [] ~c.over /\ i.t = "JR" ->
         [slot(c.pc) EXCEPT !.seen = Append(@, <<"return", Step(s.t, c.r)>>), !.over = TRUE]

\* What the machine instructions have done after each of Fuel steps.
RunMips(p, r) ==
  LET run[k \in 0 .. Fuel] ==
        IF k = 0 THEN [pc |-> 1, r |-> r, seen |-> <<>>, over |-> FALSE]
        ELSE MipsStep(p, run[k - 1])
  IN run

-----------------------------------------------------------------------------
MinOf(S) == CHOOSE x \in S : \A y \in S : x <= y

\* The tree.  A position is the path to a list, by index and branch, and an
\* index into that list.

Arms == {"collIfBranch", "collElseBranch"}

ListAt(l, path) ==
  LET at[k \in 0 .. Len(path)] == IF k = 0 THEN l ELSE at[k - 1][path[k].i][path[k].b]
  IN at[Len(path)]

PutList(l, path, new) ==
  LET n == Len(path)
      put[k \in 0 .. n] ==
        IF k = 0 THEN new
        ELSE [ListAt(l, SubSeq(path, 1, n - k)) EXCEPT
                ![path[n - k + 1].i][path[n - k + 1].b] = put[k - 1]]
  IN put[n]

At(l, pos) == ListAt(l, pos.path)[pos.i]

\* Ifs nest no deeper than this, unless the optimizer unrolls a loop for ever.
Nesting == Size

\* The paths to the lists that are not empty.
Paths(l) ==
  LET down[d \in 0 .. Nesting] ==
        IF d = 0 THEN {<<>>}
        ELSE LET above == down[d - 1]
                 below(p) == LET here == ListAt(l, p) IN
                   {Append(p, s) : s \in {s \in [i : DOMAIN here, b : Arms] : here[s.i][s.b] # <<>>}}
             IN above \cup UNION {below(p) : p \in {p \in above : Len(p) = d - 1}}
  IN down[Nesting]

Positions(l) ==
  UNION {{[path |-> p, i |-> i] : i \in 1 .. Len(ListAt(l, p))} : p \in Paths(l)}

\* The order in which every pass visits them: an instruction, its if branch, its
\* else branch, the next instruction.
Trail(pos) ==
  [k \in 1 .. (Len(pos.path) + 1) |->
    IF k > Len(pos.path) THEN 3 * pos.i
    ELSE 3 * pos.path[k].i + IF pos.path[k].b = "collIfBranch" THEN 1 ELSE 2]

Before(p, q) ==
  LET a == Trail(p)
      b == Trail(q)
  IN \E k \in DOMAIN a \cap DOMAIN b : a[k] < b[k] /\ \A m \in 1 .. (k - 1) : a[m] = b[m]

First(places) == CHOOSE p \in places : \A q \in places : q = p \/ Before(p, q)
Final(places) == CHOOSE p \in places : \A q \in places : q = p \/ Before(q, p)

\* The jumps (a branch's own address no longer counts once its if branch has
\* been closed with a jump), and those to an address.
Sources(l) == {p \in Positions(l) : At(l, p).eType = "J"}

SourcesOf(l, addr) == {p \in Sources(l) : At(l, p).uJumpAddress = addr}

Labels(l, addr) == {p \in Positions(l) : At(l, p).uAddress = addr}

\* The instructions that run from a position on, if no jump is taken.
Following(l, pos) ==
  LET n == Len(pos.path)
      after[k \in 0 .. n] ==
        LET here == ListAt(l, SubSeq(pos.path, 1, k)) IN
        SubSeq(here, IF k = n THEN pos.i ELSE pos.path[k + 1].i + 1, Len(here))
        \o IF k = 0 THEN <<>> ELSE after[k - 1]
  IN after[n]

\* A branch without an if branch is printed as an if without a body, and its
\* else branch not at all.
NoBody(x) == x.eType \in BranchTypes /\ x.collIfBranch = <<>>

HasBodies(l) == \A p \in Positions(l) : ~NoBody(At(l, p))

\* Such an if is about the next statement of the C text instead: not a NOP, which
\* prints nothing, and with an if without a body goes what that is about.  (At
\* the end of a block the text is no C; it is taken to go on behind the block.)
SkipStatement(code) ==
  LET ends == {k \in 1 .. Len(code) : code[k].eType # "NOP" /\ ~NoBody(code[k])} IN
  IF ends = {} THEN <<>> ELSE SubSeq(code, MinOf(ends) + 1, Len(code))

\* One step of the generated C: code is what is left to run.
TreeStep(l, c) ==
  LET x == Head(c.code)
      go(code) == [c EXCEPT !.code = code]
      end(how) == [c EXCEPT !.seen = Append(@, <<how, c.r>>), !.over = TRUE]
  IN
  CASE c.over -> c
    [] ~c.over /\ c.code = <<>> -> end("fell off the end")
    [] ~c.over /\ c.code # <<>> /\ NoBody(x) ->
         go(IF Taken(x.eType, c.r) THEN Tail(c.code) ELSE SkipStatement(Tail(c.code)))
    [] ~c.over /\ c.code # <<>> /\ x.eType \in BranchTypes /\ ~NoBody(x) ->
         go((IF Taken(x.eType, c.r) THEN x.collIfBranch ELSE x.collElseBranch) \o Tail(c.code))
    [] ~c.over /\ c.code # <<>> /\ x.eType = "J" ->
         IF Labels(l, x.uJumpAddress) = {} THEN end("no such label")
         ELSE go(Following(l, First(Labels(l, x.uJumpAddress))))
    [] ~c.over /\ c.code # <<>> /\ x.eType = "JR" -> end("return")
    [] ~c.over /\ c.code # <<>> /\ x.eType \notin BranchTypes \cup {"J", "JR"} ->
         [code |-> Tail(c.code), r |-> Step(x.eType, c.r),
          seen |-> c.seen \o Seen(x.eType, c.r), over |-> FALSE]

\* What the generated C has done after each of Fuel steps.
RunTree(l, r) ==
  LET run[k \in 0 .. Fuel] ==
        IF k = 0 THEN [code |-> l, r |-> r, seen |-> <<>>, over |-> FALSE]
        ELSE TreeStep(l, run[k - 1])
  IN run

-----------------------------------------------------------------------------
\* resolveDelaySlots.  (It starts over after each rewrite; the instructions it
\* passes again are marked bDelaySlotReordered.)

\* The slot changes a register the branch reads.  (A definition whose name
\* begins with "Mut" is a mutation of the definition that follows it: what a
\* plausible slip in that code would have written.)
MutdelaySlotClash(slot) == FALSE

delaySlotClash(slot) == slot.eType \in Modifies

\* What becomes of the instruction at i and its slot.
Turned(l, i) ==
  LET x == l[i]
      slot == l[i + 1]
      close == encodeAbsoluteJump(x.uJumpAddress)
      first == [slot EXCEPT !.uAddress = x.uAddress]
      second == [x EXCEPT !.uAddress = slot.uAddress]
  IN
  CASE ~HasDelaySlot(x) -> <<x>>
    [] x.eType \in Likely -> <<[x EXCEPT !.collIfBranch = <<slot, close>>]>>
    [] x.eType \in BranchTypes \ Likely /\ delaySlotClash(slot) ->
         <<[x EXCEPT !.collIfBranch = <<slot, close>>, !.collElseBranch = <<slot>>]>>
    [] x.eType \in BranchTypes \ Likely /\ ~delaySlotClash(slot) ->
         <<first, [second EXCEPT !.collIfBranch = <<close>>]>>
    [] x.eType \in {"J", "JALR", "JR"} -> <<first, second>>

Resolved(l) ==
  LET from[i \in 1 .. (Len(l) + 2)] ==
        IF i > Len(l) THEN <<>>
        ELSE Turned(l, i) \o from[IF HasDelaySlot(l[i]) THEN i + 2 ELSE i + 1]
  IN from[1]

\* getJumpTargets, and markJumpTargets at every address among them.
updateJumpTargets(l) == {At(l, p).uJumpAddress : p \in Sources(l)} \ {0}

bIsJumpTarget(x) == x.uAddress \in jumpTargets

Pass(lists) == \E l \in lists : list' = l /\ jumpTargets' = updateJumpTargets(l)

-----------------------------------------------------------------------------
\* The optimizer's passes.  Each is the set of lists it may leave, empty if it
\* does not apply; a pass rewrites the first place it finds.

FirstOf(places, Rewrite(_)) == IF places = {} THEN {} ELSE {Rewrite(First(places))}

Erase(l, pos) == PutList(l, pos.path, RemoveAt(ListAt(l, pos.path), pos.i))

\* Passes that delete or insert somewhere else only mark it; the main loop then
\* applies the inserts and the deletes.
applyDelayedDeletes(l) ==
  LET marked(t) == {p \in Positions(t) : At(t, p).bDelayedDelete}
      left[n \in 0 .. Cardinality(marked(l))] ==
        IF n = 0 THEN l
        ELSE LET t == left[n - 1] IN
             IF marked(t) = {} THEN t ELSE Erase(t, Final(marked(t)))
  IN left[Cardinality(marked(l))]

deleteDelayed(l, path, from, to) ==
  LET here == ListAt(l, path)
      marked == [k \in 1 .. (to - from + 1) |-> [here[from + k - 1] EXCEPT !.bDelayedDelete = TRUE]]
  IN PutList(l, path, SubSeq(here, 1, from - 1) \o marked \o SubSeq(here, to + 1, Len(here)))

InsertAfter(l, pos, block) ==
  LET here == ListAt(l, pos.path) IN
  PutList(l, pos.path, SubSeq(here, 1, pos.i) \o block \o SubSeq(here, pos.i + 1, Len(here)))

EndsBlock(x) == x.eType \in {"J", "JR"}

\* Where the block after the jump at i ends: the first jump, with no label on
\* the way.
SingleBlockEnds(l, i) ==
  {e \in (i + 2) .. Len(l) : l[e].eType = "J" /\ \A k \in (i + 2) .. e : ~bIsJumpTarget(l[k])}

\* Move a block that only one jump leads to, and nothing falls into, to that
\* jump.
reassembleSingleJumpBlocks ==
  LET places == {p \in Positions(list) :
        LET l == ListAt(list, p.path) IN
        /\ l[p.i].eType = "J"
        /\ p.i < Len(l) /\ bIsJumpTarget(l[p.i + 1])
        /\ SingleBlockEnds(l, p.i) # {}
        /\ Cardinality(SourcesOf(list, l[p.i + 1].uAddress)) = 1}
      move(p) ==
        LET l == ListAt(list, p.path)
            begin == p.i + 1
            end == MinOf(SingleBlockEnds(l, p.i))
            source == First(SourcesOf(list, l[begin].uAddress))
            erased == deleteDelayed(list, p.path, begin, end)
        IN applyDelayedDeletes(
             IF source.path = p.path /\ source.i \in begin .. end THEN erased
             ELSE InsertAfter(deleteDelayed(erased, source.path, source.i, source.i),
                              source, SubSeq(l, begin, end)))
  IN FirstOf(places, move)

\* The instruction a jump that closes the if branch at i leads to, if it comes
\* later in the same list with no label before it.
JoinPoints(l, i) ==
  IF l[i].collIfBranch = <<>> \/ l[i].collElseBranch # <<>>
     \/ Last(l[i].collIfBranch).eType # "J" THEN {}
  ELSE {e \in (i + 1) .. Len(l) :
          /\ l[e].uAddress = Last(l[i].collIfBranch).uJumpAddress
          /\ \A k \in (i + 1) .. (e - 1) :
               /\ ~bIsJumpTarget(l[k])
               /\ l[k].uAddress # Last(l[i].collIfBranch).uJumpAddress}

\* What lies between becomes the else branch, and the jump goes.
detectElseBranch ==
  LET places == {p \in Positions(list) : JoinPoints(ListAt(list, p.path), p.i) # {}}
      move(p) ==
        LET l == ListAt(list, p.path)
            e == MinOf(JoinPoints(l, p.i))
        IN PutList(list, p.path,
             SubSeq(l, 1, p.i - 1)
             \o <<[l[p.i] EXCEPT !.collIfBranch = Front(@),
                                 !.collElseBranch = SubSeq(l, p.i + 1, e - 1)]>>
             \o SubSeq(l, e, Len(l)))
  IN FirstOf(places, move)

\* BGEZ is missing in the code: its assertion fails and the type stays.
InvertedType ==
  [BEQ |-> "BNE", BNE |-> "BEQ", BEQL |-> "BNEL", BNEL |-> "BEQL",
   BGTZ |-> "BLEZ", BLEZ |-> "BGTZ", BLTZ |-> "BGEZ", BGEZ |-> "BGEZ"]

invertCondition(x) == [x EXCEPT !.eType = InvertedType[@]]

OnlyElse ==
  {p \in Positions(list) : At(list, p).collIfBranch = <<>> /\ At(list, p).collElseBranch # <<>>}

detectOnlyElseBranch ==
  FirstOf(OnlyElse, LAMBDA p :
    PutList(list, p.path, [ListAt(list, p.path) EXCEPT
      ![p.i] = [invertCondition(@) EXCEPT !.collIfBranch = At(list, p).collElseBranch,
                                          !.collElseBranch = <<>>]]))

\* removeClosingJump2: inside a branch that is followed by address next, an if
\* that ends with a jump to next gets the rest of the branch as its else.
ClosingJumps(l, next) ==
  {i \in 1 .. (Len(l) - 1) :
     /\ l[i].collIfBranch # <<>> /\ l[i].collElseBranch = <<>>
     /\ Last(l[i].collIfBranch).eType = "J"
     /\ Last(l[i].collIfBranch).uJumpAddress = next}

removeClosingJump2(l, next) ==
  LET i == MinOf(ClosingJumps(l, next)) IN
  Append(SubSeq(l, 1, i - 1),
         [l[i] EXCEPT !.collIfBranch = Front(@), !.collElseBranch = SubSeq(l, i + 1, Len(l))])

\* The pass looks into the branches of an instruction only if a label follows.
LabelFollows(l, i) == i < Len(l) /\ bIsJumpTarget(l[i + 1])

detectEndOfBranchJumps ==
  LET arms(p) == SelectSeq(<<"collIfBranch", "collElseBranch">>, LAMBDA b :
        LET l == ListAt(list, p.path) IN ClosingJumps(l[p.i][b], l[p.i + 1].uAddress) # {})
      places == {p \in Positions(list) :
        /\ \A k \in 1 .. Len(p.path) : LabelFollows(ListAt(list, SubSeq(p.path, 1, k - 1)), p.path[k].i)
        /\ LabelFollows(ListAt(list, p.path), p.i)
        /\ arms(p) # <<>>}
      move(p) ==
        LET l == ListAt(list, p.path) IN
        PutList(list, p.path,
          [l EXCEPT ![p.i][arms(p)[1]] = removeClosingJump2(@, l[p.i + 1].uAddress)])
  IN FirstOf(places, move)

\* Instructions on the stack frame go, or become a NOP if a label is on them.
\* An LW or SW is told by its place in the frame, not by what it is for.
detectEpilogProlog ==
  IF ~bHasStackOffset THEN {}
  ELSE FirstOf({p \in Positions(list) : At(list, p).eType \in {"SP", "SAVE", "RELOAD"}}, LAMBDA p :
         IF bIsJumpTarget(At(list, p))
         THEN PutList(list, p.path, [ListAt(list, p.path) EXCEPT ![p.i].eType = "NOP"])
         ELSE Erase(list, p))

\* (Mutated: labels are not looked at.)
MutstripNops ==
  FirstOf({p \in Positions(list) : At(list, p).eType = "NOP"}, LAMBDA p : Erase(list, p))

stripNops ==
  FirstOf({p \in Positions(list) : At(list, p).eType = "NOP" /\ ~bIsJumpTarget(At(list, p))},
          LAMBDA p : Erase(list, p))

\* An if branch that never reaches its end needs no else.  (Mutated: the else
\* branch is copied out and stays.)
EndingIf ==
  {p \in Positions(list) :
     /\ At(list, p).collIfBranch # <<>> /\ At(list, p).collElseBranch # <<>>
     /\ EndsBlock(Last(At(list, p).collIfBranch))}

MutdetectEndingIfBranch ==
  FirstOf(EndingIf, LAMBDA p : InsertAfter(list, p, At(list, p).collElseBranch))

detectEndingIfBranch ==
  FirstOf(EndingIf, LAMBDA p :
    InsertAfter(PutList(list, p.path, [ListAt(list, p.path) EXCEPT ![p.i].collElseBranch = <<>>]),
                p, At(list, p).collElseBranch))

\* The two branches end with the same instruction: it moves behind them.
\* isSame also compares uSA, which nobody has set in an instruction that is not
\* a shift, so each pair may or may not be found equal.
isSame(x, y) == x.eType = y.eType /\ x.uJumpAddress = y.uJumpAddress

detectIdenticalIfElseBranch ==
  LET same(x) ==
        /\ x.collIfBranch # <<>> /\ x.collElseBranch # <<>>
        /\ Last(x.collIfBranch).collIfBranch = <<>> /\ Last(x.collElseBranch).collIfBranch = <<>>
        /\ isSame(Last(x.collIfBranch), Last(x.collElseBranch))
      move(p) ==
        InsertAfter(PutList(list, p.path, [ListAt(list, p.path) EXCEPT
                      ![p.i].collIfBranch = Front(@), ![p.i].collElseBranch = Front(@)]),
                    p, <<Last(At(list, p).collIfBranch)>>)
  IN {move(p) : p \in {q \in Positions(list) : same(At(list, q))}}

getInstructionCount(block) ==
  Cardinality({p \in Positions(block) : At(block, p).eType # "NOP"})

\* A small block a jump leads to is copied in place of the last jump to it.
\* That jump is marked for deletion before the copy is made, so a jump that is
\* part of the block is deleted in the copy too.
detectAndCloneSmallBlocks ==
  LET ends(l, i) == {e \in i .. Len(l) : EndsBlock(l[e])}
      places == {p \in Positions(list) :
        LET l == ListAt(list, p.path) IN
        /\ bIsJumpTarget(l[p.i])
        /\ ends(l, p.i) # {}
        /\ getInstructionCount(SubSeq(l, p.i, MinOf(ends(l, p.i)))) <= CloneLimit}
      clone(p) ==
        LET source == Final(SourcesOf(list, At(list, p).uAddress))
            marked == deleteDelayed(list, source.path, source.i, source.i)
            l == ListAt(marked, p.path)
        IN applyDelayedDeletes(InsertAfter(marked, source, SubSeq(l, p.i, MinOf(ends(l, p.i)))))
  IN FirstOf(places, clone)

-----------------------------------------------------------------------------
Init ==
  /\ prog \in Programs
  /\ list = [i \in 1 .. Size |-> Parse(prog[i].t, i, prog[i].j)]
  /\ jumpTargets = {}
  /\ bHasStackOffset = FALSE
  /\ uOptimizationPasses = 0
  /\ asserts = {}
  /\ phase = "parsed"

\* The first instruction of encodeAbsoluteJump asserts that the target is known.
resolveDelaySlots ==
  LET l == Resolved(list) IN
  /\ phase = "parsed" /\ phase' = "optimize"
  /\ Pass({l})
  /\ bHasStackOffset' = (\E i \in 1 .. Len(l) : l[i].eType = "SP")
  /\ asserts' = {w \in {"target"} : \E i \in 1 .. Len(l) :
                   l[i].eType \in BranchTypes /\ l[i].uJumpAddress = 0}
  /\ UNCHANGED <<prog, uOptimizationPasses>>

\* The passes, in the order they are tried.
Passes ==
  <<reassembleSingleJumpBlocks, detectElseBranch, detectOnlyElseBranch, detectEndOfBranchJumps,
    detectEpilogProlog, stripNops, detectEndingIfBranch, detectIdenticalIfElseBranch,
    detectAndCloneSmallBlocks>>

\* One turn of the main loop: the first pass that applies, then the new labels.
\* Whether detectIdenticalIfElseBranch applies is open (see isSame), so what
\* comes after it may happen either way.
optimizeInstructions ==
  \E result \in {Passes} :
    LET before(n) == \A m \in 1 .. (n - 1) : m # 8 => result[m] = {} IN
    /\ phase = "optimize"
    /\ UNCHANGED <<prog, bHasStackOffset>>
    /\ \/ \E n \in 1 .. 9 :
            /\ before(n) /\ Pass(result[n])
            /\ asserts' = asserts \cup
                 {w \in {"invert"} : n = 3 /\ At(list, First(OnlyElse)).eType = "BGEZ"}
            /\ uOptimizationPasses' = uOptimizationPasses + 1
            /\ phase' = phase
       \/ /\ before(10)
          /\ phase' = "generate"
          /\ UNCHANGED <<list, jumpTargets, uOptimizationPasses, asserts>>

\* generateCode asserts that an if has a body.
generateCode ==
  /\ phase = "generate" /\ phase' = "done"
  /\ asserts' = asserts \cup {w \in {"body"} : ~HasBodies(list)}
  /\ UNCHANGED <<prog, list, jumpTargets, bHasStackOffset, uOptimizationPasses>>

\* The program has ended.
Finished == phase = "done" /\ UNCHANGED vars

Next == resolveDelaySlots \/ optimizeInstructions \/ generateCode \/ Finished

Spec == Init /\ [][Next]_vars

-----------------------------------------------------------------------------
\* Every tree the optimizer goes through (optimize.cpp) does what the machine
\* instructions did: the same stores, calls and return, in the same order with
\* the same register, whichever way the branches go.  The delay slots that
\* resolveDelaySlots moved have run exactly when the processor runs them, and
\* no pass moved code across a label that some jump still leads to.  Of a tree
\* with an if that has no body this is not asked: some are on their way to one
\* that has, and those that are printed are what NoAssert is about.
SameBehaviour ==
  phase # "parsed" /\ HasBodies(list) =>
    \A r \in {-1, 0, 1} :
      LET t == RunTree(list, r)[Fuel]
          m == RunMips(prog, r)[Fuel]
      IN /\ IsPrefix(t.seen, m.seen) \/ IsPrefix(m.seen, t.seen)
         /\ t.over => IsPrefix(m.seen, t.seen)
         /\ m.over => IsPrefix(t.seen, m.seen)
         /\ Direction = "forward" => t.over /\ m.over

\* Every goto generateInstructionCode prints has exactly one label to go to,
\* although blocks are copied with their addresses (detectAndCloneSmallBlocks)
\* and labelled instructions are deleted (stripEpilogProlog, stripNops).
LabelsUnique ==
  phase = "done" =>
    \A p \in Sources(list) : Cardinality(Labels(list, At(list, p).uJumpAddress)) = 1

\* The main loop, "while(optimizeInstructions(aFunction))" (mipsdec.cpp 42),
\* comes to an end, although some passes undo what others do (an else branch is
\* made by detectElseBranch and dissolved by detectEndingIfBranch) and one adds
\* instructions: there is a bound on the passes, and the run finds no deadlock.
PassesBounded == uOptimizationPasses <= 2 * Size

\* No M_ASSERT fails: every closing jump has a target (instruction.cpp 105),
\* every condition to be inverted has an inverse (optimize.cpp 324) and every
\* if that is printed has a body (codegen.cpp 387): an assertion only prints a
\* message (mipsdec.cpp 9), and the C that is written goes on.
NoAssert == asserts = {}
=============================================================================
