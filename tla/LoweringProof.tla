--------------------------- MODULE LoweringProof ---------------------------
(***************************************************************************)
(* Proofs about ControlLowering, for functions of any size and nesting:    *)
(* the blocks the lowering leaves, what running them does, and the         *)
(* deferred statements they run.                                           *)
(***************************************************************************)
EXTENDS ControlLowering, NaturalsInduction, WellFoundedInduction, TLAPS

-----------------------------------------------------------------------------
(* The inductive invariant: the blocks bs, the current one cu, the frames  *)
(* fs of the constructs being lowered.                                     *)

(* The function starts at c, or some block jumps there.                    *)
Aimed(bs, c) == c = Entry \/ \E b \in 1..Len(bs) : c \in bs[b].term.to

(* What is done is well formed, and nothing leads to an unreachable block. *)
GraphInOrder(bs) ==
  /\ \A c : Aimed(bs, c) => c \in 1..Len(bs) /\ bs[c].term.kind # "unreachable"
  /\ \A b \in 1..Len(bs) :
       /\ bs[b].term.kind # "br" => bs[b].term.to = {}
       /\ bs[b].term.kind = "ret" => bs[b].term.value = IF ReturnsValue THEN b ELSE NoBlock

(* Block b is waiting for its turn in the construct of frame f.            *)
Waits(f, b) ==
  \/ f.kind \in {"then", "else", "loop", "switch", "case"} /\ b = f.merge
  \/ f.kind = "then" /\ b = f.other
  \/ f.kind = "loop" /\ f.other # f.cond /\ b = f.other
  \/ f.kind = "switch" /\ f.other <= b /\ b < f.other + f.cases
  \/ f.kind = "case" /\ f.other < b /\ b < f.other + f.cases

(* Some path of the construct reaches its merge block already.             *)
Joins(f) == IF f.kind = "then" THEN f.other = f.merge ELSE f.falls

FrameInOrder(bs, f) ==
  /\ f.kind = "loop" => f.cond \in 1..Len(bs) /\ bs[f.cond].term.kind = "br" /\ f.merge # f.other
  /\ f.kind \in {"switch", "case"} => f.merge < f.other
  /\ f.kind = "case" => f.cases > 0
  /\ f.kind \in {"then", "else", "switch", "case"} /\ Aimed(bs, f.merge) => Joins(f)
  /\ f.falls => f.reach
  /\ f.loop_state.hasBreak => f.loop_state.sawBreak

(* The blocks that wait do so once and untouched; only they and the        *)
(* current one are open.                                                   *)
WaitingInOrder(bs, cu, fs) ==
  /\ \A i \in 1..Len(fs) : \A b \in Nat : Waits(fs[i], b) => b \in 1..Len(bs) /\ b # cu /\ bs[b].term.kind = "none" /\ bs[b].ops = <<>>
  /\ \A i, j \in 1..Len(fs) : \A b \in Nat : Waits(fs[i], b) /\ Waits(fs[j], b) => i = j
  /\ \A b \in 1..Len(bs) : bs[b].term.kind = "none" => b = cu \/ \E i \in 1..Len(fs) : Waits(fs[i], b)

FramesInOrder(bs, cu, fs) ==
  /\ Len(fs) > 0
  /\ \A i \in 1..Len(fs) : FrameInOrder(bs, fs[i]) /\ (fs[i].kind = "function" <=> i = 1)
  /\ \A i \in 1..(Len(fs) - 1) : fs[i].kind # "switch" /\ ~ fs[i].left
  /\ \A i, j \in 1..Len(fs) : i <= j => fs[i].base <= fs[j].base
  /\ fs[Len(fs)].kind = "switch" => bs[cu].term.kind # "none"

(* ls is the loop state inside the first n frames: that of the innermost   *)
(* loop among them.                                                        *)
OfLoop(bs, ls, f) ==
  /\ ls.brk = f.merge /\ ls.cont = f.other /\ ls.base = f.base
  /\ Aimed(bs, f.merge) => ~ f.always \/ ls.hasBreak
InLoop(bs, fs, ls, n) ==
  /\ ls.inside => \E k \in 1..n : fs[k].kind = "loop" /\ \A m \in (k + 1)..n : fs[m].kind # "loop"
  /\ \A k \in 1..n : fs[k].kind = "loop" /\ (\A m \in (k + 1)..n : fs[m].kind # "loop") => ls.inside /\ OfLoop(bs, ls, fs[k])
LoopsInOrder(bs, fs, ls) ==
  /\ InLoop(bs, fs, ls, Len(fs))
  /\ \A j \in 1..Len(fs) : fs[j].kind = "loop" => InLoop(bs, fs, fs[j].loop_state, j - 1)
  /\ ls.hasBreak => ls.sawBreak

UnwindInOrder(u, fs, df, ls, cu) ==
  /\ fs[Len(fs)].base <= Len(df)
  /\ u.why # "idle" => fs[Len(fs)].kind # "switch" /\ u.base <= u.next /\ u.next <= Len(df)
  /\ u.why = "block" => fs[Len(fs)].left /\ u.base = fs[Len(fs)].base
  /\ u.why \notin {"idle", "block"} => ~ fs[Len(fs)].left
  /\ u.why \in {"break", "continue"} => ls.inside /\ u.base = ls.base
  /\ u.why = "break" => ls.hasBreak
  /\ u.why = "return" => u.base = 0
  /\ u.why = "return" /\ (Len(df) = 0 \/ ~ReturnsValue) => u.value = IF ReturnsValue THEN cu ELSE NoBlock

LoweringInOrder ==
  /\ WaitingInOrder(blocks, cur, constructs)
  /\ FramesInOrder(blocks, cur, constructs)
  /\ LoopsInOrder(blocks, constructs, loop_state)
  /\ UnwindInOrder(unwind, constructs, deferred, loop_state, cur)
  /\ unwind.why \in {"idle", "block"} /\ Open => reachable
  /\ pc = [block |-> Entry, next |-> 1] /\ live = <<>>
RunInOrder == pc.block \in 1..Len(blocks) /\ Aimed(blocks, pc.block)

BuildInv ==
  /\ LoweringTypeOK
  /\ GraphInOrder(blocks)
  /\ Lowering => LoweringInOrder
  /\ RunInOrder

-----------------------------------------------------------------------------
(* Types. *)

LEMMA Constants == /\ ReturnsValue \in BOOLEAN /\ BareCases \in BOOLEAN /\ DeferKinds \subseteq AllDeferKinds
                   /\ MaxBlocks \in Nat /\ MaxDefers \in Nat /\ MaxNesting \in Nat /\ MaxCases \in Nat
  BY LoweringAssumption

LEMMA BlockTypes ==
  ASSUME NEW bs \in Seq(Block)
  PROVE  /\ Len(bs) \in Nat /\ DOMAIN bs = 1..Len(bs)
         /\ \A b \in 1..Len(bs) :
              /\ bs[b] \in Block /\ bs[b].ops \in Seq(Op) /\ Len(bs[b].ops) \in Nat /\ bs[b].entry \in Seq(Defer)
              /\ bs[b].term \in Term /\ bs[b].term.kind \in TermKinds /\ bs[b].term.to \subseteq BlockId
  <1>1. Len(bs) \in Nat /\ DOMAIN bs = 1..Len(bs) /\ \A b \in 1..Len(bs) : bs[b] \in Block
    OBVIOUS
  <1>2. \A x \in Block : /\ x.ops \in Seq(Op) /\ Len(x.ops) \in Nat /\ x.entry \in Seq(Defer)
                       /\ x.term \in Term /\ x.term.kind \in TermKinds /\ x.term.to \subseteq BlockId
    BY DEF Block, Term
  <1> QED BY <1>1, <1>2

LEMMA FrameTypes ==
  ASSUME NEW fs \in Seq(ConstructFrame)
  PROVE  /\ Len(fs) \in Nat /\ DOMAIN fs = 1..Len(fs)
         /\ \A i \in 1..Len(fs) :
              /\ fs[i] \in ConstructFrame /\ fs[i].kind \in FrameKinds /\ fs[i].left \in BOOLEAN
              /\ fs[i].base \in Nat /\ fs[i].merge \in Nat /\ fs[i].other \in Nat /\ fs[i].cond \in Nat /\ fs[i].cases \in Nat
              /\ fs[i].always \in BOOLEAN /\ fs[i].falls \in BOOLEAN /\ fs[i].reach \in BOOLEAN /\ fs[i].loop_state \in LoopState
  <1>1. Len(fs) \in Nat /\ DOMAIN fs = 1..Len(fs) /\ \A i \in 1..Len(fs) : fs[i] \in ConstructFrame
    OBVIOUS
  <1>2. \A f \in ConstructFrame :
          /\ f.kind \in FrameKinds /\ f.left \in BOOLEAN
          /\ f.base \in Nat /\ f.merge \in Nat /\ f.other \in Nat /\ f.cond \in Nat /\ f.cases \in Nat
          /\ f.always \in BOOLEAN /\ f.falls \in BOOLEAN /\ f.reach \in BOOLEAN /\ f.loop_state \in LoopState
    BY DEF ConstructFrame
  <1> QED BY <1>1, <1>2

LEMMA TermTypes ==
  /\ OpenTerm \in Term /\ UnreachableTerm \in Term
  /\ \A to \in SUBSET BlockId : Br(to) \in Term
  /\ \A v \in Nat : Ret(v) \in Term
  /\ OpenTerm.kind = "none" /\ OpenTerm.to = {} /\ UnreachableTerm.kind = "unreachable" /\ UnreachableTerm.to = {}
  /\ \A to : Br(to).kind = "br" /\ Br(to).to = to
  /\ \A v : Ret(v).kind = "ret" /\ Ret(v).to = {} /\ Ret(v).value = v
  BY DEF OpenTerm, UnreachableTerm, Br, Ret, Term, TermKinds, NoBlock

-----------------------------------------------------------------------------
(* Changes to the blocks. *)

(* bs2 is bs with the terminator t in block b.                             *)
LEMMA SetTermIs ==
  ASSUME NEW bs \in Seq(Block), NEW b \in 1..Len(bs), NEW t \in Term
  PROVE  LET bs2 == SetTerm(bs, b, t) IN
         /\ bs2 \in Seq(Block) /\ Len(bs2) = Len(bs)
         /\ bs2[b].term = t /\ bs2[b].ops = bs[b].ops /\ bs2[b].entry = bs[b].entry
         /\ \A c \in 1..Len(bs) : c # b => bs2[c] = bs[c]
  <1>1. bs \in [1..Len(bs) -> Block] /\ bs[b] \in Block
    OBVIOUS
  <1>2. [bs[b] EXCEPT !.term = t] \in Block
    BY <1>1 DEF Block
  <1> QED BY <1>1, <1>2 DEF SetTerm, Block

LEMMA EmitIs ==
  ASSUME NEW bs \in Seq(Block), NEW b \in 1..Len(bs), NEW o \in {"reg", "run"}, NEW d \in Defer
  PROVE  LET bs2 == Emit(bs, b, o, d) IN
         /\ bs2 \in Seq(Block) /\ Len(bs2) = Len(bs)
         /\ bs2[b].term = bs[b].term /\ bs2[b].ops = Append(bs[b].ops, [op |-> o, defer |-> d]) /\ bs2[b].entry = bs[b].entry
         /\ \A c \in 1..Len(bs) : c # b => bs2[c] = bs[c]
  <1>1. bs \in [1..Len(bs) -> Block] /\ bs[b] \in Block
    OBVIOUS
  <1>2. Append(bs[b].ops, [op |-> o, defer |-> d]) \in Seq(Op)
    BY <1>1 DEF Block, Op
  <1>3. [bs[b] EXCEPT !.ops = Append(@, [op |-> o, defer |-> d])] \in Block
    BY <1>1, <1>2 DEF Block
  <1> QED BY <1>1, <1>3 DEF Emit, Block

LEMMA AddBlocksIs ==
  ASSUME NEW bs \in Seq(Block), NEW n \in Nat, NEW lexical \in Seq(Defer)
  PROVE  LET bs2 == AddBlocks(bs, n, lexical) IN
         /\ bs2 \in Seq(Block) /\ Len(bs2) = Len(bs) + n
         /\ \A c \in 1..Len(bs) : bs2[c] = bs[c]
         /\ \A c \in 1..Len(bs2) : c > Len(bs) => bs2[c].term = OpenTerm /\ bs2[c].ops = <<>> /\ bs2[c].entry = lexical
  <1> DEFINE new == [ops |-> <<>>, term |-> OpenTerm, entry |-> lexical]
             more == [i \in 1..n |-> new]
  <1>1. new \in Block
    BY TermTypes DEF Block
  <1>2. more \in Seq(Block) /\ Len(more) = n /\ \A i \in 1..n : more[i] = new
    BY <1>1
  <1>3. AddBlocks(bs, n, lexical) = bs \o more
    BY DEF AddBlocks
  <1>4. new.ops = <<>> /\ new.term = OpenTerm /\ new.entry = lexical
    OBVIOUS
  <1> HIDE DEF new, more
  <1>5. /\ bs \o more \in Seq(Block) /\ Len(bs \o more) = Len(bs) + n
        /\ \A c \in 1..Len(bs) : (bs \o more)[c] = bs[c]
        /\ \A c \in 1..(Len(bs) + n) : c > Len(bs) => (bs \o more)[c] = more[c - Len(bs)] /\ c - Len(bs) \in 1..n
    BY <1>2
  <1> QED BY <1>2, <1>3, <1>4, <1>5

(* Where the jumps of the new blocks lead.                                 *)
LEMMA AimedSame ==
  ASSUME NEW bs \in Seq(Block), NEW bs2 \in Seq(Block), Len(bs) <= Len(bs2),
         \A b \in 1..Len(bs) : bs2[b].term = bs[b].term,
         \A b \in 1..Len(bs2) : b > Len(bs) => bs2[b].term.to = {}
  PROVE  \A c : Aimed(bs2, c) <=> Aimed(bs, c)
  <1>1. Len(bs) \in Nat /\ Len(bs2) \in Nat
    OBVIOUS
  <1> QED BY <1>1 DEF Aimed

LEMMA AimedMore ==
  ASSUME NEW bs \in Seq(Block), NEW b \in 1..Len(bs), NEW t \in Term, bs[b].term.to = {}
  PROVE  \A c : Aimed(SetTerm(bs, b, t), c) <=> Aimed(bs, c) \/ c \in t.to
  <1> DEFINE bs2 == SetTerm(bs, b, t)
  <1>1. /\ Len(bs2) = Len(bs) /\ bs2[b].term = t /\ \A c \in 1..Len(bs) : c # b => bs2[c] = bs[c]
    BY SetTermIs
  <1> HIDE DEF bs2
  <1>2. \A c : Aimed(bs2, c) <=> Aimed(bs, c) \/ c \in t.to
    BY <1>1 DEF Aimed
  <1> QED BY <1>2 DEF bs2

-----------------------------------------------------------------------------
(* A step leaves the frames below the top one alone, and touches only the  *)
(* current block and blocks that waited in the top frame, the set C.       *)

Touches(bs, cu, fs, C) == \A b \in C : b = cu \/ Waits(fs[Len(fs)], b)
Beneath(fs, fs2) == \A i \in 1..(Len(fs2) - 1) : i <= Len(fs) /\ fs2[i] = fs[i]

(* The step closes what it touches, but for the new current block; the     *)
(* others of the top frame go on waiting there, or in its successor.       *)
LEMMA WaitStep ==
  ASSUME NEW bs \in Seq(Block), NEW bs2 \in Seq(Block), NEW cu \in 1..Len(bs), NEW cu2 \in 1..Len(bs2),
         NEW fs \in Seq(ConstructFrame), NEW fs2 \in Seq(ConstructFrame), NEW C \in SUBSET Nat,
         WaitingInOrder(bs, cu, fs), Len(fs) > 0, Len(bs) <= Len(bs2), Touches(bs, cu, fs, C),
         Len(fs2) \in (Len(fs) - 1)..(Len(fs) + 1),
         \A i \in 1..Len(fs2) : i < Len(fs) => \A b \in Nat : Waits(fs2[i], b) <=> Waits(fs[i], b),
         cu2 \in C \cup {cu} \/ cu2 > Len(bs),
         \A b \in 1..Len(bs) : b \notin C => bs2[b].term.kind = bs[b].term.kind /\ (b = cu \/ bs2[b].ops = bs[b].ops),
         \A b \in C \cup {cu} : b # cu2 => bs2[b].term.kind # "none",
         IF Len(fs2) < Len(fs) THEN \A b \in Nat : Waits(fs[Len(fs)], b) => b \in C
           ELSE \A b \in Nat : Waits(fs2[Len(fs)], b) <=> Waits(fs[Len(fs)], b) /\ b \notin C,
         Len(fs2) > Len(fs) => \A b \in Nat : Waits(fs2[Len(fs2)], b) =>
           b \in (Len(bs) + 1)..Len(bs2) /\ b # cu2 /\ bs2[b].term.kind = "none" /\ bs2[b].ops = <<>>,
         \A b \in 1..Len(bs2) : b > Len(bs) /\ b # cu2 /\ bs2[b].term.kind = "none" =>
           Len(fs2) > Len(fs) /\ Waits(fs2[Len(fs2)], b)
  PROVE  WaitingInOrder(bs2, cu2, fs2)
  <1> DEFINE n == Len(fs)  n2 == Len(fs2)  l == Len(bs)  l2 == Len(bs2)
  <1>1. n \in Nat /\ n2 \in Nat /\ l \in Nat /\ l2 \in Nat /\ n2 \in (n - 1)..(n + 1) /\ n > 0 /\ l <= l2
    OBVIOUS
  <1>2. /\ \A i \in 1..n : \A b \in Nat : Waits(fs[i], b) => b \in 1..l /\ b # cu /\ bs[b].term.kind = "none" /\ bs[b].ops = <<>>
        /\ \A i, j \in 1..n : \A b \in Nat : Waits(fs[i], b) /\ Waits(fs[j], b) => i = j
        /\ \A b \in 1..l : bs[b].term.kind = "none" => b = cu \/ \E i \in 1..n : Waits(fs[i], b)
    BY DEF WaitingInOrder
  <1>3. /\ \A i \in 1..n2 : i < n => \A b \in Nat : Waits(fs2[i], b) <=> Waits(fs[i], b)
        /\ IF n2 < n THEN \A b \in Nat : Waits(fs[n], b) => b \in C ELSE \A b \in Nat : Waits(fs2[n], b) <=> Waits(fs[n], b) /\ b \notin C
        /\ n2 > n => \A b \in Nat : Waits(fs2[n2], b) => b \in (l + 1)..l2 /\ b # cu2 /\ bs2[b].term.kind = "none" /\ bs2[b].ops = <<>>
        /\ \A b \in 1..l2 : b > l /\ b # cu2 /\ bs2[b].term.kind = "none" => n2 > n /\ Waits(fs2[n2], b)
        /\ \A b \in 1..l : b \notin C => bs2[b].term.kind = bs[b].term.kind /\ (b = cu \/ bs2[b].ops = bs[b].ops)
        /\ \A b \in C \cup {cu} : b # cu2 => bs2[b].term.kind # "none"
        /\ cu2 \in C \cup {cu} \/ cu2 > l
        /\ \A b \in C : b = cu \/ Waits(fs[n], b)
    BY DEF Touches
  <1> HIDE DEF n, n2, l, l2
  <1>4. \A i \in 1..n2 : i <= n => \A b \in Nat : Waits(fs2[i], b) => Waits(fs[i], b) /\ b \notin C
    <2> SUFFICES ASSUME NEW i \in 1..n2, i <= n, NEW b \in Nat, Waits(fs2[i], b) PROVE Waits(fs[i], b) /\ b \notin C
      OBVIOUS
    <2>1. CASE i < n
      <3>1. Waits(fs[i], b) /\ i \in 1..n /\ n \in 1..n
        BY <1>1, <1>3, <2>1
      <3>2. b # cu /\ ~Waits(fs[n], b)
        BY SMTT(60), <1>1, <1>2, <2>1, <3>1
      <3> QED BY <1>3, <3>1, <3>2
    <2>2. CASE i = n
      BY <1>1, <1>3, <2>2
    <2> QED BY SMTT(60), <1>1, <2>1, <2>2
  <1>5. ASSUME NEW i \in 1..n2, NEW b \in Nat, Waits(fs2[i], b)
        PROVE  b \in 1..l2 /\ b # cu2 /\ bs2[b].term.kind = "none" /\ bs2[b].ops = <<>>
    <2>1. CASE i <= n
      <3>1. Waits(fs[i], b) /\ b \notin C /\ i \in 1..n
        BY SMTT(60), <1>1, <1>4, <1>5, <2>1
      <3>2. b \in 1..l /\ b # cu /\ bs[b].term.kind = "none" /\ bs[b].ops = <<>>
        BY <1>2, <3>1
      <3> QED BY SMTT(60), <1>1, <1>3, <3>1, <3>2
    <2>2. CASE i = n2 /\ n2 > n
      <3>1. b \in (l + 1)..l2 /\ b # cu2 /\ bs2[b].term.kind = "none" /\ bs2[b].ops = <<>>
        BY <1>3, <1>5, <2>2
      <3> QED BY <1>1, <3>1
    <2> QED BY SMTT(60), <1>1, <2>1, <2>2
  <1>6. ASSUME NEW i \in 1..n2, NEW j \in 1..n2, NEW b \in Nat, Waits(fs2[i], b), Waits(fs2[j], b)
        PROVE  i = j
    <2>1. CASE i <= n /\ j <= n
      <3>1. Waits(fs[i], b) /\ Waits(fs[j], b) /\ i \in 1..n /\ j \in 1..n
        BY <1>1, <1>4, <1>6, <2>1
      <3> QED BY <1>2, <3>1
    <2>2. ASSUME NEW k \in 1..n2, Waits(fs2[k], b), k <= n PROVE b <= l
      <3>1. Waits(fs[k], b)
        BY <1>4, <2>2
      <3>2. k \in 1..n
        BY <1>1, <2>2
      <3> QED BY <1>1, <1>2, <3>1, <3>2
    <2>3. ASSUME NEW k \in 1..n2, Waits(fs2[k], b), ~(k <= n) PROVE b > l /\ k = n2
      <3>1. k = n2 /\ n2 > n
        BY SMTT(60), <1>1, <2>3
      <3>2. b \in (l + 1)..l2
        BY <1>3, <2>3, <3>1
      <3> QED BY <1>1, <3>1, <3>2
    <2>4. CASE ~(i <= n) /\ ~(j <= n)
      BY <1>6, <2>3, <2>4
    <2>5. ~((i <= n) /\ ~(j <= n)) /\ ~(~(i <= n) /\ (j <= n))
      <3>1. ~(b <= l /\ b > l)
        BY <1>1
      <3> QED BY <1>6, <2>2, <2>3, <3>1
    <2> QED BY <2>1, <2>4, <2>5
  <1>7. ASSUME NEW b \in 1..l2, bs2[b].term.kind = "none", b # cu2
        PROVE  \E i \in 1..n2 : Waits(fs2[i], b)
    <2>1. CASE b > l
      BY <1>1, <1>3, <1>7, <2>1
    <2>2. CASE b <= l
      <3>1. b \notin C /\ b # cu /\ b \in 1..l /\ b \in Nat
        BY <1>1, <1>3, <1>7, <2>2
      <3>2. bs[b].term.kind = "none"
        BY <1>3, <1>7, <3>1
      <3>3. PICK i \in 1..n : Waits(fs[i], b)
        BY <1>2, <3>1, <3>2
      <3>4. i \in 1..n2 /\ Waits(fs2[i], b)
        BY <1>1, <1>3, <3>1, <3>3
      <3> QED BY <3>4
    <2> QED BY <1>1, <2>1, <2>2
  <1> QED BY <1>5, <1>6, <1>7 DEF WaitingInOrder, n, n2, l, l2

(* Jumps are only added, to the blocks of X.                               *)
Grows(bs, bs2, X) ==
  /\ Len(bs) <= Len(bs2)
  /\ \A b \in 1..Len(bs) : bs[b].term.kind = "br" => bs2[b].term.kind = "br"
  /\ \A c : Aimed(bs2, c) => Aimed(bs, c) \/ c \in X

LEMMA FrameStays ==
  ASSUME NEW bs \in Seq(Block), NEW bs2 \in Seq(Block), NEW X, Grows(bs, bs2, X), NEW f \in ConstructFrame, FrameInOrder(bs, f),
         f.kind \in {"then", "else", "switch", "case"} => f.merge \notin X \/ Joins(f)
  PROVE  FrameInOrder(bs2, f)
  <1>1. Len(bs) \in Nat /\ Len(bs2) \in Nat
    OBVIOUS
  <1>2. Aimed(bs2, f.merge) => Aimed(bs, f.merge) \/ f.merge \in X
    BY DEF Grows
  <1>3. f.kind = "loop" => f.cond \in 1..Len(bs2) /\ bs2[f.cond].term.kind = "br" /\ f.merge # f.other
    BY <1>1 DEF FrameInOrder, Grows
  <1> QED BY <1>2, <1>3 DEF FrameInOrder

(* Blocks that wait below the top frame are not among the targets.         *)
LEMMA LowerMerges ==
  ASSUME NEW bs \in Seq(Block), NEW cu, NEW fs \in Seq(ConstructFrame), WaitingInOrder(bs, cu, fs), NEW i \in 1..Len(fs),
         fs[i].kind \in {"then", "else", "loop", "switch", "case"}, NEW c \in Nat,
         \/ c > Len(bs) \/ (c \in 1..Len(bs) /\ bs[c].term.kind # "none") \/ (i < Len(fs) /\ Waits(fs[Len(fs)], c))
  PROVE  fs[i].merge # c
  <1>1. Len(fs) \in Nat /\ Len(bs) \in Nat /\ fs[i].merge \in Nat
    BY FrameTypes
  <1>2. Waits(fs[i], fs[i].merge)
    BY DEF Waits
  <1>3. fs[i].merge \in 1..Len(bs) /\ bs[fs[i].merge].term.kind = "none"
    BY <1>1, <1>2 DEF WaitingInOrder
  <1>4. i < Len(fs) => ~Waits(fs[Len(fs)], fs[i].merge)
    BY <1>1, <1>2 DEF WaitingInOrder
  <1> QED BY <1>1, <1>3, <1>4

LEMMA FramesStep ==
  ASSUME NEW bs \in Seq(Block), NEW bs2 \in Seq(Block), NEW cu, NEW cu2, NEW X,
         NEW fs \in Seq(ConstructFrame), NEW fs2 \in Seq(ConstructFrame),
         FramesInOrder(bs, cu, fs), Grows(bs, bs2, X), Len(fs2) \in 1..(Len(fs) + 1), Beneath(fs, fs2),
         \A i \in 1..(Len(fs2) - 1) : fs[i].kind \in {"then", "else", "switch", "case"} => fs[i].merge \notin X,
         Len(fs2) > Len(fs) => fs[Len(fs)].kind # "switch" /\ ~ fs[Len(fs)].left,
         FrameInOrder(bs2, fs2[Len(fs2)]), fs2[Len(fs2)].kind = "function" <=> Len(fs2) = 1,
         Len(fs2) > 1 => fs[Len(fs2) - 1].base <= fs2[Len(fs2)].base,
         fs2[Len(fs2)].kind = "switch" => bs2[cu2].term.kind # "none"
  PROVE  FramesInOrder(bs2, cu2, fs2)
  <1> DEFINE n == Len(fs)  n2 == Len(fs2)
  <1>1. n \in Nat /\ n2 \in 1..(n + 1) /\ n > 0
    BY FrameTypes DEF FramesInOrder
  <1>2. \A i \in 1..(n2 - 1) : i \in 1..n /\ fs2[i] = fs[i]
    BY <1>1 DEF Beneath
  <1>3. \A i \in 1..n : FrameInOrder(bs, fs[i]) /\ (fs[i].kind = "function" <=> i = 1) /\ fs[i] \in ConstructFrame
    BY FrameTypes DEF FramesInOrder
  <1>4. /\ \A i \in 1..(n - 1) : fs[i].kind # "switch" /\ ~ fs[i].left
        /\ \A i, j \in 1..n : i <= j => fs[i].base <= fs[j].base
    BY DEF FramesInOrder
  <1>5. ASSUME NEW i \in 1..(n2 - 1) PROVE FrameInOrder(bs2, fs2[i]) /\ (fs2[i].kind = "function" <=> i = 1)
    <2>1. i \in 1..n /\ fs2[i] = fs[i]
      BY <1>2
    <2>2. FrameInOrder(bs, fs[i]) /\ fs[i] \in ConstructFrame /\ (fs[i].kind = "function" <=> i = 1)
      BY <1>3, <2>1
    <2>3. FrameInOrder(bs2, fs[i])
      BY <2>2, FrameStays
    <2> QED BY <2>1, <2>2, <2>3
  <1>6. ASSUME NEW i \in 1..(n2 - 1) PROVE fs2[i].kind # "switch" /\ ~ fs2[i].left
    <2>1. i \in 1..n /\ fs2[i] = fs[i]
      BY <1>2
    <2>2. fs[i].kind # "switch" /\ ~ fs[i].left
      BY <1>1, <1>4, <2>1
    <2> QED BY <2>1, <2>2
  <1>7. ASSUME NEW i \in 1..n2 PROVE FrameInOrder(bs2, fs2[i]) /\ (fs2[i].kind = "function" <=> i = 1)
    <2>1. i = n2 \/ i \in 1..(n2 - 1)
      BY <1>1
    <2> QED BY <1>5, <2>1
  <1>8. ASSUME NEW i \in 1..n2, NEW j \in 1..n2, i <= j PROVE fs2[i].base <= fs2[j].base
    <2>1. \A k \in 1..n2 : fs2[k].base \in Nat
      BY FrameTypes
    <2>2. CASE j = n2 /\ i # n2
      <3>1. i \in 1..(n2 - 1) /\ n2 - 1 \in 1..n /\ n2 - 1 \in 1..(n2 - 1)
        BY <1>1, <1>2, <2>2
      <3>2. fs[i].base <= fs[n2 - 1].base /\ fs[n2 - 1].base <= fs2[n2].base /\ fs2[i] = fs[i] /\ i \in 1..n
        BY <1>1, <1>2, <1>4, <3>1
      <3>3. fs[i].base \in Nat /\ fs[n2 - 1].base \in Nat /\ fs2[n2].base \in Nat
        BY <2>1, <1>1, <3>1, <3>2, FrameTypes
      <3> QED BY <2>2, <3>2, <3>3
    <2>3. CASE i = j
      BY <2>1, <2>3
    <2>4. CASE j # n2
      <3>1. i \in 1..(n2 - 1) /\ j \in 1..(n2 - 1)
        BY <1>1, <1>8, <2>4
      <3> QED BY <1>2, <1>4, <1>8, <3>1
    <2> QED BY <2>2, <2>3, <2>4
  <1> QED BY <1>1, <1>6, <1>7, <1>8 DEF FramesInOrder

(* Two frames are of the same loop, or of none.                            *)
SameLoop(f, g) ==
  /\ f.kind = "loop" <=> g.kind = "loop"
  /\ f.kind = "loop" => /\ f.merge = g.merge /\ f.other = g.other /\ f.base = g.base /\ f.always = g.always
                        /\ f.loop_state = g.loop_state

LoopMoves(ls, ls2) ==
  /\ ls2.inside = ls.inside /\ ls2.brk = ls.brk /\ ls2.cont = ls.cont /\ ls2.base = ls.base
  /\ ls.hasBreak => ls2.hasBreak

LEMMA InLoopStays ==
  ASSUME NEW bs, NEW bs2, NEW X, Grows(bs, bs2, X), NEW fs, NEW fs2, NEW ls, NEW ls2, NEW n \in Nat, InLoop(bs, fs, ls, n),
         \A k \in 1..n : SameLoop(fs[k], fs2[k]), LoopMoves(ls, ls2),
         \A k \in 1..n : fs[k].kind = "loop" => fs[k].merge \notin X \/ ls2.hasBreak
  PROVE  InLoop(bs2, fs2, ls2, n)
  <1>1. ls2.inside => \E k \in 1..n : fs2[k].kind = "loop" /\ \A m \in (k + 1)..n : fs2[m].kind # "loop"
    <2>1. \A k \in 1..n : \A m \in (k + 1)..n : m \in 1..n
      OBVIOUS
    <2> QED BY <2>1 DEF InLoop, SameLoop, LoopMoves
  <1>2. ASSUME NEW k \in 1..n, fs2[k].kind = "loop", \A m \in (k + 1)..n : fs2[m].kind # "loop"
        PROVE  ls2.inside /\ OfLoop(bs2, ls2, fs2[k])
    <2>1. \A m \in (k + 1)..n : m \in 1..n
      OBVIOUS
    <2>2. fs[k].kind = "loop" /\ \A m \in (k + 1)..n : fs[m].kind # "loop"
      BY <1>2, <2>1 DEF SameLoop
    <2>3. ls.inside /\ OfLoop(bs, ls, fs[k])
      BY <2>2 DEF InLoop
    <2>4. Aimed(bs2, fs[k].merge) => Aimed(bs, fs[k].merge) \/ fs[k].merge \in X
      BY DEF Grows
    <2> QED BY <2>2, <2>3, <2>4 DEF OfLoop, LoopMoves, SameLoop
  <1> QED BY <1>1, <1>2 DEF InLoop

LEMMA InLoopPush ==
  ASSUME NEW bs, NEW fs, NEW ls, NEW n \in Nat, InLoop(bs, fs, ls, n), fs[n + 1].kind # "loop"
  PROVE  InLoop(bs, fs, ls, n + 1)
  <1>1. ls.inside => \E k \in 1..(n + 1) : fs[k].kind = "loop" /\ \A m \in (k + 1)..(n + 1) : fs[m].kind # "loop"
    <2>1. \A k \in 1..n : k \in 1..(n + 1) /\ \A m \in (k + 1)..(n + 1) : m = n + 1 \/ m \in (k + 1)..n
      OBVIOUS
    <2> QED BY <2>1 DEF InLoop
  <1>2. ASSUME NEW k \in 1..(n + 1), fs[k].kind = "loop", \A m \in (k + 1)..(n + 1) : fs[m].kind # "loop"
        PROVE  ls.inside /\ OfLoop(bs, ls, fs[k])
    <2>1. k \in 1..n
      BY <1>2
    <2> QED BY <1>2, <2>1 DEF InLoop
  <1> QED BY <1>1, <1>2 DEF InLoop

LEMMA InLoopPop ==
  ASSUME NEW bs, NEW fs, NEW ls, NEW n \in Nat, InLoop(bs, fs, ls, n + 1), fs[n + 1].kind # "loop"
  PROVE  InLoop(bs, fs, ls, n)
  <1>1. ls.inside => \E k \in 1..n : fs[k].kind = "loop" /\ \A m \in (k + 1)..n : fs[m].kind # "loop"
    <2>1. ls.inside => \E k \in 1..(n + 1) : fs[k].kind = "loop" /\ \A m \in (k + 1)..(n + 1) : fs[m].kind # "loop"
      BY DEF InLoop
    <2>2. \A k \in 1..(n + 1) : (k = n + 1 \/ k \in 1..n) /\ \A m \in (k + 1)..n : m \in (k + 1)..(n + 1)
      OBVIOUS
    <2> QED BY <2>1, <2>2
  <1>2. ASSUME NEW k \in 1..n, fs[k].kind = "loop", \A m \in (k + 1)..n : fs[m].kind # "loop"
        PROVE  ls.inside /\ OfLoop(bs, ls, fs[k])
    <2>1. k \in 1..(n + 1) /\ \A m \in (k + 1)..(n + 1) : m = n + 1 \/ m \in (k + 1)..n
      OBVIOUS
    <2>2. \A m \in (k + 1)..(n + 1) : fs[m].kind # "loop"
      BY <1>2, <2>1
    <2> QED BY <1>2, <2>1, <2>2 DEF InLoop
  <1> QED BY <1>1, <1>2 DEF InLoop

(* A step that neither begins nor ends a loop.                             *)
LEMMA LoopsStep ==
  ASSUME NEW bs, NEW bs2, NEW X, Grows(bs, bs2, X),
         NEW fs \in Seq(ConstructFrame), NEW fs2 \in Seq(ConstructFrame), NEW ls, NEW ls2,
         LoopsInOrder(bs, fs, ls), LoopMoves(ls, ls2), ls2.hasBreak => ls2.sawBreak,
         Len(fs) > 0, Len(fs2) \in (Len(fs) - 1)..(Len(fs) + 1), Beneath(fs, fs2),
         Len(fs2) = Len(fs) => SameLoop(fs[Len(fs)], fs2[Len(fs)]),
         Len(fs2) > Len(fs) => fs2[Len(fs2)].kind # "loop",
         Len(fs2) < Len(fs) => fs[Len(fs)].kind # "loop" /\ (Len(fs2) > 0 => fs2[Len(fs2)] = fs[Len(fs2)]),
         \A k \in 1..Len(fs) : fs[k].kind = "loop" => fs[k].merge \notin X \/ ls2.hasBreak,
         \A j, k \in 1..Len(fs) : fs[j].kind = "loop" /\ fs[k].kind = "loop" /\ k < j => fs[k].merge \notin X
  PROVE  LoopsInOrder(bs2, fs2, ls2)
  <1> DEFINE n == Len(fs)  n2 == Len(fs2)
  <1>1. n \in Nat /\ n2 \in Nat /\ n2 \in (n - 1)..(n + 1) /\ n > 0
    BY FrameTypes
  <1>2. \A i \in 1..(n2 - 1) : i <= n /\ fs2[i] = fs[i]
    BY DEF Beneath
  <1>3. \A i \in 1..n2 : i <= n => SameLoop(fs[i], fs2[i])
    <2> SUFFICES ASSUME NEW i \in 1..n2, i <= n PROVE SameLoop(fs[i], fs2[i])
      OBVIOUS
    <2>1. CASE i \in 1..(n2 - 1)
      BY <1>2, <2>1 DEF SameLoop
    <2>2. CASE i = n2
      <3>1. n2 = n \/ n2 < n
        BY <1>1, <2>2
      <3>2. CASE n2 = n
        BY <2>2, <3>2
      <3>3. CASE n2 < n
        <4>1. fs2[i] = fs[i]
          BY <1>1, <2>2, <3>3
        <4> QED BY <4>1 DEF SameLoop
      <3> QED BY <3>1, <3>2, <3>3
    <2> QED BY <1>1, <2>1, <2>2
  <1>4. InLoop(bs, fs, ls, n) /\ \A j \in 1..n : fs[j].kind = "loop" => InLoop(bs, fs, fs[j].loop_state, j - 1)
    BY DEF LoopsInOrder
  <1>5. ASSUME NEW m \in Nat, m <= n, m <= n2, InLoop(bs, fs, ls, m) PROVE InLoop(bs2, fs2, ls2, m)
    <2>1. \A k \in 1..m : SameLoop(fs[k], fs2[k]) /\ (fs[k].kind = "loop" => fs[k].merge \notin X \/ ls2.hasBreak)
      BY <1>1, <1>3, <1>5
    <2> QED BY <1>5, <2>1, InLoopStays
  <1>6. InLoop(bs2, fs2, ls2, n2)
    <2>1. CASE n2 = n
      BY <1>1, <1>4, <1>5, <2>1
    <2>2. CASE n2 = n + 1
      <3>1. InLoop(bs2, fs2, ls2, n)
        BY <1>1, <1>4, <1>5, <2>2
      <3>2. fs2[n + 1].kind # "loop"
        BY <1>1, <2>2
      <3> QED BY <1>1, <2>2, <3>1, <3>2, InLoopPush
    <2>3. CASE n2 = n - 1
      <3>1. fs[n2 + 1].kind # "loop" /\ InLoop(bs, fs, ls, n2 + 1)
        BY <1>1, <1>4, <2>3
      <3>2. InLoop(bs, fs, ls, n2)
        BY <1>1, <3>1, InLoopPop
      <3> QED BY <1>1, <1>5, <2>3, <3>2
    <2> QED BY <1>1, <2>1, <2>2, <2>3
  <1>7. ASSUME NEW j \in 1..n2, fs2[j].kind = "loop" PROVE InLoop(bs2, fs2, fs2[j].loop_state, j - 1)
    <2>1. j <= n
      BY <1>1, <1>7
    <2>2. fs[j].kind = "loop" /\ fs2[j].loop_state = fs[j].loop_state /\ j \in 1..n /\ j - 1 \in Nat
      BY <1>1, <1>3, <1>7, <2>1 DEF SameLoop
    <2>3. InLoop(bs, fs, fs[j].loop_state, j - 1)
      BY <1>4, <2>2
    <2>4. \A k \in 1..(j - 1) : k \in 1..n /\ k \in 1..n2 /\ k <= n /\ k < j
      BY <1>1, <2>1
    <2>5. \A k \in 1..(j - 1) : SameLoop(fs[k], fs2[k]) /\ (fs[k].kind = "loop" => fs[k].merge \notin X)
      BY <1>3, <2>2, <2>4
    <2>6. LoopMoves(fs[j].loop_state, fs[j].loop_state)
      BY DEF LoopMoves
    <2>7. InLoop(bs2, fs2, fs[j].loop_state, j - 1)
      <3>1. PICK m \in Nat : m = j - 1
        BY <2>2
      <3>2. InLoop(bs, fs, fs[j].loop_state, m) /\ \A k \in 1..m : SameLoop(fs[k], fs2[k]) /\ (fs[k].kind = "loop" => fs[k].merge \notin X)
        BY <2>3, <2>5, <3>1
      <3>3. InLoop(bs2, fs2, fs[j].loop_state, m)
        BY <2>6, <3>2, InLoopStays
      <3> QED BY <3>1, <3>3
    <2> QED BY <2>2, <2>7
  <1> QED BY <1>6, <1>7 DEF LoopsInOrder

(* The terminator of block b is complete.                                  *)
GoodTerm(b, t) ==
  /\ t.kind # "br" => t.to = {}
  /\ t.kind = "ret" => t.value = IF ReturnsValue THEN b ELSE NoBlock

LEMMA GraphStep ==
  ASSUME NEW bs \in Seq(Block), NEW bs2 \in Seq(Block), NEW X, GraphInOrder(bs), Grows(bs, bs2, X),
         \A c \in X : c \in 1..Len(bs2) /\ bs2[c].term.kind # "unreachable",
         \A b \in 1..Len(bs2) : \/ b <= Len(bs) /\ bs2[b].term = bs[b].term
                                \/ GoodTerm(b, bs2[b].term) /\ (bs2[b].term.kind = "unreachable" => ~ Aimed(bs, b))
  PROVE  GraphInOrder(bs2)
  <1>1. Len(bs) \in Nat /\ Len(bs2) \in Nat /\ Len(bs) <= Len(bs2)
    BY DEF Grows
  <1>2. ASSUME NEW c, Aimed(bs2, c) PROVE c \in 1..Len(bs2) /\ bs2[c].term.kind # "unreachable"
    <2>1. CASE c \in X
      BY <2>1
    <2>2. CASE Aimed(bs, c)
      <3>1. c \in 1..Len(bs) /\ bs[c].term.kind # "unreachable"
        BY <2>2 DEF GraphInOrder
      <3>2. c \in 1..Len(bs2)
        BY <1>1, <3>1
      <3> QED BY <2>2, <3>1, <3>2
    <2> QED BY <1>2, <2>1, <2>2 DEF Grows
  <1>3. ASSUME NEW b \in 1..Len(bs2) PROVE GoodTerm(b, bs2[b].term)
    <2>1. CASE b <= Len(bs) /\ bs2[b].term = bs[b].term
      <3>1. b \in 1..Len(bs)
        BY <1>1, <2>1
      <3> QED BY <2>1, <3>1 DEF GraphInOrder, GoodTerm
    <2> QED BY <2>1
  <1> QED BY <1>2, <1>3 DEF GraphInOrder, GoodTerm

LEMMA SubSeqIs ==
  ASSUME NEW S, NEW s \in Seq(S), NEW n \in 0..Len(s)
  PROVE  /\ SubSeq(s, 1, n) \in Seq(S) /\ Len(SubSeq(s, 1, n)) = n
         /\ \A i \in 1..n : SubSeq(s, 1, n)[i] = s[i]
  OBVIOUS

LEMMA FsPush ==
  ASSUME NEW fs \in Seq(ConstructFrame), NEW f \in ConstructFrame
  PROVE  /\ Append(fs, f) \in Seq(ConstructFrame) /\ Len(Append(fs, f)) = Len(fs) + 1 /\ Append(fs, f)[Len(fs) + 1] = f
         /\ \A i \in 1..Len(fs) : Append(fs, f)[i] = fs[i]
         /\ Beneath(fs, Append(fs, f))
  <1>1. /\ Append(fs, f) \in Seq(ConstructFrame) /\ Len(Append(fs, f)) = Len(fs) + 1 /\ Append(fs, f)[Len(fs) + 1] = f
        /\ \A i \in 1..Len(fs) : Append(fs, f)[i] = fs[i] /\ Len(fs) \in Nat
    OBVIOUS
  <1> QED BY <1>1 DEF Beneath

LEMMA FsPop ==
  ASSUME NEW fs \in Seq(ConstructFrame), Len(fs) > 0
  PROVE  LET fs2 == SubSeq(fs, 1, Len(fs) - 1) IN
         /\ fs2 \in Seq(ConstructFrame) /\ Len(fs2) = Len(fs) - 1
         /\ \A i \in 1..(Len(fs) - 1) : fs2[i] = fs[i]
         /\ Beneath(fs, fs2)
  <1> DEFINE fs2 == SubSeq(fs, 1, Len(fs) - 1)
  <1>1. /\ fs2 \in Seq(ConstructFrame) /\ Len(fs2) = Len(fs) - 1 /\ Len(fs) \in Nat
        /\ \A i \in 1..(Len(fs) - 1) : fs2[i] = fs[i]
    <2>1. Len(fs) - 1 \in 0..Len(fs) /\ Len(fs) \in Nat
      OBVIOUS
    <2> QED BY <2>1, SubSeqIs
  <1> HIDE DEF fs2
  <1>2. Beneath(fs, fs2)
    BY <1>1 DEF Beneath
  <1> QED BY <1>1, <1>2 DEF fs2

LEMMA FsTop ==
  ASSUME NEW fs \in Seq(ConstructFrame), Len(fs) > 0, NEW f \in ConstructFrame
  PROVE  LET fs2 == Append(SubSeq(fs, 1, Len(fs) - 1), f) IN
         /\ fs2 \in Seq(ConstructFrame) /\ Len(fs2) = Len(fs) /\ fs2[Len(fs)] = f
         /\ \A i \in 1..(Len(fs) - 1) : fs2[i] = fs[i]
         /\ Beneath(fs, fs2)
  <1> DEFINE low == SubSeq(fs, 1, Len(fs) - 1)  fs2 == Append(low, f)
  <1>1. low \in Seq(ConstructFrame) /\ Len(low) = Len(fs) - 1 /\ Len(fs) \in Nat /\ \A i \in 1..(Len(fs) - 1) : low[i] = fs[i]
    BY FsPop
  <1> HIDE DEF low
  <1>2. fs2 \in Seq(ConstructFrame) /\ Len(fs2) = Len(low) + 1 /\ fs2[Len(low) + 1] = f /\ \A i \in 1..Len(low) : fs2[i] = low[i]
    BY <1>1, FsPush
  <1> HIDE DEF fs2
  <1>3. Len(fs2) = Len(fs) /\ fs2[Len(fs)] = f /\ \A i \in 1..(Len(fs) - 1) : fs2[i] = fs[i]
    BY <1>1, <1>2
  <1>4. Beneath(fs, fs2)
    BY <1>1, <1>3 DEF Beneath
  <1> QED BY <1>2, <1>3, <1>4 DEF fs2, low

-----------------------------------------------------------------------------
(* The state between two steps of the lowering. *)

LEMMA StateFacts ==
  ASSUME BuildInv
  PROVE  /\ blocks \in Seq(Block) /\ cur \in 1..Len(blocks) /\ Len(blocks) \in Nat /\ blocks[cur] \in Block
         /\ deferred \in Seq(Defer) /\ Len(deferred) \in Nat
         /\ constructs \in Seq(ConstructFrame) /\ Len(constructs) \in Nat
         /\ loop_state \in LoopState /\ unwind \in Unwind /\ reachable \in BOOLEAN /\ bound \subseteq Nat /\ sites \in Nat
         /\ GraphInOrder(blocks)
  BY DEF BuildInv, LoweringTypeOK

LEMMA LoweringFacts ==
  ASSUME BuildInv, Lowering
  PROVE  /\ WaitingInOrder(blocks, cur, constructs) /\ FramesInOrder(blocks, cur, constructs)
         /\ LoopsInOrder(blocks, constructs, loop_state) /\ UnwindInOrder(unwind, constructs, deferred, loop_state, cur)
         /\ unwind.why \in {"idle", "block"} /\ Open => reachable
         /\ pc = [block |-> Entry, next |-> 1] /\ live = <<>>
         /\ Len(constructs) > 0 /\ Innermost = constructs[Len(constructs)] /\ Innermost \in ConstructFrame
         /\ Innermost.kind \in FrameKinds /\ Innermost.left \in BOOLEAN /\ Innermost.base \in Nat /\ Innermost.merge \in Nat
         /\ Innermost.other \in Nat /\ Innermost.cond \in Nat /\ Innermost.cases \in Nat /\ Innermost.always \in BOOLEAN
         /\ Innermost.falls \in BOOLEAN /\ Innermost.reach \in BOOLEAN /\ Innermost.loop_state \in LoopState
         /\ FrameInOrder(blocks, Innermost)
  <1>1. Len(constructs) > 0 /\ constructs \in Seq(ConstructFrame)
    BY DEF BuildInv, LoweringInOrder, FramesInOrder, LoweringTypeOK
  <1>2. Len(constructs) \in 1..Len(constructs)
    BY <1>1
  <1>3. Innermost = constructs[Len(constructs)]
    BY DEF Innermost
  <1>4. /\ Innermost \in ConstructFrame
        /\ Innermost.kind \in FrameKinds /\ Innermost.left \in BOOLEAN /\ Innermost.base \in Nat /\ Innermost.merge \in Nat
        /\ Innermost.other \in Nat /\ Innermost.cond \in Nat /\ Innermost.cases \in Nat /\ Innermost.always \in BOOLEAN
        /\ Innermost.falls \in BOOLEAN /\ Innermost.reach \in BOOLEAN /\ Innermost.loop_state \in LoopState
    BY <1>1, <1>2, <1>3, FrameTypes
  <1>5. FramesInOrder(blocks, cur, constructs)
    BY DEF BuildInv, LoweringInOrder
  <1>6. FrameInOrder(blocks, Innermost)
    BY <1>2, <1>3, <1>5 DEF FramesInOrder
  <1> QED BY <1>1, <1>3, <1>4, <1>5, <1>6 DEF BuildInv, LoweringInOrder

(* The parts make the invariant of the next state.                         *)
LEMMA Rebuilt ==
  ASSUME BuildInv, Lowering, phase' = "lowering", LoweringTypeOK', GraphInOrder(blocks'),
         WaitingInOrder(blocks', cur', constructs'), FramesInOrder(blocks', cur', constructs'),
         LoopsInOrder(blocks', constructs', loop_state'), UnwindInOrder(unwind', constructs', deferred', loop_state', cur'),
         unwind'.why \in {"idle", "block"} /\ blocks'[cur'].term.kind = "none" => reachable',
         pc' = pc, live' = live
  PROVE  BuildInv'
  <1>1. pc' = [block |-> Entry, next |-> 1] /\ live' = <<>>
    BY LoweringFacts
  <1>2. LoweringInOrder'
    BY <1>1 DEF LoweringInOrder, Open, IsOpen
  <1>3. Len(blocks') \in Nat /\ Len(blocks') > 0
    BY DEF LoweringTypeOK
  <1>4. RunInOrder'
    BY <1>1, <1>3 DEF RunInOrder, Aimed, Entry
  <1> QED BY <1>2, <1>4 DEF BuildInv

(* Instructions are added to the current block at most.                    *)
LEMMA SameTerms ==
  ASSUME NEW bs \in Seq(Block), NEW bs2 \in Seq(Block), Len(bs2) = Len(bs), \A b \in 1..Len(bs) : bs2[b].term = bs[b].term
  PROVE  Grows(bs, bs2, {}) /\ (GraphInOrder(bs) => GraphInOrder(bs2)) /\ \A c : Aimed(bs2, c) <=> Aimed(bs, c)
  <1>1. Len(bs) \in Nat
    OBVIOUS
  <1>2. \A c : Aimed(bs2, c) <=> Aimed(bs, c)
    BY DEF Aimed
  <1>3. Grows(bs, bs2, {})
    BY <1>1, <1>2 DEF Grows
  <1>4. GraphInOrder(bs) => GraphInOrder(bs2)
    BY <1>2 DEF GraphInOrder
  <1> QED BY <1>2, <1>3, <1>4

LEMMA KeepStep ==
  ASSUME NEW bs \in Seq(Block), NEW bs2 \in Seq(Block), NEW cu \in 1..Len(bs), NEW fs \in Seq(ConstructFrame), NEW ls, NEW ls2,
         WaitingInOrder(bs, cu, fs), FramesInOrder(bs, cu, fs), LoopsInOrder(bs, fs, ls), GraphInOrder(bs),
         Len(bs2) = Len(bs), \A b \in 1..Len(bs) : bs2[b].term = bs[b].term /\ (b = cu \/ bs2[b].ops = bs[b].ops),
         LoopMoves(ls, ls2), ls2.hasBreak => ls2.sawBreak
  PROVE  WaitingInOrder(bs2, cu, fs) /\ FramesInOrder(bs2, cu, fs) /\ LoopsInOrder(bs2, fs, ls2) /\ GraphInOrder(bs2)
  <1>1. Grows(bs, bs2, {}) /\ GraphInOrder(bs2) /\ \A c : Aimed(bs2, c) <=> Aimed(bs, c)
    BY SameTerms
  <1>2. Len(fs) \in Nat /\ Len(fs) > 0 /\ Beneath(fs, fs)
    BY FrameTypes DEF FramesInOrder, Beneath
  <1>3. SameLoop(fs[Len(fs)], fs[Len(fs)])
    BY DEF SameLoop
  <1>4. LoopsInOrder(bs2, fs, ls2)
    <2>1. Len(fs) \in (Len(fs) - 1)..(Len(fs) + 1) /\ ~(Len(fs) > Len(fs)) /\ ~(Len(fs) < Len(fs))
      BY <1>2
    <2> QED BY <1>1, <1>2, <1>3, <2>1, LoopsStep
  <1>5. FramesInOrder(bs2, cu, fs)
    <2>1. \A f : FrameInOrder(bs, f) => FrameInOrder(bs2, f)
      <3>1. \A b \in 1..Len(bs) : bs2[b].term.kind = bs[b].term.kind
        OBVIOUS
      <3> QED BY <1>1, <3>1 DEF FrameInOrder
    <2> QED BY <2>1 DEF FramesInOrder
  <1>6. WaitingInOrder(bs2, cu, fs)
    <2>1. \A i \in 1..Len(fs) : \A b \in Nat : Waits(fs[i], b) => b \in 1..Len(bs2) /\ b # cu /\ bs2[b].term.kind = "none" /\ bs2[b].ops = <<>>
      BY DEF WaitingInOrder
    <2>2. \A b \in 1..Len(bs2) : bs2[b].term.kind = "none" => b = cu \/ \E i \in 1..Len(fs) : Waits(fs[i], b)
      BY DEF WaitingInOrder
    <2>3. \A i, j \in 1..Len(fs) : \A b \in Nat : Waits(fs[i], b) /\ Waits(fs[j], b) => i = j
      BY DEF WaitingInOrder
    <2> QED BY <2>1, <2>2, <2>3 DEF WaitingInOrder
  <1> QED BY <1>1, <1>4, <1>5, <1>6

(* The current block is closed, with jumps to X.                           *)
LEMMA CloseStep ==
  ASSUME NEW bs \in Seq(Block), NEW cu \in 1..Len(bs), NEW fs \in Seq(ConstructFrame), NEW ls, NEW t \in Term,
         WaitingInOrder(bs, cu, fs), FramesInOrder(bs, cu, fs), LoopsInOrder(bs, fs, ls), GraphInOrder(bs),
         bs[cu].term.kind = "none", t.kind \in {"br", "ret"}, GoodTerm(cu, t),
         \A c \in t.to : c \in 1..Len(bs) /\ c # cu /\ bs[c].term.kind # "unreachable",
         \A i \in 1..Len(fs) : fs[i].kind \in {"then", "else", "switch", "case"} => fs[i].merge \notin t.to,
         \A k \in 1..Len(fs) : fs[k].kind = "loop" => fs[k].merge \notin t.to \/ ls.hasBreak,
         \A j, k \in 1..Len(fs) : fs[j].kind = "loop" /\ fs[k].kind = "loop" /\ k < j => fs[k].merge \notin t.to
  PROVE  LET bs2 == SetTerm(bs, cu, t) IN
         WaitingInOrder(bs2, cu, fs) /\ FramesInOrder(bs2, cu, fs) /\ LoopsInOrder(bs2, fs, ls) /\ GraphInOrder(bs2)
  <1> DEFINE bs2 == SetTerm(bs, cu, t)  X == t.to
  <1>1. /\ bs2 \in Seq(Block) /\ Len(bs2) = Len(bs) /\ Len(bs) \in Nat
        /\ bs2[cu].term = t /\ bs2[cu].ops = bs[cu].ops /\ \A c \in 1..Len(bs) : c # cu => bs2[c] = bs[c]
    BY SetTermIs
  <1>2. \A c : Aimed(bs2, c) <=> Aimed(bs, c) \/ c \in X
    <2>1. bs[cu].term.to = {}
      BY DEF GraphInOrder
    <2> QED BY <2>1, AimedMore
  <1> HIDE DEF bs2, X
  <1>3. Grows(bs, bs2, X)
    BY <1>1, <1>2 DEF Grows
  <1>4. Len(fs) \in Nat /\ Len(fs) > 0 /\ Beneath(fs, fs) /\ Len(fs) \in 1..Len(fs)
    BY FrameTypes DEF FramesInOrder, Beneath
  <1>5. SameLoop(fs[Len(fs)], fs[Len(fs)]) /\ LoopMoves(ls, ls) /\ (ls.hasBreak => ls.sawBreak)
    BY DEF SameLoop, LoopMoves, LoopsInOrder
  <1>6. LoopsInOrder(bs2, fs, ls)
    <2>1. Len(fs) \in (Len(fs) - 1)..(Len(fs) + 1) /\ ~(Len(fs) > Len(fs)) /\ ~(Len(fs) < Len(fs))
      BY <1>4
    <2>2. /\ \A k \in 1..Len(fs) : fs[k].kind = "loop" => fs[k].merge \notin X \/ ls.hasBreak
          /\ \A j, k \in 1..Len(fs) : fs[j].kind = "loop" /\ fs[k].kind = "loop" /\ k < j => fs[k].merge \notin X
      BY DEF X
    <2> QED BY <1>3, <1>4, <1>5, <2>1, <2>2, LoopsStep
  <1>7. FramesInOrder(bs2, cu, fs)
    <2>1. \A i \in 1..Len(fs) : FrameInOrder(bs, fs[i]) /\ fs[i] \in ConstructFrame
                                /\ (fs[i].kind \in {"then", "else", "switch", "case"} => fs[i].merge \notin X)
      BY FrameTypes DEF FramesInOrder, X
    <2>2. \A i \in 1..Len(fs) : FrameInOrder(bs2, fs[i])
      BY <1>1, <1>3, <2>1, FrameStays
    <2>3. bs2[cu].term.kind # "none"
      BY <1>1
    <2> QED BY <2>2, <2>3 DEF FramesInOrder
  <1>8. GraphInOrder(bs2)
    <2>1. \A c \in X : c \in 1..Len(bs2) /\ bs2[c].term.kind # "unreachable"
      BY <1>1 DEF X
    <2>2. \A b \in 1..Len(bs2) : \/ b <= Len(bs) /\ bs2[b].term = bs[b].term
                                 \/ GoodTerm(b, bs2[b].term) /\ (bs2[b].term.kind = "unreachable" => ~ Aimed(bs, b))
      BY <1>1
    <2> QED BY <1>1, <1>3, <2>1, <2>2, GraphStep
  <1>9. WaitingInOrder(bs2, cu, fs)
    <2>1. \A i \in 1..Len(fs) : \A b \in Nat : Waits(fs[i], b) => b \in 1..Len(bs2) /\ b # cu /\ bs2[b].term.kind = "none" /\ bs2[b].ops = <<>>
      BY <1>1 DEF WaitingInOrder
    <2>2. \A b \in 1..Len(bs2) : bs2[b].term.kind = "none" => b = cu \/ \E i \in 1..Len(fs) : Waits(fs[i], b)
      BY <1>1 DEF WaitingInOrder
    <2>3. \A i, j \in 1..Len(fs) : \A b \in Nat : Waits(fs[i], b) /\ Waits(fs[j], b) => i = j
      BY DEF WaitingInOrder
    <2> QED BY <2>1, <2>2, <2>3 DEF WaitingInOrder
  <1> QED BY <1>6, <1>7, <1>8, <1>9 DEF bs2

-----------------------------------------------------------------------------
(* Statements that leave the constructs alone. *)

LEMMA StateTypes ==
  ASSUME BuildInv
  PROVE  /\ loop_state.inside \in BOOLEAN /\ loop_state.brk \in Nat /\ loop_state.cont \in Nat /\ loop_state.base \in Nat
         /\ loop_state.hasBreak \in BOOLEAN /\ loop_state.sawBreak \in BOOLEAN
         /\ unwind.base \in Nat /\ unwind.next \in Nat /\ unwind.value \in Nat
         /\ unwind.why \in {"idle", "block", "return", "break", "continue"}
         /\ live \in Seq(Defer) /\ pc \in [block : BlockId, next : BlockId]
  BY DEF BuildInv, LoweringTypeOK, LoopState, Unwind

LEMMA RememberDeferInv == ASSUME BuildInv, NEW k \in DeferKinds, RememberDefer(k) PROVE BuildInv'
  <1> DEFINE d == [site |-> sites, kind |-> k]
  <1>1. Lowering /\ Open /\ InBody /\ unwind.why = "idle" /\ Innermost.kind # "switch"
    BY DEF RememberDefer, LowersStatement, InBody, Idle
  <1>2. /\ deferred' = Append(deferred, d) /\ blocks' = Emit(blocks, cur, "reg", d) /\ sites' = sites + 1
        /\ UNCHANGED <<phase, cur, loop_state, unwind, constructs, bound, reachable, pc, live>>
    BY DEF RememberDefer, running
  <1>3. d \in Defer
    BY StateFacts, Constants DEF Defer
  <1>4. /\ blocks' \in Seq(Block) /\ Len(blocks') = Len(blocks)
        /\ \A b \in 1..Len(blocks) : blocks'[b].term = blocks[b].term /\ (b = cur \/ blocks'[b].ops = blocks[b].ops)
    <2>1. /\ blocks' \in Seq(Block) /\ Len(blocks') = Len(blocks) /\ blocks'[cur].term = blocks[cur].term
          /\ \A c \in 1..Len(blocks) : c # cur => blocks'[c] = blocks[c]
      BY <1>2, <1>3, StateFacts, EmitIs
    <2> QED BY <2>1
  <1> HIDE DEF d
  <1>5. deferred' \in Seq(Defer) /\ Len(deferred') = Len(deferred) + 1
    BY <1>2, <1>3, StateFacts
  <1>6. LoopMoves(loop_state, loop_state) /\ (loop_state.hasBreak => loop_state.sawBreak)
    BY <1>1, LoweringFacts DEF LoopMoves, LoopsInOrder
  <1>7. /\ WaitingInOrder(blocks', cur', constructs') /\ FramesInOrder(blocks', cur', constructs')
        /\ LoopsInOrder(blocks', constructs', loop_state') /\ GraphInOrder(blocks')
    BY <1>1, <1>2, <1>4, <1>6, StateFacts, LoweringFacts, KeepStep
  <1>8. UnwindInOrder(unwind', constructs', deferred', loop_state', cur')
    <2>1. constructs[Len(constructs)].base <= Len(deferred) /\ constructs[Len(constructs)].base \in Nat
      BY <1>1, LoweringFacts DEF UnwindInOrder
    <2>2. constructs[Len(constructs)].base <= Len(deferred')
      BY <1>5, <2>1, StateFacts
    <2> QED BY <1>1, <1>2, <2>2 DEF UnwindInOrder
  <1>9. LoweringTypeOK'
    BY <1>2, <1>4, <1>5, StateFacts, StateTypes DEF BuildInv, LoweringTypeOK
  <1>10. phase' = "lowering" /\ reachable'
    BY <1>1, <1>2 DEF RememberDefer, LowersStatement, Lowering
  <1> QED BY <1>1, <1>2, <1>7, <1>8, <1>9, <1>10, Rebuilt

(* The blocks stay, and so do the frames.                                  *)
LEMMA SkipStep ==
  ASSUME BuildInv, Lowering, phase' = "lowering", UNCHANGED <<blocks, cur, constructs, pc, live>>, LoweringTypeOK',
         LoopMoves(loop_state, loop_state'), loop_state'.hasBreak => loop_state'.sawBreak,
         UnwindInOrder(unwind', constructs', deferred', loop_state', cur'),
         unwind'.why \in {"idle", "block"} /\ Open => reachable'
  PROVE  BuildInv'
  <1>1. /\ WaitingInOrder(blocks', cur', constructs') /\ FramesInOrder(blocks', cur', constructs')
        /\ LoopsInOrder(blocks', constructs', loop_state') /\ GraphInOrder(blocks')
    BY StateFacts, LoweringFacts, KeepStep
  <1> QED BY <1>1, Rebuilt DEF Open, IsOpen

LEMMA BlockUnwoundInv == ASSUME BuildInv, BlockUnwound PROVE BuildInv'
  <1>1. /\ Lowering /\ unwind.why = "block" /\ deferred' = Prefix(deferred, unwind.base) /\ unwind' = NoUnwind
        /\ UNCHANGED <<phase, blocks, cur, loop_state, constructs, bound, sites, reachable, pc, live>>
    BY DEF BlockUnwound, Unwound, RestoreDeferCount, running
  <1>2. unwind.base = Innermost.base /\ unwind.base <= Len(deferred) /\ unwind.base \in Nat
    BY <1>1, LoweringFacts, StateFacts DEF UnwindInOrder
  <1>3. deferred' \in Seq(Defer) /\ Len(deferred') = unwind.base
    <2>1. unwind.base \in 0..Len(deferred)
      BY <1>2, StateFacts
    <2> QED BY <1>1, <2>1, StateFacts, SubSeqIs DEF Prefix
  <1>4. NoUnwind \in Unwind /\ NoUnwind.why = "idle"
    BY DEF NoUnwind, Unwind, NoBlock
  <1>5. UnwindInOrder(unwind', constructs', deferred', loop_state', cur')
    BY <1>1, <1>2, <1>3, <1>4, LoweringFacts DEF UnwindInOrder
  <1>6. LoweringTypeOK'
    BY <1>1, <1>3, <1>4, StateFacts, StateTypes DEF BuildInv, LoweringTypeOK
  <1>7. LoopMoves(loop_state, loop_state') /\ (loop_state'.hasBreak => loop_state'.sawBreak)
    BY <1>1, LoweringFacts DEF LoopMoves, LoopsInOrder
  <1>8. phase' = "lowering" /\ (Open => reachable')
    BY <1>1, LoweringFacts DEF Lowering
  <1> QED BY <1>1, <1>5, <1>6, <1>7, <1>8, SkipStep

(* A return, break or continue begins its unwinding.                       *)
LEMMA StartInv ==
  ASSUME BuildInv, LowersStatement, NEW why \in {"return", "break", "continue"}, NEW base \in Nat, NEW value \in Nat,
         StartUnwind(why, base, value), reachable' = FALSE,
         UNCHANGED <<phase, blocks, cur, deferred, constructs, bound, sites, pc, live>>,
         loop_state' \in LoopState, LoopMoves(loop_state, loop_state'), loop_state'.hasBreak => loop_state'.sawBreak,
         why = "return" => base = 0 /\ value = IF ReturnsValue THEN cur ELSE NoBlock,
         why # "return" => loop_state.inside /\ base = loop_state.base,
         why = "break" => loop_state'.hasBreak,
         base <= Len(deferred)
  PROVE  BuildInv'
  <1>1. Lowering /\ unwind.why = "idle" /\ Innermost.kind # "switch" /\ ~ Innermost.left /\ phase' = "lowering"
    BY DEF LowersStatement, InBody, Idle, Lowering
  <1>2. unwind' = [why |-> why, base |-> base, next |-> Len(deferred), value |-> value]
    BY DEF StartUnwind
  <1>3. unwind' \in Unwind /\ unwind'.why = why /\ unwind'.base = base /\ unwind'.next = Len(deferred) /\ unwind'.value = value
    BY <1>2, StateFacts DEF Unwind
  <1>4. UnwindInOrder(unwind', constructs', deferred', loop_state', cur')
    <2>1. /\ constructs[Len(constructs)] = Innermost /\ constructs[Len(constructs)].base <= Len(deferred)
      BY <1>1, LoweringFacts DEF UnwindInOrder
    <2>2. loop_state'.inside = loop_state.inside /\ loop_state'.base = loop_state.base
      BY DEF LoopMoves
    <2>3. Len(deferred) <= Len(deferred)
      BY StateFacts
    <2> QED BY <1>1, <1>3, <2>1, <2>2, <2>3 DEF UnwindInOrder
  <1>5. LoweringTypeOK'
    BY <1>3, StateFacts, StateTypes DEF BuildInv, LoweringTypeOK
  <1> QED BY <1>1, <1>3, <1>4, <1>5, SkipStep

LEMMA ReturnInv == ASSUME BuildInv, Return PROVE BuildInv'
  <1> DEFINE value == IF ReturnsValue THEN cur ELSE NoBlock
  <1>1. /\ LowersStatement /\ StartUnwind("return", 0, value) /\ reachable' = FALSE
        /\ UNCHANGED <<phase, blocks, cur, deferred, loop_state, constructs, bound, sites, pc, live>>
    BY DEF Return, running
  <1>2. value \in Nat
    BY StateFacts DEF NoBlock
  <1>3. LoopMoves(loop_state, loop_state') /\ (loop_state'.hasBreak => loop_state'.sawBreak) /\ loop_state' \in LoopState
    BY <1>1, LoweringFacts, StateFacts DEF LoopMoves, LoopsInOrder, LowersStatement, InBody, Idle
  <1>4. 0 <= Len(deferred)
    BY StateFacts
  <1> QED BY <1>1, <1>2, <1>3, <1>4, StartInv

(* The defers of the innermost loop are a part of those registered.        *)
LEMMA InnermostLoop ==
  ASSUME BuildInv, Lowering, loop_state.inside
  PROVE  \E k \in 1..Len(constructs) :
           /\ constructs[k].kind = "loop" /\ (\A m \in (k + 1)..Len(constructs) : constructs[m].kind # "loop")
           /\ OfLoop(blocks, loop_state, constructs[k])
           /\ loop_state.base <= Innermost.base /\ loop_state.base <= Len(deferred)
  <1>1. InLoop(blocks, constructs, loop_state, Len(constructs))
    BY LoweringFacts DEF LoopsInOrder
  <1>2. PICK k \in 1..Len(constructs) :
          constructs[k].kind = "loop" /\ \A m \in (k + 1)..Len(constructs) : constructs[m].kind # "loop"
    BY <1>1 DEF InLoop
  <1>3. OfLoop(blocks, loop_state, constructs[k])
    BY <1>1, <1>2 DEF InLoop
  <1>4. loop_state.base = constructs[k].base /\ loop_state.base \in Nat
    BY <1>3, StateTypes DEF OfLoop
  <1>5. constructs[k].base <= Innermost.base
    BY SMTT(60), LoweringFacts, StateFacts DEF FramesInOrder
  <1>6. Innermost.base <= Len(deferred)
    BY LoweringFacts DEF UnwindInOrder
  <1>7. Innermost.base \in Nat /\ Len(deferred) \in Nat
    BY LoweringFacts, StateFacts
  <1>8. loop_state.base <= Innermost.base /\ loop_state.base <= Len(deferred)
    <2>1. \A x, y, z \in Nat : x <= y /\ y <= z => x <= z
      OBVIOUS
    <2> QED BY <1>4, <1>5, <1>6, <1>7, <2>1
  <1> QED BY <1>2, <1>3, <1>8

LEMMA LowerBreakInv == ASSUME BuildInv, LowerBreak PROVE BuildInv'
  <1>1. /\ LowersStatement /\ loop_state.inside /\ StartUnwind("break", loop_state.base, NoBlock) /\ reachable' = FALSE
        /\ loop_state' = [loop_state EXCEPT !.hasBreak = TRUE, !.sawBreak = TRUE]
        /\ UNCHANGED <<phase, blocks, cur, deferred, constructs, bound, sites, pc, live>>
    BY DEF LowerBreak, JumpBase, running
  <1>2. Lowering
    BY <1>1 DEF LowersStatement, InBody, Idle
  <1>3. LoopMoves(loop_state, loop_state') /\ loop_state'.hasBreak /\ loop_state'.sawBreak /\ loop_state' \in LoopState
    BY <1>1, StateFacts DEF LoopMoves, LoopState
  <1>4. loop_state.base <= Len(deferred) /\ loop_state.base \in Nat /\ NoBlock \in Nat
    BY <1>1, <1>2, InnermostLoop, StateTypes DEF NoBlock
  <1> QED BY <1>1, <1>3, <1>4, StartInv

LEMMA LowerContinueInv == ASSUME BuildInv, LowerContinue PROVE BuildInv'
  <1>1. /\ LowersStatement /\ loop_state.inside /\ StartUnwind("continue", loop_state.base, NoBlock) /\ reachable' = FALSE
        /\ UNCHANGED <<phase, blocks, cur, deferred, loop_state, constructs, bound, sites, pc, live>>
    BY DEF LowerContinue, JumpBase, running
  <1>2. Lowering
    BY <1>1 DEF LowersStatement, InBody, Idle
  <1>3. LoopMoves(loop_state, loop_state') /\ (loop_state'.hasBreak => loop_state'.sawBreak) /\ loop_state' \in LoopState
    BY <1>1, <1>2, LoweringFacts, StateFacts DEF LoopMoves, LoopsInOrder
  <1>4. loop_state.base <= Len(deferred) /\ loop_state.base \in Nat /\ NoBlock \in Nat
    BY <1>1, <1>2, InnermostLoop, StateTypes DEF NoBlock
  <1> QED BY <1>1, <1>3, <1>4, StartInv

LEMMA SkippedStatementInv ==
  ASSUME BuildInv, NEW falls \in BOOLEAN, NEW breaks \in BOOLEAN, SkippedStatement(falls, breaks)
  PROVE  BuildInv'
  <1>1. /\ Lowering /\ unwind.why = "idle" /\ ~Open /\ reachable' = falls
        /\ loop_state' = [loop_state EXCEPT !.sawBreak = @ \/ breaks]
        /\ UNCHANGED <<phase, blocks, cur, deferred, unwind, constructs, bound, sites, pc, live>>
    BY DEF SkippedStatement, InBody, Idle, running
  <1>2. /\ LoopMoves(loop_state, loop_state') /\ loop_state'.sawBreak = (loop_state.sawBreak \/ breaks)
        /\ loop_state'.hasBreak = loop_state.hasBreak /\ loop_state' \in LoopState
    BY <1>1, StateFacts DEF LoopMoves, LoopState
  <1>3. loop_state'.hasBreak => loop_state'.sawBreak
    BY <1>1, <1>2, LoweringFacts DEF LoopsInOrder
  <1>4. UnwindInOrder(unwind', constructs', deferred', loop_state', cur')
    BY <1>1, LoweringFacts DEF UnwindInOrder
  <1>5. LoweringTypeOK'
    BY <1>1, <1>2, StateFacts, StateTypes DEF BuildInv, LoweringTypeOK
  <1>6. phase' = "lowering"
    BY <1>1 DEF Lowering
  <1> QED BY <1>1, <1>2, <1>3, <1>4, <1>5, <1>6, SkipStep

LEMMA ReturnUnwoundInv == ASSUME BuildInv, ReturnUnwound PROVE BuildInv'
  <1> DEFINE v == ReturnedValue(unwind)
  <1>1. /\ Lowering /\ unwind.why = "return" /\ unwind' = NoUnwind
        /\ blocks' = IF IsOpen(blocks, cur) THEN SetTerm(blocks, cur, Ret(v)) ELSE blocks
        /\ UNCHANGED <<phase, cur, deferred, loop_state, constructs, bound, sites, reachable, pc, live>>
    BY DEF ReturnUnwound, Unwound, SetTermIfOpen, running
  <1>2. v = IF ReturnsValue THEN cur ELSE NoBlock
    <2>1. (Len(deferred) = 0 \/ ~ReturnsValue) => unwind.value = IF ReturnsValue THEN cur ELSE NoBlock
      BY <1>1, LoweringFacts DEF UnwindInOrder
    <2>2. Len(deferred) = 0 \/ Len(deferred) > 0
      BY StateFacts
    <2> QED BY <2>1, <2>2 DEF ReturnedValue
  <1>3. Ret(v) \in Term /\ Ret(v).kind = "ret" /\ Ret(v).to = {} /\ Ret(v).value = v
    <2>1. v \in Nat
      BY <1>2, StateFacts DEF NoBlock
    <2> QED BY <2>1, TermTypes
  <1> DEFINE t == Ret(v)
  <1>4. GoodTerm(cur, t)
    BY <1>2, <1>3 DEF GoodTerm
  <1> HIDE DEF v
  <1>5. NoUnwind \in Unwind /\ NoUnwind.why = "idle"
    BY DEF NoUnwind, Unwind, NoBlock
  <1>6. /\ WaitingInOrder(blocks', cur', constructs') /\ FramesInOrder(blocks', cur', constructs')
        /\ LoopsInOrder(blocks', constructs', loop_state') /\ GraphInOrder(blocks')
        /\ blocks' \in Seq(Block) /\ Len(blocks') = Len(blocks) /\ blocks'[cur].term.kind # "none"
    <2>1. CASE ~IsOpen(blocks, cur)
      BY <1>1, <2>1, StateFacts, LoweringFacts DEF IsOpen
    <2>2. CASE IsOpen(blocks, cur)
      <3>1. blocks' = SetTerm(blocks, cur, t) /\ blocks[cur].term.kind = "none"
        BY <1>1, <2>2 DEF IsOpen
      <3>2. blocks' \in Seq(Block) /\ Len(blocks') = Len(blocks) /\ blocks'[cur].term = t
        BY <1>3, <3>1, StateFacts, SetTermIs
      <3> HIDE DEF t
      <3>3. t \in Term /\ t.kind = "ret" /\ t.to = {}
        BY <1>3 DEF t
      <3>4. /\ WaitingInOrder(blocks', cur, constructs) /\ FramesInOrder(blocks', cur, constructs)
            /\ LoopsInOrder(blocks', constructs, loop_state) /\ GraphInOrder(blocks')
        BY ZenonT(90), <1>1, <1>4, <3>1, <3>3, StateFacts, LoweringFacts, CloseStep
      <3> QED BY <1>1, <3>2, <3>3, <3>4
    <2> QED BY <2>1, <2>2
  <1>7. UnwindInOrder(unwind', constructs', deferred', loop_state', cur')
    BY <1>1, <1>5, LoweringFacts DEF UnwindInOrder
  <1>8. LoweringTypeOK'
    BY <1>1, <1>5, <1>6, StateFacts, StateTypes DEF BuildInv, LoweringTypeOK
  <1>9. phase' = "lowering"
    BY <1>1 DEF Lowering
  <1> QED BY <1>1, <1>6, <1>7, <1>8, <1>9, Rebuilt

(* Where break and continue lead.                                          *)
JumpTarget == IF unwind.why = "break" THEN loop_state.brk ELSE loop_state.cont

LEMMA JumpTargetIs ==
  ASSUME BuildInv, Lowering, unwind.why \in {"break", "continue"}, Open
  PROVE  /\ JumpTarget \in 1..Len(blocks) /\ JumpTarget # cur /\ blocks[JumpTarget].term.kind # "unreachable"
         /\ \A i \in 1..Len(constructs) : constructs[i].kind \in {"then", "else", "switch", "case"} => constructs[i].merge # JumpTarget
         /\ \A k \in 1..Len(constructs) : constructs[k].kind = "loop" => constructs[k].merge # JumpTarget \/ loop_state.hasBreak
         /\ \A j, k \in 1..Len(constructs) : constructs[j].kind = "loop" /\ constructs[k].kind = "loop" /\ k < j =>
              constructs[k].merge # JumpTarget
  <1> DEFINE n == Len(constructs)
  <1>1. loop_state.inside /\ (unwind.why = "break" => loop_state.hasBreak)
    BY LoweringFacts DEF UnwindInOrder
  <1>2. PICK k \in 1..n : /\ constructs[k].kind = "loop" /\ (\A m \in (k + 1)..n : constructs[m].kind # "loop")
                          /\ OfLoop(blocks, loop_state, constructs[k])
    BY <1>1, InnermostLoop
  <1>3. JumpTarget = IF unwind.why = "break" THEN constructs[k].merge ELSE constructs[k].other
    BY <1>2 DEF JumpTarget, OfLoop
  <1>4. constructs[k].merge \in Nat /\ constructs[k].other \in Nat /\ n \in Nat /\ k \in Nat
    BY StateFacts, FrameTypes
  <1>5. /\ constructs[k].cond \in 1..Len(blocks) /\ blocks[constructs[k].cond].term.kind = "br" /\ constructs[k].merge # constructs[k].other
    BY <1>2, LoweringFacts DEF FramesInOrder, FrameInOrder
  <1>6. /\ \A i \in 1..n : \A b \in Nat : Waits(constructs[i], b) =>
             b \in 1..Len(blocks) /\ b # cur /\ blocks[b].term.kind = "none"
        /\ \A i, j \in 1..n : \A b \in Nat : Waits(constructs[i], b) /\ Waits(constructs[j], b) => i = j
    BY LoweringFacts DEF WaitingInOrder
  <1>7. \A i \in 1..n : constructs[i].kind \in {"then", "else", "loop", "switch", "case"} =>
          constructs[i].merge \in Nat /\ Waits(constructs[i], constructs[i].merge)
    BY StateFacts, FrameTypes DEF Waits
  <1>8. blocks[cur].term.kind = "none"
    BY DEF Open, IsOpen
  <1>9. CASE unwind.why = "break"
    <2>1. JumpTarget = constructs[k].merge /\ Waits(constructs[k], JumpTarget) /\ loop_state.hasBreak
      BY <1>1, <1>2, <1>3, <1>7, <1>9
    <2>2. JumpTarget \in 1..Len(blocks) /\ JumpTarget # cur /\ blocks[JumpTarget].term.kind # "unreachable"
      BY <1>4, <1>6, <2>1
    <2>3. \A i \in 1..n : constructs[i].kind \in {"then", "else", "loop", "switch", "case"} /\ constructs[i].merge = JumpTarget => i = k
      BY <1>4, <1>6, <1>7, <2>1
    <2>4. \A j \in 1..n : k < j => j \in (k + 1)..n
      BY <1>4
    <2> QED BY <1>2, <2>1, <2>2, <2>3, <2>4
  <1>10. CASE unwind.why # "break"
    <2>1. JumpTarget = constructs[k].other
      BY <1>3, <1>10
    <2>2. CASE constructs[k].other = constructs[k].cond
      <3>1. JumpTarget \in 1..Len(blocks) /\ JumpTarget # cur /\ blocks[JumpTarget].term.kind = "br"
        BY <1>5, <1>8, <2>1, <2>2
      <3>2. \A i \in 1..n : constructs[i].kind \in {"then", "else", "loop", "switch", "case"} => constructs[i].merge # JumpTarget
        BY <1>6, <1>7, <3>1
      <3> QED BY <3>1, <3>2
    <2>3. CASE constructs[k].other # constructs[k].cond
      <3>1. Waits(constructs[k], JumpTarget)
        BY <1>2, <2>1, <2>3 DEF Waits
      <3>2. JumpTarget \in 1..Len(blocks) /\ JumpTarget # cur /\ blocks[JumpTarget].term.kind # "unreachable"
        BY <1>4, <1>6, <2>1, <3>1
      <3>3. \A i \in 1..n : constructs[i].kind \in {"then", "else", "loop", "switch", "case"} => constructs[i].merge # JumpTarget
        BY <1>4, <1>5, <1>6, <1>7, <2>1, <3>1
      <3> QED BY <3>2, <3>3
    <2> QED BY <2>2, <2>3
  <1> QED BY <1>9, <1>10

LEMMA JumpUnwoundInv == ASSUME BuildInv, JumpUnwound PROVE BuildInv'
  <1> DEFINE t == Br({JumpTarget})
  <1>1. /\ Lowering /\ unwind.why \in {"break", "continue"} /\ unwind' = NoUnwind
        /\ blocks' = IF IsOpen(blocks, cur) THEN SetTerm(blocks, cur, t) ELSE blocks
        /\ UNCHANGED <<phase, cur, deferred, loop_state, constructs, bound, sites, reachable, pc, live>>
    BY DEF JumpUnwound, Unwound, SetTermIfOpen, running, JumpTarget
  <1>2. NoUnwind \in Unwind /\ NoUnwind.why = "idle"
    BY DEF NoUnwind, Unwind, NoBlock
  <1>3. /\ WaitingInOrder(blocks', cur', constructs') /\ FramesInOrder(blocks', cur', constructs')
        /\ LoopsInOrder(blocks', constructs', loop_state') /\ GraphInOrder(blocks')
        /\ blocks' \in Seq(Block) /\ Len(blocks') = Len(blocks) /\ blocks'[cur].term.kind # "none"
    <2>1. CASE ~IsOpen(blocks, cur)
      BY <1>1, <2>1, StateFacts, LoweringFacts DEF IsOpen
    <2>2. CASE IsOpen(blocks, cur)
      <3>1. blocks' = SetTerm(blocks, cur, t) /\ blocks[cur].term.kind = "none" /\ Open
        BY <1>1, <2>2 DEF IsOpen, Open
      <3>2. /\ JumpTarget \in 1..Len(blocks) /\ JumpTarget # cur /\ blocks[JumpTarget].term.kind # "unreachable"
            /\ \A i \in 1..Len(constructs) : constructs[i].kind \in {"then", "else", "switch", "case"} => constructs[i].merge # JumpTarget
            /\ \A k \in 1..Len(constructs) : constructs[k].kind = "loop" => constructs[k].merge # JumpTarget \/ loop_state.hasBreak
            /\ \A j, k \in 1..Len(constructs) : constructs[j].kind = "loop" /\ constructs[k].kind = "loop" /\ k < j =>
                 constructs[k].merge # JumpTarget
        BY <1>1, <3>1, JumpTargetIs
      <3>3. t \in Term /\ t.kind = "br" /\ t.to = {JumpTarget} /\ GoodTerm(cur, t)
        BY <3>2, StateFacts, TermTypes DEF BlockId, GoodTerm
      <3> HIDE DEF t
      <3>4. blocks' \in Seq(Block) /\ Len(blocks') = Len(blocks) /\ blocks'[cur].term = t
        BY <3>1, <3>3, StateFacts, SetTermIs
      <3>5. /\ WaitingInOrder(blocks', cur, constructs) /\ FramesInOrder(blocks', cur, constructs)
            /\ LoopsInOrder(blocks', constructs, loop_state) /\ GraphInOrder(blocks')
        <4>1. /\ \A c \in t.to : c \in 1..Len(blocks) /\ c # cur /\ blocks[c].term.kind # "unreachable"
              /\ \A i \in 1..Len(constructs) : constructs[i].kind \in {"then", "else", "switch", "case"} => constructs[i].merge \notin t.to
              /\ \A k \in 1..Len(constructs) : constructs[k].kind = "loop" => constructs[k].merge \notin t.to \/ loop_state.hasBreak
              /\ \A j, k \in 1..Len(constructs) : constructs[j].kind = "loop" /\ constructs[k].kind = "loop" /\ k < j =>
                   constructs[k].merge \notin t.to
          BY <3>2, <3>3
        <4>2. /\ WaitingInOrder(blocks, cur, constructs) /\ FramesInOrder(blocks, cur, constructs)
              /\ LoopsInOrder(blocks, constructs, loop_state) /\ GraphInOrder(blocks)
          BY <1>1, StateFacts, LoweringFacts
        <4> QED BY <3>1, <3>3, <4>1, <4>2, StateFacts, CloseStep
      <3> QED BY <1>1, <3>3, <3>4, <3>5
    <2> QED BY <2>1, <2>2
  <1>4. UnwindInOrder(unwind', constructs', deferred', loop_state', cur')
    BY <1>1, <1>2, LoweringFacts DEF UnwindInOrder
  <1>5. LoweringTypeOK'
    BY <1>1, <1>2, <1>3, StateFacts, StateTypes DEF BuildInv, LoweringTypeOK
  <1>6. phase' = "lowering"
    BY <1>1 DEF Lowering
  <1> QED BY <1>1, <1>3, <1>4, <1>5, <1>6, Rebuilt

-----------------------------------------------------------------------------
(* Deferred statements that have blocks of their own. *)

(* bs2 is bs and n new blocks.                                             *)
Added(bs, n, lexical, bs2) ==
  /\ bs2 \in Seq(Block) /\ Len(bs2) = Len(bs) + n
  /\ \A c \in 1..Len(bs) : bs2[c] = bs[c]
  /\ \A c \in 1..Len(bs2) : c > Len(bs) => bs2[c].term = OpenTerm /\ bs2[c].ops = <<>> /\ bs2[c].entry = lexical

(* bs2 is bs with the terminator t in block b.                             *)
Ended(bs, b, t, bs2) ==
  /\ bs2 \in Seq(Block) /\ Len(bs2) = Len(bs)
  /\ bs2[b].term = t /\ bs2[b].ops = bs[b].ops /\ bs2[b].entry = bs[b].entry
  /\ \A c \in 1..Len(bs) : c # b => bs2[c] = bs[c]

AimsAt(bs, X, bs2) == \A c : Aimed(bs2, c) => Aimed(bs, c) \/ c \in X

LEMMA AddedIs ==
  ASSUME NEW bs \in Seq(Block), NEW n \in Nat, NEW lexical \in Seq(Defer)
  PROVE  Added(bs, n, lexical, AddBlocks(bs, n, lexical)) /\ AimsAt(bs, {}, AddBlocks(bs, n, lexical))
  <1> DEFINE bs2 == AddBlocks(bs, n, lexical)
  <1>0. Len(bs) \in Nat
    OBVIOUS
  <1>1. /\ bs2 \in Seq(Block) /\ Len(bs2) = Len(bs) + n
        /\ \A c \in 1..Len(bs) : bs2[c] = bs[c]
        /\ \A c \in 1..Len(bs2) : c > Len(bs) => bs2[c].term = OpenTerm /\ bs2[c].ops = <<>> /\ bs2[c].entry = lexical
    <2> HIDE DEF bs2
    <2>1. bs2 = AddBlocks(bs, n, lexical)
      BY DEF bs2
    <2> QED BY ZenonT(90), <2>1, AddBlocksIs
  <1> HIDE DEF bs2
  <1>2. /\ \A b \in 1..Len(bs) : bs2[b].term = bs[b].term
        /\ \A b \in 1..Len(bs2) : b > Len(bs) => bs2[b].term.to = {}
        /\ Len(bs) <= Len(bs2)
    BY <1>0, <1>1, TermTypes
  <1>3. \A c : Aimed(bs2, c) <=> Aimed(bs, c)
    BY <1>0, <1>1, <1>2, AimedSame
  <1>4. Added(bs, n, lexical, bs2) /\ AimsAt(bs, {}, bs2)
    BY <1>0, <1>1, <1>3 DEF Added, AimsAt
  <1> QED BY <1>4 DEF bs2

LEMMA EndedIs ==
  ASSUME NEW bs \in Seq(Block), NEW b \in 1..Len(bs), NEW t \in Term, bs[b].term.to = {}
  PROVE  Ended(bs, b, t, SetTerm(bs, b, t)) /\ AimsAt(bs, t.to, SetTerm(bs, b, t))
  <1>1. Ended(bs, b, t, SetTerm(bs, b, t))
    BY SetTermIs DEF Ended
  <1>2. AimsAt(bs, t.to, SetTerm(bs, b, t))
    BY AimedMore DEF AimsAt
  <1> QED BY <1>1, <1>2

(* What lowering a deferred if leaves.                                     *)
BranchOf(bs, b, lexical, bs2) ==
  LET l == Len(bs) IN
  /\ bs2 \in Seq(Block) /\ Len(bs2) = l + 2
  /\ \A c \in 1..l : c # b => bs2[c] = bs[c]
  /\ bs2[b].term = Br({l + 1, l + 2}) /\ bs2[b].ops = bs[b].ops /\ bs2[b].entry = bs[b].entry
  /\ bs2[l + 1].term = Br({l + 2}) /\ bs2[l + 2].term = OpenTerm
  /\ \A c \in {l + 1, l + 2} : bs2[c].ops = <<>> /\ bs2[c].entry = lexical
  /\ AimsAt(bs, {l + 1, l + 2}, bs2)

LEMMA BranchIs ==
  ASSUME NEW bs \in Seq(Block), NEW b \in 1..Len(bs), bs[b].term.to = {}, NEW lexical \in Seq(Defer)
  PROVE  BranchOf(bs, b, lexical, LowerBranch(bs, b, lexical))
  <1> DEFINE l == Len(bs)
             t1 == Br({l + 1, l + 2})  t2 == Br({l + 2})
             s0 == AddBlocks(bs, 2, lexical)  s1 == SetTerm(s0, b, t1)  s2 == SetTerm(s1, l + 1, t2)
  <1>3. LowerBranch(bs, b, lexical) = s2
    BY DEF LowerBranch
  <1>1. l \in Nat /\ b \in 1..(l + 2) /\ l + 1 \in 1..(l + 2) /\ l + 2 \in 1..(l + 2) /\ b # l + 1 /\ b # l + 2 /\ l + 1 # l + 2
    OBVIOUS
  <1>2. /\ t1 \in Term /\ t1.to = {l + 1, l + 2} /\ t2 \in Term /\ t2.to = {l + 2} /\ OpenTerm.to = {}
    <2>1. {l + 1, l + 2} \in SUBSET BlockId /\ {l + 2} \in SUBSET BlockId
      BY <1>1 DEF BlockId
    <2> QED BY <2>1, TermTypes
  <1> HIDE DEF t1, t2, s2, s1
  <1>4. Added(bs, 2, lexical, s0) /\ AimsAt(bs, {}, s0)
    BY AddedIs
  <1> HIDE DEF s0
  <1>5. /\ s0 \in Seq(Block) /\ Len(s0) = l + 2 /\ (\A c \in 1..l : s0[c] = bs[c])
        /\ \A c \in {l + 1, l + 2} : s0[c].term = OpenTerm /\ s0[c].ops = <<>> /\ s0[c].entry = lexical
    BY <1>1, <1>4 DEF Added
  <1>6. s0[b].term.to = {} /\ b \in 1..Len(s0)
    BY <1>1, <1>5
  <1>7. Ended(s0, b, t1, s1) /\ AimsAt(s0, t1.to, s1)
    BY <1>2, <1>5, <1>6, EndedIs DEF s1
  <1>8. s1 \in Seq(Block) /\ s1[l + 1].term.to = {} /\ l + 1 \in 1..Len(s1)
    BY <1>1, <1>2, <1>5, <1>7 DEF Ended
  <1>9. Ended(s1, l + 1, t2, s2) /\ AimsAt(s1, t2.to, s2)
    BY <1>2, <1>8, EndedIs DEF s2
  <1>10. s2 \in Seq(Block) /\ Len(s2) = l + 2 /\ \A c \in 1..l : c # b => s2[c] = bs[c]
    BY <1>1, <1>5, <1>7, <1>9 DEF Ended
  <1>11. s2[b].term = t1 /\ s2[b].ops = bs[b].ops /\ s2[b].entry = bs[b].entry
    BY <1>1, <1>5, <1>7, <1>9 DEF Ended
  <1>12. /\ s2[l + 1].term = t2 /\ s2[l + 2].term = OpenTerm
         /\ \A c \in {l + 1, l + 2} : s2[c].ops = <<>> /\ s2[c].entry = lexical
    <2>1. s1[l + 1] = s0[l + 1] /\ s2[l + 2] = s0[l + 2]
      BY <1>1, <1>5, <1>7, <1>9 DEF Ended
    <2>2. s2[l + 1].term = t2 /\ s2[l + 1].ops = s1[l + 1].ops /\ s2[l + 1].entry = s1[l + 1].entry
      BY <1>9 DEF Ended
    <2> QED BY <1>5, <2>1, <2>2
  <1>13. AimsAt(bs, {l + 1, l + 2}, s2)
    BY <1>2, <1>4, <1>7, <1>9 DEF AimsAt
  <1> QED BY <1>3, <1>10, <1>11, <1>12, <1>13 DEF BranchOf, t1, t2

(* What lowering a deferred endless loop leaves.                           *)
DivergeOf(bs, b, lexical, bs2) ==
  LET l == Len(bs) IN
  /\ bs2 \in Seq(Block) /\ Len(bs2) = l + 3
  /\ \A c \in 1..l : c # b => bs2[c] = bs[c]
  /\ bs2[b].term = Br({l + 1}) /\ bs2[b].ops = bs[b].ops /\ bs2[b].entry = bs[b].entry
  /\ bs2[l + 1].term = Br({l + 2}) /\ bs2[l + 2].term = Br({l + 1}) /\ bs2[l + 3].term = UnreachableTerm
  /\ \A c \in {l + 1, l + 2, l + 3} : bs2[c].ops = <<>> /\ bs2[c].entry = lexical
  /\ AimsAt(bs, {l + 1, l + 2}, bs2)

LEMMA DivergeIs ==
  ASSUME NEW bs \in Seq(Block), NEW b \in 1..Len(bs), bs[b].term.to = {}, NEW lexical \in Seq(Defer)
  PROVE  DivergeOf(bs, b, lexical, LowerDiverge(bs, b, lexical))
  <1> DEFINE l == Len(bs)
             t1 == Br({l + 1})  t2 == Br({l + 2})  t4 == UnreachableTerm
             s0 == AddBlocks(bs, 3, lexical)  s1 == SetTerm(s0, b, t1)  s2 == SetTerm(s1, l + 1, t2)
             s3 == SetTerm(s2, l + 2, t1)  s4 == SetTerm(s3, l + 3, t4)
  <1>3. LowerDiverge(bs, b, lexical) = s4
    BY DEF LowerDiverge
  <1>1. /\ l \in Nat /\ b \in 1..(l + 3) /\ l + 1 \in 1..(l + 3) /\ l + 2 \in 1..(l + 3) /\ l + 3 \in 1..(l + 3)
        /\ b # l + 1 /\ b # l + 2 /\ b # l + 3 /\ l + 1 # l + 2 /\ l + 1 # l + 3 /\ l + 2 # l + 3
    OBVIOUS
  <1>2. t1 \in Term /\ t1.to = {l + 1} /\ t2 \in Term /\ t2.to = {l + 2} /\ OpenTerm.to = {} /\ t4 \in Term /\ t4.to = {}
    <2>1. {l + 1} \in SUBSET BlockId /\ {l + 2} \in SUBSET BlockId
      BY <1>1 DEF BlockId
    <2> QED BY <2>1, TermTypes
  <1> HIDE DEF t1, t2, t4, s4, s3, s2, s1
  <1>4. Added(bs, 3, lexical, s0) /\ AimsAt(bs, {}, s0)
    BY AddedIs
  <1> HIDE DEF s0
  <1>5. /\ s0 \in Seq(Block) /\ Len(s0) = l + 3 /\ (\A c \in 1..l : s0[c] = bs[c])
        /\ \A c \in {l + 1, l + 2, l + 3} : s0[c].term = OpenTerm /\ s0[c].ops = <<>> /\ s0[c].entry = lexical
    BY SMTT(30), <1>1, <1>4 DEF Added
  <1>6. s0[b].term.to = {} /\ b \in 1..Len(s0)
    BY <1>1, <1>5
  <1>7. Ended(s0, b, t1, s1) /\ AimsAt(s0, t1.to, s1)
    BY <1>2, <1>5, <1>6, EndedIs DEF s1
  <1>8. s1 \in Seq(Block) /\ s1[l + 1].term.to = {} /\ l + 1 \in 1..Len(s1) /\ s1[l + 1] = s0[l + 1]
    BY <1>1, <1>2, <1>5, <1>7 DEF Ended
  <1>9. Ended(s1, l + 1, t2, s2) /\ AimsAt(s1, t2.to, s2)
    BY <1>2, <1>8, EndedIs DEF s2
  <1>10. s2 \in Seq(Block) /\ s2[l + 2].term.to = {} /\ l + 2 \in 1..Len(s2) /\ s2[l + 2] = s0[l + 2]
    BY <1>1, <1>2, <1>5, <1>7, <1>9 DEF Ended
  <1>11. Ended(s2, l + 2, t1, s3) /\ AimsAt(s2, t1.to, s3)
    BY <1>2, <1>10, EndedIs DEF s3
  <1>12. s3 \in Seq(Block) /\ s3[l + 3].term.to = {} /\ l + 3 \in 1..Len(s3) /\ s3[l + 3] = s0[l + 3]
    <2>1. s3 \in Seq(Block) /\ Len(s3) = l + 3 /\ s3[l + 3] = s2[l + 3]
      BY <1>1, <1>5, <1>7, <1>9, <1>11 DEF Ended
    <2>2. s2[l + 3] = s0[l + 3]
      BY <1>1, <1>5, <1>7, <1>9 DEF Ended
    <2> QED BY <1>1, <1>2, <1>5, <2>1, <2>2
  <1>13. Ended(s3, l + 3, t4, s4) /\ AimsAt(s3, t4.to, s4)
    BY <1>2, <1>12, EndedIs DEF s4
  <1>14. /\ Len(s1) = l + 3 /\ Len(s2) = l + 3 /\ Len(s3) = l + 3 /\ Len(s4) = l + 3 /\ s4 \in Seq(Block)
    BY <1>5, <1>7, <1>9, <1>11, <1>13 DEF Ended
  <1>15. ASSUME NEW c \in 1..l PROVE s4[c] = s1[c]
    <2>1. c \in 1..(l + 3) /\ c # l + 1 /\ c # l + 2 /\ c # l + 3
      BY <1>1
    <2>2. s2[c] = s1[c] /\ s3[c] = s2[c] /\ s4[c] = s3[c]
      BY <1>9, <1>11, <1>13, <1>14, <2>1 DEF Ended
    <2> QED BY <2>2
  <1>16. \A c \in 1..l : c # b => s4[c] = bs[c]
    <2>1. \A c \in 1..l : c \in 1..(l + 3)
      BY <1>1
    <2> QED BY <1>5, <1>7, <1>15, <2>1 DEF Ended
  <1>17. s4[b].term = t1 /\ s4[b].ops = bs[b].ops /\ s4[b].entry = bs[b].entry
    BY <1>5, <1>7, <1>15 DEF Ended
  <1>18. s4[l + 1] = s2[l + 1] /\ s4[l + 2] = s3[l + 2]
    <2>1. s4[l + 1] = s3[l + 1] /\ s4[l + 2] = s3[l + 2]
      BY <1>1, <1>13, <1>14 DEF Ended
    <2>2. s3[l + 1] = s2[l + 1]
      BY <1>1, <1>11, <1>14 DEF Ended
    <2> QED BY <2>1, <2>2
  <1>19. s2[l + 1].term = t2 /\ s2[l + 1].ops = <<>> /\ s2[l + 1].entry = lexical
    BY <1>5, <1>8, <1>9 DEF Ended
  <1>20. s3[l + 2].term = t1 /\ s3[l + 2].ops = <<>> /\ s3[l + 2].entry = lexical
    BY <1>5, <1>10, <1>11 DEF Ended
  <1>21. s4[l + 3].term = t4 /\ s4[l + 3].ops = <<>> /\ s4[l + 3].entry = lexical
    BY <1>5, <1>12, <1>13 DEF Ended
  <1>22. AimsAt(bs, {l + 1, l + 2}, s4)
    BY <1>2, <1>4, <1>7, <1>9, <1>11, <1>13 DEF AimsAt
  <1> QED BY <1>3, <1>14, <1>16, <1>17, <1>18, <1>19, <1>20, <1>21, <1>22 DEF DivergeOf, t1, t2, t4

InOrder(bs, cu, fs, ls) ==
  WaitingInOrder(bs, cu, fs) /\ FramesInOrder(bs, cu, fs) /\ LoopsInOrder(bs, fs, ls) /\ GraphInOrder(bs)

(* The current block is closed by jumps to new blocks, one of which is the *)
(* new current one; the constructs stay.                                   *)
LEMMA NestStep ==
  ASSUME NEW bs \in Seq(Block), NEW bs2 \in Seq(Block), NEW cu \in 1..Len(bs), NEW cu2 \in 1..Len(bs2), NEW X,
         NEW fs \in Seq(ConstructFrame), NEW ls, InOrder(bs, cu, fs, ls),
         Len(bs) <= Len(bs2), cu2 > Len(bs), bs[cu].term.kind = "none", bs2[cu].term.kind = "br",
         \A c \in 1..Len(bs) : c # cu => bs2[c] = bs[c],
         \A c \in 1..Len(bs2) : c > Len(bs) => GoodTerm(c, bs2[c].term) /\ (c # cu2 => bs2[c].term.kind # "none"),
         AimsAt(bs, X, bs2),
         \A c \in X : c \in 1..Len(bs2) /\ c > Len(bs) /\ bs2[c].term.kind # "unreachable",
         fs[Len(fs)].kind # "switch"
  PROVE  InOrder(bs2, cu2, fs, ls)
  <1>1. WaitingInOrder(bs, cu, fs) /\ FramesInOrder(bs, cu, fs) /\ LoopsInOrder(bs, fs, ls) /\ GraphInOrder(bs)
    BY DEF InOrder
  <1>2. Len(fs) \in Nat /\ Len(fs) > 0 /\ Beneath(fs, fs) /\ Len(fs) \in 1..Len(fs) /\ Len(bs) \in Nat /\ Len(bs2) \in Nat
    BY <1>1, FrameTypes DEF FramesInOrder, Beneath
  <1>3. Grows(bs, bs2, X)
    BY <1>2 DEF Grows, AimsAt
  <1>4. \A i \in 1..Len(fs) : fs[i].kind \in {"then", "else", "loop", "switch", "case"} => fs[i].merge \notin X
    <2> SUFFICES ASSUME NEW i \in 1..Len(fs), fs[i].kind \in {"then", "else", "loop", "switch", "case"}, fs[i].merge \in X PROVE FALSE
      OBVIOUS
    <2>1. Waits(fs[i], fs[i].merge) /\ fs[i].merge \in Nat
      BY FrameTypes DEF Waits
    <2>2. fs[i].merge \in 1..Len(bs)
      BY <1>1, <2>1 DEF WaitingInOrder
    <2> QED BY <1>2, <2>2
  <1>5. WaitingInOrder(bs2, cu2, fs)
    <2> DEFINE C == {cu}
    <2>1. C \in SUBSET Nat /\ Touches(bs, cu, fs, C) /\ Len(fs) \in (Len(fs) - 1)..(Len(fs) + 1)
      BY <1>2 DEF Touches
    <2>2. \A b \in 1..Len(bs) : b \notin C => bs2[b].term.kind = bs[b].term.kind /\ (b = cu \/ bs2[b].ops = bs[b].ops)
      OBVIOUS
    <2>3. \A b \in C \cup {cu} : b # cu2 => bs2[b].term.kind # "none"
      OBVIOUS
    <2>4. ~(Len(fs) < Len(fs)) /\ ~(Len(fs) > Len(fs))
      BY <1>2
    <2>5. \A b \in Nat : Waits(fs[Len(fs)], b) <=> Waits(fs[Len(fs)], b) /\ b \notin C
      BY <1>1, <1>2 DEF WaitingInOrder
    <2>6. \A b \in 1..Len(bs2) : ~(b > Len(bs) /\ b # cu2 /\ bs2[b].term.kind = "none")
      OBVIOUS
    <2> HIDE DEF C
    <2> QED BY <1>1, <1>2, <2>1, <2>2, <2>3, <2>4, <2>5, <2>6, WaitStep
  <1>6. FramesInOrder(bs2, cu2, fs)
    <2>1. \A i \in 1..Len(fs) : FrameInOrder(bs, fs[i]) /\ fs[i] \in ConstructFrame
                                /\ (fs[i].kind \in {"then", "else", "switch", "case"} => fs[i].merge \notin X)
      BY <1>1, <1>4, FrameTypes DEF FramesInOrder
    <2>2. \A i \in 1..Len(fs) : FrameInOrder(bs2, fs[i])
      BY <1>3, <2>1, FrameStays
    <2> QED BY <1>1, <2>2 DEF FramesInOrder
  <1>7. LoopsInOrder(bs2, fs, ls)
    <2>1. Len(fs) \in (Len(fs) - 1)..(Len(fs) + 1) /\ ~(Len(fs) > Len(fs)) /\ ~(Len(fs) < Len(fs))
      BY <1>2
    <2>2. SameLoop(fs[Len(fs)], fs[Len(fs)]) /\ LoopMoves(ls, ls) /\ (ls.hasBreak => ls.sawBreak)
      BY <1>1 DEF SameLoop, LoopMoves, LoopsInOrder
    <2> QED BY <1>1, <1>2, <1>3, <1>4, <2>1, <2>2, LoopsStep
  <1>8. GraphInOrder(bs2)
    <2>1. \A c \in X : c \in 1..Len(bs2) /\ bs2[c].term.kind # "unreachable"
      OBVIOUS
    <2>2. \A b \in 1..Len(bs2) : \/ b <= Len(bs) /\ bs2[b].term = bs[b].term
                                 \/ GoodTerm(b, bs2[b].term) /\ (bs2[b].term.kind = "unreachable" => ~ Aimed(bs, b))
      <3> SUFFICES ASSUME NEW b \in 1..Len(bs2)
                   PROVE  \/ b <= Len(bs) /\ bs2[b].term = bs[b].term
                          \/ GoodTerm(b, bs2[b].term) /\ (bs2[b].term.kind = "unreachable" => ~ Aimed(bs, b))
        OBVIOUS
      <3>1. CASE b = cu
        BY <3>1 DEF GoodTerm
      <3>2. CASE b # cu /\ b <= Len(bs)
        <4>1. b \in 1..Len(bs)
          BY <1>2, <3>2
        <4> QED BY <3>2, <4>1
      <3>3. CASE b > Len(bs)
        <4>1. ~ Aimed(bs, b)
          BY <1>1, <1>2, <3>3 DEF GraphInOrder
        <4> QED BY <3>3, <4>1
      <3> QED BY <1>2, <3>1, <3>2, <3>3
    <2> QED BY <1>1, <1>3, <2>1, <2>2, GraphStep
  <1> QED BY <1>5, <1>6, <1>7, <1>8 DEF InOrder

(* A copy of the deferred statement d is lowered.                          *)
LEMMA EmitInOrder ==
  ASSUME BuildInv, Lowering, NEW o \in {"reg", "run"}, NEW d \in Defer
  PROVE  LET ran == Emit(blocks, cur, o, d) IN
         /\ ran \in Seq(Block) /\ Len(ran) = Len(blocks) /\ ran[cur].term = blocks[cur].term
         /\ InOrder(ran, cur, constructs, loop_state)
  <1> DEFINE ran == Emit(blocks, cur, o, d)
  <1>1. /\ ran \in Seq(Block) /\ Len(ran) = Len(blocks) /\ ran[cur].term = blocks[cur].term
        /\ \A c \in 1..Len(blocks) : c # cur => ran[c] = blocks[c]
    BY ZenonT(90), StateFacts, EmitIs
  <1> HIDE DEF ran
  <1>2. \A b \in 1..Len(blocks) : ran[b].term = blocks[b].term /\ (b = cur \/ ran[b].ops = blocks[b].ops)
    BY <1>1
  <1>3. LoopMoves(loop_state, loop_state) /\ (loop_state.hasBreak => loop_state.sawBreak)
    BY LoweringFacts DEF LoopMoves, LoopsInOrder
  <1>4. InOrder(ran, cur, constructs, loop_state)
    BY <1>1, <1>2, <1>3, StateFacts, LoweringFacts, KeepStep DEF InOrder
  <1> QED BY <1>1, <1>4 DEF ran

LEMMA RunDeferredNext ==
  ASSUME BuildInv, RunDeferred, phase' = "lowering", blocks' \in Seq(Block), cur' \in 1..Len(blocks'), bound' \subseteq Nat,
         InOrder(blocks', cur', constructs, loop_state),
         blocks'[cur'].term.kind = "none" => reachable \/ unwind.why # "block"
  PROVE  BuildInv'
  <1> DEFINE u == unwind  u2 == [unwind EXCEPT !.next = @ - 1]
  <1>1. /\ Lowering /\ unwind.why # "idle" /\ unwind.next > unwind.base /\ unwind' = u2
        /\ UNCHANGED <<deferred, loop_state, constructs, sites, reachable, pc, live>>
    BY DEF RunDeferred, running
  <1>2. /\ u.base \in Nat /\ u.next \in Nat /\ u.next - 1 \in Nat /\ u.base <= u.next - 1
        /\ \A m \in Nat : u.next <= m => u.next - 1 <= m
    BY <1>1, StateTypes
  <1>3. u2 \in Unwind /\ u2.why = u.why /\ u2.base = u.base /\ u2.next = u.next - 1 /\ u2.value = u.value
    BY <1>2, StateFacts DEF Unwind
  <1>4. LoweringTypeOK'
    BY <1>1, <1>3, StateFacts, StateTypes DEF BuildInv, LoweringTypeOK
  <1> HIDE DEF u2
  <1>5. UnwindInOrder(unwind', constructs', deferred', loop_state', cur')
    <2>1. UnwindInOrder(u, constructs, deferred, loop_state, cur)
      BY <1>1, LoweringFacts
    <2>2. Len(deferred) \in Nat /\ u.next <= Len(deferred)
      BY <1>1, <2>1, StateFacts DEF UnwindInOrder
    <2>3. u2.base <= u2.next /\ u2.next <= Len(deferred) /\ Len(deferred) > 0
      BY <1>1, <1>2, <1>3, <2>2
    <2>4. Len(deferred) # 0
      BY <2>2, <2>3
    <2>5. /\ u.why = "return" /\ ~ReturnsValue => u.value = NoBlock
      BY <2>1 DEF UnwindInOrder
    <2>6. UnwindInOrder(u2, constructs, deferred, loop_state, cur')
      BY <1>3, <2>1, <2>3, <2>4, <2>5 DEF UnwindInOrder
    <2> QED BY <1>1, <2>6
  <1>6. unwind'.why \in {"idle", "block"} /\ blocks'[cur'].term.kind = "none" => reachable'
    BY <1>1, <1>3
  <1>7. /\ WaitingInOrder(blocks', cur', constructs') /\ FramesInOrder(blocks', cur', constructs')
        /\ LoopsInOrder(blocks', constructs', loop_state') /\ GraphInOrder(blocks')
    BY <1>1 DEF InOrder
  <1> QED BY <1>1, <1>4, <1>5, <1>6, <1>7, Rebuilt

LEMMA RunDeferredInv == ASSUME BuildInv, RunDeferred PROVE BuildInv'
  <1> DEFINE d == NextDeferred(unwind)
             lexical == Prefix(deferred, unwind.next - 1)
             ran == Emit(blocks, cur, "run", d)
  <1>1. /\ Lowering /\ unwind.why # "idle" /\ blocks[cur].term.kind = "none" /\ unwind.next > unwind.base
        /\ unwind' = [unwind EXCEPT !.next = @ - 1]
        /\ UNCHANGED <<deferred, loop_state, constructs, sites, reachable, pc, live>>
    BY DEF RunDeferred, running, Open, IsOpen
  <1>2. /\ d.kind = "plain" => blocks' = ran /\ UNCHANGED <<phase, cur, bound>>
        /\ d.kind = "branch" => blocks' = LowerBranch(ran, cur, lexical) /\ cur' = Len(blocks) + 2 /\ UNCHANGED <<phase, bound>>
        /\ d.kind = "diverge" => blocks' = LowerDiverge(ran, cur, lexical) /\ cur' = Len(blocks) + 3 /\ UNCHANGED <<phase, bound>>
        /\ d.kind = "declare" => \/ phase' = "failed" /\ UNCHANGED <<blocks, bound, cur>>
                                 \/ blocks' = ran /\ bound' = bound \cup {d.site} /\ UNCHANGED <<phase, cur>>
    BY DEF RunDeferred, New
  <1>3. unwind.next \in 1..Len(deferred) /\ unwind.next - 1 \in 0..Len(deferred)
    <2>1. unwind.next \in Nat /\ unwind.base \in Nat /\ unwind.next <= Len(deferred) /\ Len(deferred) \in Nat
      BY <1>1, LoweringFacts, StateFacts, StateTypes DEF UnwindInOrder
    <2> QED BY <1>1, <2>1
  <1>4. d \in Defer /\ d.site \in Nat /\ d.kind \in AllDeferKinds /\ lexical \in Seq(Defer)
    <2>1. d \in Defer
      BY <1>3, StateFacts DEF NextDeferred
    <2>2. lexical \in Seq(Defer)
      BY <1>3, StateFacts, SubSeqIs DEF Prefix
    <2> QED BY <2>1, <2>2 DEF Defer
  <1>5. /\ ran \in Seq(Block) /\ Len(ran) = Len(blocks) /\ ran[cur].term = blocks[cur].term
        /\ InOrder(ran, cur, constructs, loop_state)
    BY <1>1, <1>4, EmitInOrder
  <1> HIDE DEF d, lexical, ran
  <1>6. unwind.why = "block" => reachable
    BY <1>1, LoweringFacts DEF Open, IsOpen
  <1>7. Len(blocks) \in Nat /\ cur \in 1..Len(ran) /\ cur \in 1..Len(blocks) /\ ran[cur].term.kind = "none" /\ ran[cur].term.to = {}
    <2>1. blocks[cur].term.to = {}
      BY <1>1, StateFacts DEF GraphInOrder
    <2> QED BY <1>1, <1>5, <2>1, StateFacts
  <1>8. constructs[Len(constructs)].kind # "switch" /\ phase = "lowering" /\ bound \subseteq Nat
    BY <1>1, LoweringFacts, StateFacts DEF UnwindInOrder, Lowering
  <1>9. CASE blocks' = ran /\ cur' = cur /\ phase' = phase /\ bound' \subseteq Nat
    BY <1>5, <1>6, <1>7, <1>8, <1>9, RunDeferredNext
  <1>10. CASE d.kind = "branch"
    <2> DEFINE l == Len(ran)  X == {l + 1, l + 2}
    <2>1. BranchOf(ran, cur, lexical, blocks')
      BY <1>2, <1>4, <1>5, <1>7, <1>10, BranchIs
    <2>2. /\ blocks' \in Seq(Block) /\ Len(blocks') = l + 2 /\ cur' = l + 2 /\ l \in Nat
          /\ \A c \in 1..l : c # cur => blocks'[c] = ran[c]
          /\ AimsAt(ran, X, blocks')
      BY <1>2, <1>5, <1>7, <1>10, <2>1 DEF BranchOf
    <2>3. /\ blocks'[cur].term = Br({l + 1, l + 2}) /\ blocks'[l + 1].term = Br({l + 2}) /\ blocks'[l + 2].term = OpenTerm
      BY <2>1 DEF BranchOf
    <2>4. /\ blocks'[cur].term.kind = "br" /\ blocks'[l + 1].term.kind = "br" /\ blocks'[l + 2].term.kind = "none" /\ blocks'[l + 2].term.to = {}
      BY <2>3, TermTypes
    <2>5. GoodTerm(l + 1, blocks'[l + 1].term) /\ GoodTerm(l + 2, blocks'[l + 2].term)
      BY <2>4 DEF GoodTerm
    <2> HIDE DEF l
    <2>6. \A c \in 1..Len(blocks') : c > l => c = l + 1 \/ c = l + 2
      BY <2>2
    <2>7. \A c \in 1..Len(blocks') : c > l => GoodTerm(c, blocks'[c].term) /\ (c # cur' => blocks'[c].term.kind # "none")
      BY <2>2, <2>4, <2>5, <2>6
    <2>8. \A c \in X : c \in 1..Len(blocks') /\ c > l /\ blocks'[c].term.kind # "unreachable"
      BY <2>2, <2>4
    <2>9. cur' \in 1..Len(blocks') /\ cur' > l /\ l <= Len(blocks') /\ l = Len(ran)
      BY <2>2 DEF l
    <2> HIDE DEF X
    <2>10. InOrder(blocks', cur', constructs, loop_state)
      <3>1. /\ Len(ran) <= Len(blocks') /\ cur' > Len(ran)
            /\ \A c \in 1..Len(ran) : c # cur => blocks'[c] = ran[c]
            /\ \A c \in 1..Len(blocks') : c > Len(ran) => GoodTerm(c, blocks'[c].term) /\ (c # cur' => blocks'[c].term.kind # "none")
            /\ \A c \in X : c \in 1..Len(blocks') /\ c > Len(ran) /\ blocks'[c].term.kind # "unreachable"
        BY <2>2, <2>7, <2>8, <2>9
      <3> QED BY ZenonT(90), <1>5, <1>7, <1>8, <2>2, <2>4, <2>9, <3>1, StateFacts, NestStep
    <2> QED BY <1>2, <1>6, <1>8, <1>10, <2>2, <2>9, <2>10, RunDeferredNext
  <1>11. CASE d.kind = "diverge"
    <2> DEFINE l == Len(ran)  X == {l + 1, l + 2}
    <2>1. DivergeOf(ran, cur, lexical, blocks')
      BY <1>2, <1>4, <1>5, <1>7, <1>11, DivergeIs
    <2>2. /\ blocks' \in Seq(Block) /\ Len(blocks') = l + 3 /\ cur' = l + 3 /\ l \in Nat
          /\ \A c \in 1..l : c # cur => blocks'[c] = ran[c]
          /\ AimsAt(ran, X, blocks')
      BY <1>2, <1>5, <1>7, <1>11, <2>1 DEF DivergeOf
    <2>3. /\ blocks'[cur].term = Br({l + 1}) /\ blocks'[l + 1].term = Br({l + 2}) /\ blocks'[l + 2].term = Br({l + 1})
          /\ blocks'[l + 3].term = UnreachableTerm
      BY <2>1 DEF DivergeOf
    <2>4. /\ blocks'[cur].term.kind = "br" /\ blocks'[l + 1].term.kind = "br" /\ blocks'[l + 2].term.kind = "br"
          /\ blocks'[l + 3].term.kind = "unreachable" /\ blocks'[l + 3].term.to = {}
      BY <2>3, TermTypes
    <2>5. GoodTerm(l + 1, blocks'[l + 1].term) /\ GoodTerm(l + 2, blocks'[l + 2].term) /\ GoodTerm(l + 3, blocks'[l + 3].term)
      BY <2>4 DEF GoodTerm
    <2> HIDE DEF l
    <2>6. \A c \in 1..Len(blocks') : c > l => c = l + 1 \/ c = l + 2 \/ c = l + 3
      BY <2>2
    <2>7. \A c \in 1..Len(blocks') : c > l => GoodTerm(c, blocks'[c].term) /\ (c # cur' => blocks'[c].term.kind # "none")
      BY <2>2, <2>4, <2>5, <2>6
    <2>8. \A c \in X : c \in 1..Len(blocks') /\ c > l /\ blocks'[c].term.kind # "unreachable"
      BY <2>2, <2>4
    <2>9. cur' \in 1..Len(blocks') /\ cur' > l /\ l <= Len(blocks') /\ l = Len(ran)
      BY <2>2 DEF l
    <2> HIDE DEF X
    <2>10. InOrder(blocks', cur', constructs, loop_state)
      <3>1. /\ Len(ran) <= Len(blocks') /\ cur' > Len(ran)
            /\ \A c \in 1..Len(ran) : c # cur => blocks'[c] = ran[c]
            /\ \A c \in 1..Len(blocks') : c > Len(ran) => GoodTerm(c, blocks'[c].term) /\ (c # cur' => blocks'[c].term.kind # "none")
            /\ \A c \in X : c \in 1..Len(blocks') /\ c > Len(ran) /\ blocks'[c].term.kind # "unreachable"
        BY <2>2, <2>7, <2>8, <2>9
      <3> QED BY ZenonT(90), <1>5, <1>7, <1>8, <2>2, <2>4, <2>9, <3>1, StateFacts, NestStep
    <2> QED BY <1>2, <1>6, <1>8, <1>11, <2>2, <2>9, <2>10, RunDeferredNext
  <1>12. CASE phase' = "failed" /\ UNCHANGED <<blocks, bound, cur>>
    <2>1. unwind' \in Unwind
      <3>1. unwind.next - 1 \in Nat
        BY <1>3, StateFacts
      <3> QED BY <1>1, <3>1, StateFacts DEF Unwind
    <2>2. LoweringTypeOK'
      BY <1>1, <1>12, <2>1, StateFacts, StateTypes DEF BuildInv, LoweringTypeOK
    <2> QED BY <1>1, <1>12, <2>2 DEF BuildInv, RunInOrder, Lowering
  <1>13. d.kind = "declare" /\ blocks' = ran /\ bound' = bound \cup {d.site} => bound' \subseteq Nat
    BY <1>4, <1>8
  <1> QED BY <1>2, <1>4, <1>8, <1>9, <1>10, <1>11, <1>12, <1>13 DEF AllDeferKinds

-----------------------------------------------------------------------------
(* Steps that begin, move on or end a construct. *)

AllMerging == {"then", "else", "loop", "switch", "case"}

(* No block waits below for what is new, closed, or waits in the top frame. *)
LEMMA MergesBelow ==
  ASSUME NEW bs \in Seq(Block), NEW cu, NEW fs \in Seq(ConstructFrame), WaitingInOrder(bs, cu, fs), NEW X \in SUBSET Nat,
         \A c \in X : c > Len(bs) \/ (c \in 1..Len(bs) /\ bs[c].term.kind # "none") \/ Waits(fs[Len(fs)], c)
  PROVE  \A i \in 1..Len(fs) : i < Len(fs) /\ fs[i].kind \in AllMerging => fs[i].merge \notin X
  <1> SUFFICES ASSUME NEW i \in 1..Len(fs), i < Len(fs), fs[i].kind \in AllMerging, NEW c \in X, c = fs[i].merge PROVE FALSE
    OBVIOUS
  <1>1. c \in Nat /\ fs[i].kind \in {"then", "else", "loop", "switch", "case"}
    BY DEF AllMerging
  <1> QED BY <1>1, LowerMerges

LEMMA PushStep ==
  ASSUME NEW bs \in Seq(Block), NEW bs2 \in Seq(Block), NEW cu \in 1..Len(bs), NEW cu2 \in 1..Len(bs2), NEW X \in SUBSET Nat,
         NEW C \in SUBSET {cu}, NEW fs \in Seq(ConstructFrame), NEW f \in ConstructFrame, NEW ls, NEW ls2,
         InOrder(bs, cu, fs, ls), fs[Len(fs)].kind # "switch", ~ fs[Len(fs)].left,
         Len(bs) <= Len(bs2), cu2 = cu \/ cu2 > Len(bs),
         \A b \in 1..Len(bs) : b \notin C => bs2[b] = bs[b],
         \A b \in C : bs2[b].term.kind = "br", cu # cu2 => bs2[cu].term.kind # "none",
         \A b \in Nat : Waits(f, b) => b \in (Len(bs) + 1)..Len(bs2) /\ b # cu2 /\ bs2[b].term.kind = "none" /\ bs2[b].ops = <<>>,
         \A b \in 1..Len(bs2) : b > Len(bs) /\ b # cu2 /\ bs2[b].term.kind = "none" => Waits(f, b),
         \A b \in 1..Len(bs2) : b > Len(bs) => GoodTerm(b, bs2[b].term),
         AimsAt(bs, X, bs2), \A c \in X : c \in 1..Len(bs2) /\ c > Len(bs) /\ bs2[c].term.kind # "unreachable",
         FrameInOrder(bs2, f), f.kind # "function", fs[Len(fs)].base <= f.base, f.kind = "switch" => bs2[cu2].term.kind # "none",
         f.kind # "loop" => ls2 = ls,
         f.kind = "loop" => f.loop_state = ls /\ ls2.inside /\ OfLoop(bs2, ls2, f) /\ (ls2.hasBreak => ls2.sawBreak)
  PROVE  InOrder(bs2, cu2, Append(fs, f), ls2)
  <1> DEFINE fs2 == Append(fs, f)  n == Len(fs)
  <1>1. WaitingInOrder(bs, cu, fs) /\ FramesInOrder(bs, cu, fs) /\ LoopsInOrder(bs, fs, ls) /\ GraphInOrder(bs)
    BY DEF InOrder
  <1>2. n \in Nat /\ n > 0 /\ n \in 1..n /\ Len(bs) \in Nat /\ Len(bs2) \in Nat
    BY <1>1, FrameTypes DEF FramesInOrder
  <1>3. /\ fs2 \in Seq(ConstructFrame) /\ Len(fs2) = n + 1 /\ fs2[n + 1] = f /\ (\A i \in 1..n : fs2[i] = fs[i]) /\ Beneath(fs, fs2)
    BY FsPush
  <1> HIDE DEF fs2
  <1>4. Grows(bs, bs2, X)
    <2>1. \A b \in 1..Len(bs) : bs[b].term.kind = "br" => bs2[b].term.kind = "br"
      OBVIOUS
    <2> QED BY <2>1 DEF Grows, AimsAt
  <1>5. \A i \in 1..n : fs[i].kind \in {"then", "else", "loop", "switch", "case"} => fs[i].merge \notin X
    <2> SUFFICES ASSUME NEW i \in 1..n, fs[i].kind \in {"then", "else", "loop", "switch", "case"}, fs[i].merge \in X PROVE FALSE
      OBVIOUS
    <2>1. Waits(fs[i], fs[i].merge) /\ fs[i].merge \in Nat
      BY FrameTypes DEF Waits
    <2>2. fs[i].merge \in 1..Len(bs)
      BY <1>1, <2>1 DEF WaitingInOrder
    <2> QED BY <1>2, <2>2
  <1>6. WaitingInOrder(bs2, cu2, fs2)
    <2>1. C \in SUBSET Nat /\ Touches(bs, cu, fs, C) /\ Len(fs2) \in (Len(fs) - 1)..(Len(fs) + 1)
      BY <1>2, <1>3 DEF Touches
    <2>2. \A b \in 1..Len(bs) : b \notin C => bs2[b].term.kind = bs[b].term.kind /\ (b = cu \/ bs2[b].ops = bs[b].ops)
      OBVIOUS
    <2>3. \A b \in C \cup {cu} : b # cu2 => bs2[b].term.kind # "none"
      OBVIOUS
    <2>4. \A b \in Nat : Waits(fs2[Len(fs)], b) <=> Waits(fs[Len(fs)], b) /\ b \notin C
      <3>1. fs2[Len(fs)] = fs[Len(fs)] /\ \A b \in Nat : Waits(fs[Len(fs)], b) => b # cu
        BY <1>1, <1>2, <1>3 DEF WaitingInOrder
      <3> QED BY <3>1
    <2>5. /\ ~(Len(fs2) < Len(fs)) /\ Len(fs2) > Len(fs) /\ fs2[Len(fs2)] = f
          /\ \A i \in 1..Len(fs2) : i < Len(fs) => \A b \in Nat : Waits(fs2[i], b) <=> Waits(fs[i], b)
      <3>1. ~(Len(fs2) < Len(fs)) /\ Len(fs2) > Len(fs) /\ fs2[Len(fs2)] = f
        BY <1>2, <1>3
      <3>2. \A i \in 1..Len(fs2) : i < Len(fs) => i \in 1..Len(fs)
        BY <1>2, <1>3
      <3>3. \A i \in 1..Len(fs2) : i < Len(fs) => fs2[i] = fs[i]
        BY <1>3, <3>2
      <3> QED BY <3>1, <3>3
    <2>6. cu2 \in C \cup {cu} \/ cu2 > Len(bs)
      OBVIOUS
    <2>7. IF Len(fs2) < Len(fs) THEN \A b \in Nat : Waits(fs[Len(fs)], b) => b \in C
            ELSE \A b \in Nat : Waits(fs2[Len(fs)], b) <=> Waits(fs[Len(fs)], b) /\ b \notin C
      BY <2>4, <2>5
    <2>8. Len(fs2) > Len(fs) => \A b \in Nat : Waits(fs2[Len(fs2)], b) =>
           b \in (Len(bs) + 1)..Len(bs2) /\ b # cu2 /\ bs2[b].term.kind = "none" /\ bs2[b].ops = <<>>
      BY <2>5
    <2>9. \A b \in 1..Len(bs2) : b > Len(bs) /\ b # cu2 /\ bs2[b].term.kind = "none" =>
           Len(fs2) > Len(fs) /\ Waits(fs2[Len(fs2)], b)
      BY <2>5
    <2>10. \A i \in 1..Len(fs2) : i < Len(fs) => \A b \in Nat : Waits(fs2[i], b) <=> Waits(fs[i], b)
      BY <2>5
    <2> QED BY <1>1, <1>2, <1>3, <2>1, <2>2, <2>3, <2>6, <2>7, <2>8, <2>9, <2>10, WaitStep
  <1>7. FramesInOrder(bs2, cu2, fs2)
    <2>1. /\ Len(fs2) \in 1..(Len(fs) + 1) /\ Len(fs2) - 1 = Len(fs) /\ fs2[Len(fs2)] = f /\ Len(fs2) # 1
      BY <1>2, <1>3
    <2>2. \A i \in 1..(Len(fs2) - 1) : fs[i].kind \in {"then", "else", "switch", "case"} => fs[i].merge \notin X
      BY <1>5, <2>1
    <2> QED BY ZenonT(90), <1>1, <1>3, <1>4, <2>1, <2>2, FramesStep
  <1>8. ASSUME f.kind # "loop" PROVE LoopsInOrder(bs2, fs2, ls2)
    <2>1. LoopMoves(ls, ls2) /\ (ls2.hasBreak => ls2.sawBreak)
      BY <1>1, <1>8 DEF LoopMoves, LoopsInOrder
    <2>2. /\ Len(fs2) \in (Len(fs) - 1)..(Len(fs) + 1) /\ Len(fs2) # Len(fs) /\ ~(Len(fs2) < Len(fs)) /\ fs2[Len(fs2)].kind # "loop"
      BY <1>2, <1>3, <1>8
    <2> QED BY <1>1, <1>2, <1>3, <1>4, <1>5, <2>1, <2>2, LoopsStep
  <1>9. ASSUME f.kind = "loop" PROVE LoopsInOrder(bs2, fs2, ls2)
    <2>1. /\ InLoop(bs, fs, ls, n) /\ \A j \in 1..n : fs[j].kind = "loop" => InLoop(bs, fs, fs[j].loop_state, j - 1)
      BY <1>1 DEF LoopsInOrder
    <2>2. \A k \in 1..n : SameLoop(fs[k], fs2[k]) /\ (fs[k].kind = "loop" => fs[k].merge \notin X)
      BY <1>3, <1>5 DEF SameLoop
    <2>3. ASSUME NEW l0, NEW m \in Nat, m <= n, InLoop(bs, fs, l0, m) PROVE InLoop(bs2, fs2, l0, m)
      <3>1. \A k \in 1..m : SameLoop(fs[k], fs2[k]) /\ (fs[k].kind = "loop" => fs[k].merge \notin X)
        BY <1>2, <2>2, <2>3
      <3>2. LoopMoves(l0, l0)
        BY DEF LoopMoves
      <3> QED BY <1>4, <2>3, <3>1, <3>2, InLoopStays
    <2>4. ASSUME NEW j \in 1..(n + 1), fs2[j].kind = "loop" PROVE InLoop(bs2, fs2, fs2[j].loop_state, j - 1)
      <3>1. CASE j = n + 1
        <4>1. InLoop(bs2, fs2, ls, n)
          BY <1>2, <2>1, <2>3
        <4> QED BY <1>2, <1>3, <1>9, <3>1, <4>1
      <3>2. CASE j \in 1..n
        <4>1. PICK m \in Nat : m = j - 1 /\ m <= n
          BY <1>2, <3>2
        <4>2. InLoop(bs, fs, fs[j].loop_state, m) /\ fs2[j] = fs[j]
          BY <1>3, <2>1, <2>4, <3>2, <4>1
        <4>3. InLoop(bs2, fs2, fs[j].loop_state, m)
          BY <2>3, <4>1, <4>2
        <4> QED BY <4>1, <4>2, <4>3
      <3> QED BY <1>2, <3>1, <3>2
    <2>5. InLoop(bs2, fs2, ls2, n + 1)
      <3>1. \A m \in (n + 1 + 1)..(n + 1) : FALSE
        BY <1>2
      <3>2. n + 1 \in 1..(n + 1)
        BY <1>2
      <3>3. \A k \in 1..(n + 1) : k # n + 1 => n + 1 \in (k + 1)..(n + 1)
        BY <1>2
      <3> QED BY <1>3, <1>9, <3>1, <3>2, <3>3 DEF InLoop
    <2> QED BY <1>3, <1>9, <2>4, <2>5 DEF LoopsInOrder
  <1>10. GraphInOrder(bs2)
    <2>1. \A c \in X : c \in 1..Len(bs2) /\ bs2[c].term.kind # "unreachable"
      OBVIOUS
    <2>2. \A b \in 1..Len(bs2) : \/ b <= Len(bs) /\ bs2[b].term = bs[b].term
                                 \/ GoodTerm(b, bs2[b].term) /\ (bs2[b].term.kind = "unreachable" => ~ Aimed(bs, b))
      <3> SUFFICES ASSUME NEW b \in 1..Len(bs2)
                   PROVE  \/ b <= Len(bs) /\ bs2[b].term = bs[b].term
                          \/ GoodTerm(b, bs2[b].term) /\ (bs2[b].term.kind = "unreachable" => ~ Aimed(bs, b))
        OBVIOUS
      <3>1. CASE b \in C
        BY <3>1 DEF GoodTerm
      <3>2. CASE b \notin C /\ b <= Len(bs)
        <4>1. b \in 1..Len(bs)
          BY <1>2, <3>2
        <4> QED BY <3>2, <4>1
      <3>3. CASE b > Len(bs)
        <4>1. ~ Aimed(bs, b)
          BY <1>1, <1>2, <3>3 DEF GraphInOrder
        <4> QED BY <3>3, <4>1
      <3> QED BY <1>2, <3>1, <3>2, <3>3
    <2> QED BY <1>1, <1>4, <2>1, <2>2, GraphStep
  <1>11. InOrder(bs2, cu2, fs2, ls2)
    BY <1>6, <1>7, <1>8, <1>9, <1>10 DEF InOrder
  <1> QED BY <1>11 DEF fs2

(* Closing blocks: bs2 has the blocks of bs, the terminators of C changed. *)
Reshaped(bs, bs2, cu, C, X) ==
  /\ Len(bs2) = Len(bs)
  /\ \A b \in 1..Len(bs) : b \notin C => bs2[b].term = bs[b].term /\ (b = cu \/ bs2[b].ops = bs[b].ops)
  /\ \A b \in C : b \in 1..Len(bs) =>
       /\ bs[b].term.kind = "br" => bs2[b].term.kind = "br"
       /\ GoodTerm(b, bs2[b].term) /\ (bs2[b].term.kind = "unreachable" => ~ Aimed(bs, b))
  /\ AimsAt(bs, X, bs2)
  /\ \A c \in X : c \in 1..Len(bs) /\ bs2[c].term.kind # "unreachable"

LEMMA ReshapedGraph ==
  ASSUME NEW bs \in Seq(Block), NEW bs2 \in Seq(Block), NEW cu, NEW C, NEW X, GraphInOrder(bs), Reshaped(bs, bs2, cu, C, X)
  PROVE  Grows(bs, bs2, X) /\ GraphInOrder(bs2)
  <1>1. Len(bs) \in Nat /\ Len(bs2) = Len(bs) /\ Len(bs) <= Len(bs2)
    BY DEF Reshaped
  <1>2. \A b \in 1..Len(bs) : bs[b].term.kind = "br" => bs2[b].term.kind = "br"
    BY DEF Reshaped
  <1>3. Grows(bs, bs2, X)
    BY <1>1, <1>2 DEF Grows, AimsAt, Reshaped
  <1>4. \A c \in X : c \in 1..Len(bs2) /\ bs2[c].term.kind # "unreachable"
    BY DEF Reshaped
  <1>5. \A b \in 1..Len(bs2) : \/ b <= Len(bs) /\ bs2[b].term = bs[b].term
                               \/ GoodTerm(b, bs2[b].term) /\ (bs2[b].term.kind = "unreachable" => ~ Aimed(bs, b))
    BY <1>1 DEF Reshaped
  <1> QED BY <1>3, <1>4, <1>5, GraphStep

LEMMA TopStep ==
  ASSUME NEW bs \in Seq(Block), NEW bs2 \in Seq(Block), NEW cu \in 1..Len(bs), NEW cu2 \in 1..Len(bs), NEW X \in SUBSET Nat,
         NEW C \in SUBSET Nat, NEW fs \in Seq(ConstructFrame), NEW f \in ConstructFrame, NEW ls,
         InOrder(bs, cu, fs, ls), Reshaped(bs, bs2, cu, C, X), Touches(bs, cu, fs, C), cu2 \in C \cup {cu},
         \A b \in C \cup {cu} : b # cu2 => bs2[b].term.kind # "none",
         \A b \in Nat : Waits(f, b) <=> Waits(fs[Len(fs)], b) /\ b \notin C,
         \A c \in X : c > Len(bs) \/ (c \in 1..Len(bs) /\ bs[c].term.kind # "none") \/ Waits(fs[Len(fs)], c),
         SameLoop(fs[Len(fs)], f), fs[Len(fs)].kind = "loop" => fs[Len(fs)].merge \notin X \/ ls.hasBreak,
         FrameInOrder(bs2, f), f.kind = "function" <=> fs[Len(fs)].kind = "function", fs[Len(fs)].base <= f.base,
         f.kind = "switch" => bs2[cu2].term.kind # "none"
  PROVE  InOrder(bs2, cu2, Append(SubSeq(fs, 1, Len(fs) - 1), f), ls)
  <1> DEFINE fs2 == Append(SubSeq(fs, 1, Len(fs) - 1), f)  n == Len(fs)
  <1>1. WaitingInOrder(bs, cu, fs) /\ FramesInOrder(bs, cu, fs) /\ LoopsInOrder(bs, fs, ls) /\ GraphInOrder(bs)
    BY DEF InOrder
  <1>2. n \in Nat /\ n > 0 /\ n \in 1..n /\ Len(bs) \in Nat /\ Len(bs2) = Len(bs)
    BY <1>1, FrameTypes DEF FramesInOrder, Reshaped
  <1>3. fs2 \in Seq(ConstructFrame) /\ Len(fs2) = n /\ fs2[n] = f /\ (\A i \in 1..(n - 1) : fs2[i] = fs[i]) /\ Beneath(fs, fs2)
    BY <1>2, FsTop
  <1> HIDE DEF fs2
  <1>4. Grows(bs, bs2, X) /\ GraphInOrder(bs2)
    BY <1>1, ReshapedGraph
  <1>5. \A i \in 1..n : i < n /\ fs[i].kind \in AllMerging => fs[i].merge \notin X
    BY <1>1, MergesBelow
  <1>6. WaitingInOrder(bs2, cu2, fs2)
    <2>1. Len(fs2) \in (Len(fs) - 1)..(Len(fs) + 1) /\ ~(Len(fs2) < Len(fs)) /\ ~(Len(fs2) > Len(fs))
      BY <1>2, <1>3
    <2>2. \A b \in 1..Len(bs) : b \notin C => bs2[b].term.kind = bs[b].term.kind /\ (b = cu \/ bs2[b].ops = bs[b].ops)
      BY DEF Reshaped
    <2>3. \A i \in 1..Len(fs2) : i < Len(fs) => \A b \in Nat : Waits(fs2[i], b) <=> Waits(fs[i], b)
      <3>1. \A i \in 1..Len(fs2) : i < Len(fs) => i \in 1..(n - 1)
        BY <1>2, <1>3
      <3> QED BY <1>3, <3>1
    <2>4. IF Len(fs2) < Len(fs) THEN \A b \in Nat : Waits(fs[Len(fs)], b) => b \in C
            ELSE \A b \in Nat : Waits(fs2[Len(fs)], b) <=> Waits(fs[Len(fs)], b) /\ b \notin C
      BY <1>3, <2>1
    <2>5. \A b \in 1..Len(bs2) : ~(b > Len(bs))
      BY <1>2
    <2>6. cu2 \in 1..Len(bs2) /\ Len(bs) <= Len(bs2)
      BY <1>2
    <2> QED BY <1>1, <1>2, <1>3, <2>1, <2>2, <2>3, <2>4, <2>5, <2>6, WaitStep
  <1>7. FramesInOrder(bs2, cu2, fs2)
    <2>1. Len(fs2) \in 1..(Len(fs) + 1) /\ ~(Len(fs2) > Len(fs)) /\ fs2[Len(fs2)] = f
      BY <1>2, <1>3
    <2>2. \A i \in 1..(Len(fs2) - 1) : fs[i].kind \in {"then", "else", "switch", "case"} => fs[i].merge \notin X
      <3>1. \A i \in 1..(Len(fs2) - 1) : i \in 1..n /\ i < n
        BY <1>2, <1>3
      <3> QED BY <1>5, <3>1 DEF AllMerging
    <2>3. f.kind = "function" <=> Len(fs2) = 1
      BY <1>1, <1>2, <1>3 DEF FramesInOrder
    <2>4. Len(fs2) > 1 => fs[Len(fs2) - 1].base <= fs2[Len(fs2)].base
      <3> SUFFICES ASSUME Len(fs2) > 1 PROVE fs[n - 1].base <= f.base
        BY <1>3
      <3>1. n - 1 \in 1..n /\ n - 1 <= n
        BY <1>2, <1>3
      <3>2. fs[n - 1].base <= fs[n].base
        BY <1>1, <1>2, <3>1 DEF FramesInOrder
      <3>3. fs[n - 1].base \in Nat /\ fs[n].base \in Nat /\ fs2[n].base \in Nat
        BY <1>2, <1>3, <3>1, FrameTypes
      <3>4. \A x, y, z \in Nat : x <= y /\ y <= z => x <= z
        OBVIOUS
      <3> QED BY <1>3, <3>2, <3>3, <3>4
    <2> QED BY ZenonT(90), <1>1, <1>3, <1>4, <2>1, <2>2, <2>3, <2>4, FramesStep
  <1>8. LoopsInOrder(bs2, fs2, ls)
    <2>1. LoopMoves(ls, ls) /\ (ls.hasBreak => ls.sawBreak)
      BY <1>1 DEF LoopMoves, LoopsInOrder
    <2>2. /\ Len(fs2) \in (Len(fs) - 1)..(Len(fs) + 1) /\ ~(Len(fs2) < Len(fs)) /\ ~(Len(fs2) > Len(fs))
          /\ SameLoop(fs[Len(fs)], fs2[Len(fs)])
      BY <1>2, <1>3
    <2>3. \A k \in 1..n : k < n \/ k = n
      BY <1>2
    <2>4. \A k \in 1..Len(fs) : fs[k].kind = "loop" => fs[k].merge \notin X \/ ls.hasBreak
      BY <1>5, <2>3 DEF AllMerging
    <2>5. \A j, k \in 1..Len(fs) : k < j => k < Len(fs)
      BY <1>2
    <2>6. \A j, k \in 1..Len(fs) : fs[j].kind = "loop" /\ fs[k].kind = "loop" /\ k < j => fs[k].merge \notin X
      BY <1>5, <2>5 DEF AllMerging
    <2> QED BY <1>1, <1>2, <1>3, <1>4, <2>1, <2>2, <2>4, <2>6, LoopsStep
  <1>9. InOrder(bs2, cu2, fs2, ls)
    BY <1>4, <1>6, <1>7, <1>8 DEF InOrder
  <1> QED BY <1>9 DEF fs2

LEMMA PopStep ==
  ASSUME NEW bs \in Seq(Block), NEW bs2 \in Seq(Block), NEW cu \in 1..Len(bs), NEW cu2 \in 1..Len(bs), NEW X \in SUBSET Nat,
         NEW C \in SUBSET Nat, NEW fs \in Seq(ConstructFrame), NEW ls, NEW ls2,
         InOrder(bs, cu, fs, ls), Reshaped(bs, bs2, cu, C, X), Touches(bs, cu, fs, C), cu2 \in C \cup {cu},
         \A b \in C \cup {cu} : b # cu2 => bs2[b].term.kind # "none",
         \A b \in Nat : Waits(fs[Len(fs)], b) => b \in C,
         \A c \in X : c > Len(bs) \/ (c \in 1..Len(bs) /\ bs[c].term.kind # "none") \/ Waits(fs[Len(fs)], c),
         fs[Len(fs)].kind # "function",
         ls2 = IF fs[Len(fs)].kind = "loop" THEN fs[Len(fs)].loop_state ELSE ls
  PROVE  InOrder(bs2, cu2, SubSeq(fs, 1, Len(fs) - 1), ls2)
  <1> DEFINE fs2 == SubSeq(fs, 1, Len(fs) - 1)  n == Len(fs)
  <1>1. WaitingInOrder(bs, cu, fs) /\ FramesInOrder(bs, cu, fs) /\ LoopsInOrder(bs, fs, ls) /\ GraphInOrder(bs)
    BY DEF InOrder
  <1>20. n \in Nat /\ n > 0 /\ Len(bs) \in Nat /\ Len(bs2) = Len(bs) /\ n \in 1..n
    BY <1>1, FrameTypes DEF FramesInOrder, Reshaped
  <1>2. n # 1 /\ n - 1 \in 1..n /\ n - 1 \in 1..(n - 1) /\ n - 1 \in Nat /\ n > 1
    <2>1. n # 1
      BY <1>1, <1>20 DEF FramesInOrder
    <2>2. \A x \in Nat : x > 0 /\ x # 1 => x - 1 \in 1..x /\ x - 1 \in 1..(x - 1) /\ x - 1 \in Nat /\ x > 1
      OBVIOUS
    <2> HIDE DEF n
    <2> QED BY <1>20, <2>1, <2>2
  <1>3. fs2 \in Seq(ConstructFrame) /\ Len(fs2) = n - 1 /\ (\A i \in 1..(n - 1) : fs2[i] = fs[i]) /\ Beneath(fs, fs2)
    BY <1>20, FsPop
  <1> HIDE DEF fs2
  <1>4. Grows(bs, bs2, X) /\ GraphInOrder(bs2)
    BY <1>1, ReshapedGraph
  <1>5. \A i \in 1..n : i < n /\ fs[i].kind \in AllMerging => fs[i].merge \notin X
    BY <1>1, MergesBelow
  <1>50. \A i \in 1..(n - 1) : i \in 1..n /\ i < n
    BY <1>20
  <1>6. WaitingInOrder(bs2, cu2, fs2)
    <2>1. Len(fs2) \in (Len(fs) - 1)..(Len(fs) + 1) /\ Len(fs2) < Len(fs) /\ ~(Len(fs2) > Len(fs))
      BY <1>20, <1>3
    <2>2. \A b \in 1..Len(bs) : b \notin C => bs2[b].term.kind = bs[b].term.kind /\ (b = cu \/ bs2[b].ops = bs[b].ops)
      BY DEF Reshaped
    <2>3. \A i \in 1..Len(fs2) : i < Len(fs) => \A b \in Nat : Waits(fs2[i], b) <=> Waits(fs[i], b)
      BY <1>3
    <2>4. IF Len(fs2) < Len(fs) THEN \A b \in Nat : Waits(fs[Len(fs)], b) => b \in C
            ELSE \A b \in Nat : Waits(fs2[Len(fs)], b) <=> Waits(fs[Len(fs)], b) /\ b \notin C
      BY <2>1
    <2>5. \A b \in 1..Len(bs2) : ~(b > Len(bs))
      BY <1>20
    <2>6. cu2 \in 1..Len(bs2) /\ Len(bs) <= Len(bs2)
      BY <1>20
    <2> QED BY <1>1, <1>20, <1>3, <2>1, <2>2, <2>3, <2>4, <2>5, <2>6, WaitStep
  <1>7. FramesInOrder(bs2, cu2, fs2)
    <2> DEFINE g == fs[n - 1]
    <2>1. Len(fs2) \in 1..(Len(fs) + 1) /\ ~(Len(fs2) > Len(fs)) /\ fs2[Len(fs2)] = g
      BY <1>2, <1>20, <1>3
    <2>2. \A i \in 1..(Len(fs2) - 1) : fs[i].kind \in {"then", "else", "switch", "case"} => fs[i].merge \notin X
      <3>1. \A i \in 1..(Len(fs2) - 1) : i \in 1..n /\ i < n
        BY <1>20, <1>3
      <3> QED BY <1>5, <3>1 DEF AllMerging
    <2>3. g.kind = "function" <=> Len(fs2) = 1
      BY <1>1, <1>2, <1>3 DEF FramesInOrder
    <2>4. Len(fs2) > 1 => fs[Len(fs2) - 1].base <= fs2[Len(fs2)].base
      <3> SUFFICES ASSUME Len(fs2) > 1 PROVE fs[Len(fs2) - 1].base <= fs[n - 1].base
        BY <2>1
      <3>1. Len(fs2) - 1 \in 1..n /\ Len(fs2) - 1 <= n - 1
        BY <1>20, <1>2, <1>3
      <3> QED BY <1>1, <1>2, <3>1 DEF FramesInOrder
    <2>5. g.kind # "switch" /\ FrameInOrder(bs, g) /\ g \in ConstructFrame
      BY <1>1, <1>2, FrameTypes DEF FramesInOrder
    <2>6. g.kind \in {"then", "else", "switch", "case"} => g.merge \notin X \/ Joins(g)
      BY <1>2, <1>5, <1>50 DEF AllMerging
    <2>7. FrameInOrder(bs2, g)
      BY <1>4, <2>5, <2>6, FrameStays
    <2> HIDE DEF g
    <2> QED BY <1>1, <1>3, <1>4, <2>1, <2>2, <2>3, <2>4, <2>5, <2>7, FramesStep
  <1>8. ASSUME fs[n].kind # "loop" PROVE LoopsInOrder(bs2, fs2, ls2)
    <2>1. LoopMoves(ls, ls2) /\ (ls2.hasBreak => ls2.sawBreak)
      BY <1>1, <1>8 DEF LoopMoves, LoopsInOrder
    <2>2. /\ Len(fs2) \in (Len(fs) - 1)..(Len(fs) + 1) /\ ~(Len(fs2) = Len(fs)) /\ ~(Len(fs2) > Len(fs))
          /\ fs2[Len(fs2)] = fs[Len(fs2)]
      BY <1>2, <1>20, <1>3
    <2>3. \A k \in 1..n : k < n \/ k = n
      BY <1>20
    <2>4. \A k \in 1..Len(fs) : fs[k].kind = "loop" => fs[k].merge \notin X
      BY <1>5, <1>8, <2>3 DEF AllMerging
    <2> QED BY <1>1, <1>20, <1>3, <1>4, <1>8, <2>1, <2>2, <2>4, LoopsStep
  <1>9. ASSUME fs[n].kind = "loop" PROVE LoopsInOrder(bs2, fs2, ls2)
    <2>1. /\ \A j \in 1..n : fs[j].kind = "loop" => InLoop(bs, fs, fs[j].loop_state, j - 1)
      BY <1>1 DEF LoopsInOrder
    <2>2. \A k \in 1..(n - 1) : SameLoop(fs[k], fs2[k]) /\ (fs[k].kind = "loop" => fs[k].merge \notin X)
      BY <1>3, <1>5, <1>50 DEF SameLoop, AllMerging
    <2>3. ASSUME NEW l0, NEW m \in Nat, m <= n - 1, InLoop(bs, fs, l0, m) PROVE InLoop(bs2, fs2, l0, m)
      <3>1. \A k \in 1..m : SameLoop(fs[k], fs2[k]) /\ (fs[k].kind = "loop" => fs[k].merge \notin X)
        BY <1>2, <2>2, <2>3
      <3>2. LoopMoves(l0, l0)
        BY DEF LoopMoves
      <3> QED BY <1>4, <2>3, <3>1, <3>2, InLoopStays
    <2>4. ASSUME NEW j \in 1..(n - 1), fs2[j].kind = "loop" PROVE InLoop(bs2, fs2, fs2[j].loop_state, j - 1)
      <3>1. PICK m \in Nat : m = j - 1 /\ m <= n - 1
        BY <1>2
      <3>2. InLoop(bs, fs, fs[j].loop_state, m) /\ fs2[j] = fs[j]
        BY <1>3, <1>50, <2>1, <2>4, <3>1
      <3>3. InLoop(bs2, fs2, fs[j].loop_state, m)
        BY <2>3, <3>1, <3>2
      <3> QED BY <3>1, <3>2, <3>3
    <2>5. InLoop(bs2, fs2, ls2, n - 1)
      <3>1. PICK m \in Nat : m = n - 1 /\ m <= n - 1
        <4>1. n - 1 \in Nat /\ n - 1 <= n - 1
          BY <1>2
        <4> HIDE DEF n
        <4> QED BY <4>1
      <3>2. InLoop(bs, fs, ls2, m)
        <4>1. ls2 = fs[n].loop_state /\ InLoop(bs, fs, fs[n].loop_state, n - 1)
          BY <1>20, <1>9, <2>1
        <4> QED BY <3>1, <4>1
      <3>3. InLoop(bs2, fs2, ls2, m)
        BY <2>3, <3>1, <3>2
      <3> QED BY <3>1, <3>3
    <2>6. ls2.hasBreak => ls2.sawBreak
      BY <1>1, <1>20, <1>9 DEF FramesInOrder, FrameInOrder
    <2> QED BY <1>3, <2>4, <2>5, <2>6 DEF LoopsInOrder
  <1>11. InOrder(bs2, cu2, fs2, ls2)
    BY <1>4, <1>6, <1>7, <1>8, <1>9 DEF InOrder
  <1> QED BY <1>11 DEF fs2

LEMMA StartsInOrder ==
  ASSUME BuildInv, Lowering
  PROVE  InOrder(blocks, cur, constructs, loop_state)
  BY StateFacts, LoweringFacts DEF InOrder

(* Nothing is unwinding: the frames' defers are a part of those registered. *)
LEMMA IdleUnwind ==
  ASSUME NEW u, NEW fs, NEW df, NEW ls, NEW cu, u.why = "idle", fs[Len(fs)].base <= Len(df)
  PROVE  UnwindInOrder(u, fs, df, ls, cu)
  BY DEF UnwindInOrder

LEMMA RebuiltInOrder ==
  ASSUME BuildInv, Lowering, phase' = "lowering", LoweringTypeOK', InOrder(blocks', cur', constructs', loop_state'),
         UnwindInOrder(unwind', constructs', deferred', loop_state', cur'),
         unwind'.why \in {"idle", "block"} /\ blocks'[cur'].term.kind = "none" => reachable',
         pc' = pc, live' = live
  PROVE  BuildInv'
  BY Rebuilt DEF InOrder

LEMMA UnchangedIsReshaped ==
  ASSUME NEW bs \in Seq(Block), NEW cu, GraphInOrder(bs)
  PROVE  Reshaped(bs, bs, cu, {}, {})
  BY DEF Reshaped, AimsAt

LEMMA BaseFacts ==
  ASSUME BuildInv, Lowering
  PROVE  /\ Innermost.base <= Len(deferred)
         /\ Len(constructs) > 1 => constructs[Len(constructs) - 1].base <= Len(deferred)
         /\ Innermost.kind # "function" => Len(constructs) > 1
  <1>1. Innermost.base <= Len(deferred)
    BY LoweringFacts DEF UnwindInOrder
  <1>2. Len(constructs) \in Nat /\ Len(constructs) \in 1..Len(constructs)
    BY StateFacts, LoweringFacts
  <1>3. Innermost.kind # "function" => Len(constructs) > 1
    BY <1>2, LoweringFacts DEF FramesInOrder
  <1>4. ASSUME Len(constructs) > 1 PROVE constructs[Len(constructs) - 1].base <= Len(deferred)
    <2>1. Len(constructs) - 1 \in 1..Len(constructs) /\ Len(constructs) - 1 <= Len(constructs)
      BY <1>2, <1>4
    <2>2. constructs[Len(constructs) - 1].base <= Innermost.base
      BY <1>2, <2>1, LoweringFacts DEF FramesInOrder
    <2>3. constructs[Len(constructs) - 1].base \in Nat /\ Innermost.base \in Nat /\ Len(deferred) \in Nat
      BY <2>1, FrameTypes, StateFacts, LoweringFacts
    <2>4. \A x, y, z \in Nat : x <= y /\ y <= z => x <= z
      OBVIOUS
    <2> QED BY <1>1, <2>2, <2>3, <2>4
  <1> QED BY <1>1, <1>3, <1>4

LEMMA LowerBlockEndInv == ASSUME BuildInv, LowerBlockEnd PROVE BuildInv'
  <1> DEFINE f == [Innermost EXCEPT !.left = TRUE]
  <1>1. /\ Lowering /\ unwind.why = "idle" /\ Innermost.kind # "switch" /\ ~ Innermost.left
        /\ unwind' = [why |-> "block", base |-> Innermost.base, next |-> Len(deferred), value |-> NoBlock]
        /\ constructs' = Append(SubSeq(constructs, 1, Len(constructs) - 1), f)
        /\ UNCHANGED <<phase, blocks, cur, deferred, loop_state, bound, sites, reachable, pc, live>>
    BY DEF LowerBlockEnd, InBody, Idle, StartUnwind, Reframe, Outward, running
  <1>2. /\ f \in ConstructFrame /\ f.left /\ f.kind = Innermost.kind /\ f.base = Innermost.base /\ f.merge = Innermost.merge
        /\ f.other = Innermost.other /\ f.cond = Innermost.cond /\ f.cases = Innermost.cases /\ f.always = Innermost.always
        /\ f.falls = Innermost.falls /\ f.reach = Innermost.reach /\ f.loop_state = Innermost.loop_state
    BY <1>1, LoweringFacts DEF ConstructFrame
  <1>3. Innermost = constructs[Len(constructs)] /\ Innermost.base \in Nat /\ Len(constructs) > 0
    BY <1>1, LoweringFacts
  <1>4. constructs' \in Seq(ConstructFrame) /\ Len(constructs') = Len(constructs) /\ constructs'[Len(constructs)] = f
    BY <1>1, <1>2, <1>3, StateFacts, FsTop
  <1> HIDE DEF f
  <1>5. SameLoop(Innermost, f) /\ FrameInOrder(blocks, f) /\ \A b \in Nat : Waits(f, b) <=> Waits(Innermost, b)
    <2>1. FrameInOrder(blocks, Innermost)
      BY <1>1, LoweringFacts
    <2>2. Joins(f) <=> Joins(Innermost)
      BY <1>2 DEF Joins
    <2>3. FrameInOrder(blocks, f)
      BY <1>2, <2>1, <2>2 DEF FrameInOrder
    <2> QED BY <1>2, <2>3 DEF SameLoop, Waits
  <1>6. InOrder(blocks', cur', constructs', loop_state')
    <2> DEFINE C == {}  X == {}
    <2>1. /\ Reshaped(blocks, blocks, cur, C, X) /\ Touches(blocks, cur, constructs, C) /\ C \in SUBSET Nat /\ X \in SUBSET Nat
          /\ cur \in C \cup {cur} /\ (\A b \in C \cup {cur} : b = cur) /\ (\A c \in X : FALSE)
          /\ \A b \in Nat : Waits(f, b) <=> Waits(constructs[Len(constructs)], b) /\ b \notin C
      BY <1>3, <1>5, StateFacts, UnchangedIsReshaped DEF Touches
    <2> HIDE DEF C, X
    <2>2. Innermost.base <= f.base
      BY <1>2, <1>3
    <2>3. InOrder(blocks, cur, constructs, loop_state)
      BY <1>1, StartsInOrder
    <2>4. InOrder(blocks, cur, Append(SubSeq(constructs, 1, Len(constructs) - 1), f), loop_state)
      BY <1>1, <1>2, <1>3, <1>5, <2>1, <2>2, <2>3, StateFacts, TopStep
    <2> QED BY <1>1, <2>4
  <1>7. unwind' \in Unwind /\ unwind'.why = "block" /\ unwind'.base = Innermost.base /\ unwind'.next = Len(deferred)
    BY <1>1, <1>3, StateFacts DEF Unwind, NoBlock
  <1>8. UnwindInOrder(unwind', constructs', deferred', loop_state', cur')
    <2>1. Innermost.base <= Len(deferred) /\ Len(deferred) <= Len(deferred)
      BY <1>1, BaseFacts, StateFacts
    <2> QED BY <1>1, <1>2, <1>4, <1>7, <2>1 DEF UnwindInOrder
  <1>9. LoweringTypeOK'
    BY <1>1, <1>4, <1>7, StateFacts, StateTypes DEF BuildInv, LoweringTypeOK
  <1>10. phase' = "lowering" /\ (Open => reachable)
    BY <1>1, LoweringFacts DEF Lowering
  <1> QED BY <1>1, <1>6, <1>8, <1>9, <1>10, RebuiltInOrder DEF Open, IsOpen

LEMMA NewConstructIs ==
  ASSUME BuildInv, NEW k \in FrameKinds
  PROVE  LET f == NewConstruct(k) IN
         /\ f \in ConstructFrame /\ f.kind = k /\ f.base = Len(deferred) /\ ~ f.left /\ f.cases = 0 /\ ~ f.falls /\ ~ f.reach
         /\ f.loop_state = loop_state
  BY StateFacts DEF NewConstruct, ConstructFrame, NoBlock

LEMMA LowerBlockInv == ASSUME BuildInv, LowerBlock PROVE BuildInv'
  <1> DEFINE f == NewConstruct("block")
  <1>1. /\ Lowering /\ unwind.why = "idle" /\ Innermost.kind # "switch" /\ ~ Innermost.left /\ reachable
        /\ constructs' = Append(constructs, f)
        /\ UNCHANGED <<phase, blocks, cur, deferred, loop_state, unwind, bound, sites, reachable, pc, live>>
    BY DEF LowerBlock, LowersStatement, InBody, Idle, PushConstruct, running
  <1>2. /\ f \in ConstructFrame /\ f.kind = "block" /\ f.base = Len(deferred) /\ ~ f.falls /\ f.loop_state = loop_state
    BY NewConstructIs DEF FrameKinds
  <1> HIDE DEF f
  <1>3. constructs' \in Seq(ConstructFrame) /\ Len(constructs') = Len(constructs) + 1 /\ constructs'[Len(constructs')] = f
    BY <1>1, <1>2, StateFacts, FsPush
  <1>4. FrameInOrder(blocks, f) /\ \A b \in Nat : ~ Waits(f, b)
    <2>1. loop_state.hasBreak => loop_state.sawBreak
      BY <1>1, LoweringFacts DEF LoopsInOrder
    <2> QED BY <1>2, <2>1 DEF FrameInOrder, Waits
  <1>5. InOrder(blocks', cur', constructs', loop_state')
    <2> DEFINE C == {}  X == {}
    <2>0. /\ AimsAt(blocks, X, blocks) /\ C \in SUBSET {cur} /\ X \in SUBSET Nat /\ (\A b \in C : FALSE) /\ (\A c \in X : FALSE)
      BY DEF AimsAt
    <2> HIDE DEF C, X
    <2>1. ~(\E b \in 1..Len(blocks) : b > Len(blocks)) /\ Len(blocks) <= Len(blocks)
      BY StateFacts
    <2>2. InOrder(blocks, cur, constructs, loop_state)
      BY <1>1, StartsInOrder
    <2>3. constructs[Len(constructs)].base <= f.base /\ constructs[Len(constructs)] = Innermost
      BY <1>1, <1>2, BaseFacts, LoweringFacts
    <2>4. InOrder(blocks, cur, Append(constructs, f), loop_state)
      BY <1>1, <1>2, <1>4, <2>0, <2>1, <2>2, <2>3, StateFacts, PushStep
    <2> QED BY <1>1, <2>4
  <1>6. UnwindInOrder(unwind', constructs', deferred', loop_state', cur')
    <2>1. constructs'[Len(constructs')].base <= Len(deferred') /\ unwind'.why = "idle"
      BY <1>1, <1>2, <1>3, StateFacts
    <2> QED BY <2>1, IdleUnwind
  <1>7. LoweringTypeOK'
    BY <1>1, <1>3, StateFacts, StateTypes DEF BuildInv, LoweringTypeOK
  <1>8. phase' = "lowering"
    BY <1>1 DEF Lowering
  <1> QED BY <1>1, <1>5, <1>6, <1>7, <1>8, RebuiltInOrder

(* A construct ends: the frame below is on top again.                      *)
LEMMA PopIs ==
  ASSUME BuildInv, Lowering, Innermost.kind # "function", constructs' = SubSeq(constructs, 1, Len(constructs) - 1), deferred' = deferred,
         unwind'.why = "idle"
  PROVE  /\ constructs' \in Seq(ConstructFrame)
         /\ UnwindInOrder(unwind', constructs', deferred', loop_state', cur')
  <1>1. Len(constructs) > 1 /\ Len(constructs) > 0 /\ constructs[Len(constructs) - 1].base <= Len(deferred)
    BY BaseFacts, StateFacts
  <1>2. constructs' \in Seq(ConstructFrame) /\ Len(constructs') = Len(constructs) - 1 /\ \A i \in 1..(Len(constructs) - 1) : constructs'[i] = constructs[i]
    BY <1>1, StateFacts, FsPop
  <1>3. Len(constructs) - 1 \in 1..(Len(constructs) - 1)
    BY <1>1, StateFacts
  <1>4. constructs'[Len(constructs')].base <= Len(deferred')
    BY <1>1, <1>2, <1>3
  <1> QED BY <1>2, <1>4, IdleUnwind

LEMMA BlockLeaveInv == ASSUME BuildInv, BlockLeave PROVE BuildInv'
  <1>1. /\ Lowering /\ unwind.why = "idle" /\ Innermost.kind = "block"
        /\ constructs' = SubSeq(constructs, 1, Len(constructs) - 1)
        /\ UNCHANGED <<phase, blocks, cur, deferred, loop_state, unwind, bound, sites, reachable, pc, live>>
    BY DEF BlockLeave, BlockDone, AtConstruct, Idle, PopConstruct, Outward, running
  <1>2. constructs' \in Seq(ConstructFrame) /\ UnwindInOrder(unwind', constructs', deferred', loop_state', cur')
    BY <1>1, PopIs
  <1>3. InOrder(blocks', cur', constructs', loop_state')
    <2> DEFINE C == {}  X == {}
    <2>1. /\ Reshaped(blocks, blocks, cur, C, X) /\ Touches(blocks, cur, constructs, C) /\ C \in SUBSET Nat /\ X \in SUBSET Nat
          /\ cur \in C \cup {cur} /\ (\A b \in C \cup {cur} : b = cur) /\ (\A c \in X : FALSE)
      BY StateFacts, UnchangedIsReshaped DEF Touches
    <2> HIDE DEF C, X
    <2>2. InOrder(blocks, cur, constructs, loop_state)
      BY <1>1, StartsInOrder
    <2>3. constructs[Len(constructs)] = Innermost /\ \A b \in Nat : ~ Waits(Innermost, b)
      BY <1>1, LoweringFacts DEF Waits
    <2>4. InOrder(blocks, cur, SubSeq(constructs, 1, Len(constructs) - 1), loop_state)
      BY <1>1, <2>1, <2>2, <2>3, StateFacts, PopStep
    <2> QED BY <1>1, <2>4
  <1>4. LoweringTypeOK'
    BY <1>1, <1>2, StateFacts, StateTypes DEF BuildInv, LoweringTypeOK
  <1>5. phase' = "lowering" /\ (Open => reachable)
    BY <1>1, LoweringFacts DEF Lowering
  <1> QED BY <1>1, <1>2, <1>3, <1>4, <1>5, RebuiltInOrder DEF Open, IsOpen

-----------------------------------------------------------------------------
(* A construct begins: it gets its blocks, and the current one jumps there. *)

OpenedOf(bs, n, lexical, b, t, bs2) ==
  /\ bs2 \in Seq(Block) /\ Len(bs2) = Len(bs) + n
  /\ \A c \in 1..Len(bs) : c # b => bs2[c] = bs[c]
  /\ bs2[b].term = t /\ bs2[b].ops = bs[b].ops /\ bs2[b].entry = bs[b].entry
  /\ \A c \in 1..Len(bs2) : c > Len(bs) => bs2[c].term = OpenTerm /\ bs2[c].ops = <<>> /\ bs2[c].entry = lexical
  /\ AimsAt(bs, t.to, bs2)

LEMMA OpenedIs ==
  ASSUME NEW bs \in Seq(Block), NEW n \in Nat, NEW lexical \in Seq(Defer), NEW b \in 1..Len(bs), bs[b].term.to = {}, NEW t \in Term
  PROVE  OpenedOf(bs, n, lexical, b, t, SetTerm(AddBlocks(bs, n, lexical), b, t))
  <1> DEFINE s0 == AddBlocks(bs, n, lexical)  s1 == SetTerm(s0, b, t)
  <1> HIDE DEF s1
  <1>1. Added(bs, n, lexical, s0) /\ AimsAt(bs, {}, s0)
    BY AddedIs
  <1> HIDE DEF s0
  <1>2. /\ s0 \in Seq(Block) /\ Len(s0) = Len(bs) + n /\ (\A c \in 1..Len(bs) : s0[c] = bs[c]) /\ Len(bs) \in Nat
        /\ \A c \in 1..Len(s0) : c > Len(bs) => s0[c].term = OpenTerm /\ s0[c].ops = <<>> /\ s0[c].entry = lexical
    BY <1>1 DEF Added
  <1>3. b \in 1..Len(s0) /\ s0[b].term.to = {} /\ s0[b] = bs[b]
    BY <1>2
  <1>4. Ended(s0, b, t, s1) /\ AimsAt(s0, t.to, s1)
    BY <1>2, <1>3, EndedIs DEF s1
  <1>5. AimsAt(bs, t.to, s1)
    BY <1>1, <1>4 DEF AimsAt
  <1>6. /\ s1 \in Seq(Block) /\ Len(s1) = Len(bs) + n
        /\ s1[b].term = t /\ s1[b].ops = bs[b].ops /\ s1[b].entry = bs[b].entry
        /\ \A c \in 1..Len(s0) : c # b => s1[c] = s0[c]
    BY <1>2, <1>3, <1>4 DEF Ended
  <1>7. \A c \in 1..Len(bs) : c # b => s1[c] = bs[c]
    BY <1>2, <1>6
  <1>8. \A c \in 1..Len(s1) : c > Len(bs) => s1[c].term = OpenTerm /\ s1[c].ops = <<>> /\ s1[c].entry = lexical
    <2>1. \A c \in 1..Len(s1) : c > Len(bs) => c # b /\ c \in 1..Len(s0)
      BY <1>2, <1>6
    <2> QED BY <1>2, <1>6, <2>1
  <1>9. OpenedOf(bs, n, lexical, b, t, s1)
    BY <1>5, <1>6, <1>7, <1>8 DEF OpenedOf
  <1> QED BY <1>9 DEF s1, s0

(* Nothing leads to the new blocks but what the step adds.                 *)
LEMMA NewAims ==
  ASSUME NEW bs \in Seq(Block), NEW bs2, NEW X, GraphInOrder(bs), AimsAt(bs, X, bs2), NEW c \in Nat, c > Len(bs), Aimed(bs2, c)
  PROVE  c \in X
  <1>1. ~ Aimed(bs, c)
    <2>1. ~(c \in 1..Len(bs))
      OBVIOUS
    <2> QED BY <2>1 DEF GraphInOrder
  <1> QED BY <1>1 DEF AimsAt

LEMMA OpenBlock ==
  ASSUME BuildInv, Lowering, Open
  PROVE  blocks[cur].term.kind = "none" /\ blocks[cur].term.to = {}
  BY StateFacts DEF Open, IsOpen, GraphInOrder

(* The parts of the next state when a construct f begins.                  *)
LEMMA BeginStep ==
  ASSUME BuildInv, LowersStatement, NEW f \in ConstructFrame, constructs' = Append(constructs, f), f.base = Len(deferred),
         blocks' \in Seq(Block), cur' \in 1..Len(blocks'), loop_state' \in LoopState,
         InOrder(blocks', cur', Append(constructs, f), loop_state'),
         UNCHANGED <<phase, deferred, unwind, bound, sites, reachable, pc, live>>
  PROVE  BuildInv'
  <1>1. Lowering /\ unwind.why = "idle" /\ reachable /\ phase' = "lowering"
    BY DEF LowersStatement, InBody, Idle, Lowering
  <1>2. constructs' \in Seq(ConstructFrame) /\ Len(constructs') = Len(constructs) + 1 /\ constructs'[Len(constructs')] = f
    BY StateFacts, FsPush
  <1>3. UnwindInOrder(unwind', constructs', deferred', loop_state', cur')
    <2>1. constructs'[Len(constructs')].base <= Len(deferred') /\ unwind'.why = "idle"
      BY <1>1, <1>2, StateFacts
    <2> QED BY <2>1, IdleUnwind
  <1>4. LoweringTypeOK'
    BY <1>1, <1>2, StateFacts, StateTypes DEF BuildInv, LoweringTypeOK
  <1> QED BY <1>1, <1>3, <1>4, RebuiltInOrder

LEMMA LowerIfInv == ASSUME BuildInv, NEW hasElse \in BOOLEAN, LowerIf(hasElse) PROVE BuildInv'
  <1> DEFINE l == Len(blocks)  then == l + 1  merge == l + 2  else == IF hasElse THEN l + 3 ELSE l + 2
             n == IF hasElse THEN 3 ELSE 2  X == {then, else}  t == Br(X)  C == {cur}
             f == [NewConstruct("then") EXCEPT !.merge = merge, !.other = else]
  <1>1. /\ LowersStatement /\ blocks' = SetTerm(AddBlocks(blocks, n, deferred), cur, t)
        /\ cur' = then /\ constructs' = Append(constructs, f)
        /\ UNCHANGED <<phase, deferred, loop_state, unwind, bound, sites, reachable, pc, live>>
    BY DEF LowerIf, New, PushConstruct, running
  <1>2. Lowering /\ Open /\ Innermost.kind # "switch" /\ ~ Innermost.left
    BY <1>1 DEF LowersStatement, InBody, Idle
  <1>3. l \in Nat /\ n \in Nat /\ then \in Nat /\ merge \in Nat /\ else \in Nat /\ X \in SUBSET BlockId /\ X \in SUBSET Nat
    BY StateFacts DEF BlockId
  <1>4. t \in Term /\ t.kind = "br" /\ t.to = X
    BY <1>3, TermTypes
  <1>5. /\ f \in ConstructFrame /\ f.kind = "then" /\ f.base = Len(deferred) /\ ~ f.falls /\ f.loop_state = loop_state
        /\ f.merge = merge /\ f.other = else
    <2> DEFINE g == NewConstruct("then")
    <2>1. g \in ConstructFrame /\ g.kind = "then" /\ g.base = Len(deferred) /\ ~ g.falls /\ g.loop_state = loop_state
      BY NewConstructIs DEF FrameKinds
    <2> HIDE DEF g
    <2>2. merge \in Nat /\ else \in Nat
      BY <1>3
    <2> HIDE DEF merge, else
    <2>3. LET h == [g EXCEPT !.merge = merge, !.other = else] IN
          /\ h \in ConstructFrame /\ h.kind = "then" /\ h.base = Len(deferred) /\ ~ h.falls /\ h.loop_state = loop_state
          /\ h.merge = merge /\ h.other = else
      BY <2>1, <2>2 DEF ConstructFrame
    <2> QED BY <2>3 DEF g
  <1> HIDE DEF f, t
  <1>6. OpenedOf(blocks, n, deferred, cur, t, blocks')
    BY <1>1, <1>2, <1>3, <1>4, OpenBlock, StateFacts, OpenedIs
  <1>7. /\ blocks' \in Seq(Block) /\ Len(blocks') = l + n /\ blocks'[cur].term.kind = "br" /\ AimsAt(blocks, X, blocks')
        /\ \A c \in 1..Len(blocks) : c # cur => blocks'[c] = blocks[c]
    BY <1>4, <1>6 DEF OpenedOf
  <1>8. \A c \in 1..Len(blocks') : c > Len(blocks) => blocks'[c].term.kind = "none" /\ blocks'[c].term.to = {} /\ blocks'[c].ops = <<>>
    BY <1>6, TermTypes DEF OpenedOf
  <1>9. /\ cur' \in 1..Len(blocks') /\ cur' > Len(blocks) /\ cur # cur' /\ Len(blocks) <= Len(blocks')
        /\ \A c \in X : c \in 1..Len(blocks') /\ c > Len(blocks)
        /\ merge # then /\ else # then /\ merge \in (Len(blocks) + 1)..Len(blocks') /\ else \in (Len(blocks) + 1)..Len(blocks')
        /\ \A c \in 1..Len(blocks') : c > Len(blocks) => c = then \/ c = merge \/ c = else
        /\ ~ hasElse => else = merge
        /\ merge \in X => else = merge
        /\ \A c \in (Len(blocks) + 1)..Len(blocks') : c \in 1..Len(blocks') /\ c > Len(blocks)
    <2>1. l \in Nat /\ Len(blocks') = l + n /\ cur \in 1..l /\ cur' = l + 1 /\ Len(blocks) = l
      BY <1>1, <1>7, StateFacts
    <2> HIDE DEF l
    <2>2. CASE hasElse
      <3>1. Len(blocks') = l + 3 /\ else = l + 3
        BY <2>1, <2>2
      <3> QED BY <2>1, <2>2, <3>1
    <2>3. CASE ~ hasElse
      <3>1. Len(blocks') = l + 2 /\ else = l + 2
        BY <2>1, <2>3
      <3> QED BY <2>1, <2>3, <3>1
    <2> QED BY <2>2, <2>3
  <1>10. \A b \in Nat : Waits(f, b) <=> b = merge \/ b = else
    BY <1>5 DEF Waits
  <1>11. FrameInOrder(blocks', f)
    <2>1. Aimed(blocks', merge) => else = merge
      <3>1. merge > Len(blocks)
        BY <1>9
      <3>2. Aimed(blocks', merge) => merge \in X
        BY <1>3, <1>7, <3>1, StateFacts, NewAims
      <3> QED BY <1>9, <3>2
    <2>2. loop_state.hasBreak => loop_state.sawBreak
      BY <1>2, LoweringFacts DEF LoopsInOrder
    <2> QED BY <1>5, <2>1, <2>2 DEF FrameInOrder, Joins
  <1>12. InOrder(blocks', cur', Append(constructs, f), loop_state')
    <2>1. InOrder(blocks, cur, constructs, loop_state) /\ constructs[Len(constructs)] = Innermost /\ Innermost.base <= f.base
      BY <1>2, <1>5, StartsInOrder, LoweringFacts, BaseFacts
    <2>2. C \in SUBSET {cur} /\ (\A b \in 1..Len(blocks) : b \notin C => blocks'[b] = blocks[b]) /\ (\A b \in C : blocks'[b].term.kind = "br")
      BY <1>7
    <2>3. /\ \A b \in Nat : Waits(f, b) => b \in (Len(blocks) + 1)..Len(blocks') /\ b # cur' /\ blocks'[b].term.kind = "none" /\ blocks'[b].ops = <<>>
          /\ \A b \in 1..Len(blocks') : b > Len(blocks) /\ b # cur' /\ blocks'[b].term.kind = "none" => Waits(f, b)
      BY SMTT(60), <1>1, <1>8, <1>9, <1>10
    <2>4. \A b \in 1..Len(blocks') : b > Len(blocks) => GoodTerm(b, blocks'[b].term)
      BY <1>8 DEF GoodTerm
    <2>5. \A c \in X : c \in 1..Len(blocks') /\ c > Len(blocks) /\ blocks'[c].term.kind # "unreachable"
      BY <1>8, <1>9
    <2>6. blocks'[cur].term.kind # "none" /\ f.kind # "loop" /\ f.kind # "function" /\ f.kind # "switch" /\ loop_state' = loop_state
      BY <1>1, <1>5, <1>7
    <2> HIDE DEF X, C
    <2> QED BY <1>2, <1>3, <1>5, <1>7, <1>9, <1>11, <2>1, <2>2, <2>3, <2>4, <2>5, <2>6, StateFacts, PushStep
  <1> QED BY <1>1, <1>5, <1>7, <1>9, <1>12, StateFacts, BeginStep

LEMMA LowerLoopInv ==
  ASSUME BuildInv, NEW known \in {"unknown", "true", "false"}, NEW hasPost \in BOOLEAN, LowerLoop(known, hasPost)
  PROVE  BuildInv'
  <1> DEFINE l == Len(blocks)  cond == l + 1  body == l + 2
             exit == IF hasPost THEN l + 4 ELSE l + 3  post == IF hasPost THEN l + 3 ELSE l + 1
             n == IF hasPost THEN 4 ELSE 3
             targets == IF known = "true" THEN {body} ELSE IF known = "false" THEN {exit} ELSE {body, exit}
             t1 == Br({cond})  t2 == Br(targets)  C == {cur}  X == {cond} \cup targets
             s1 == SetTerm(AddBlocks(blocks, n, deferred), cur, t1)
             f == [NewConstruct("loop") EXCEPT !.merge = exit, !.other = post, !.cond = cond, !.always = (known = "true")]
             ls == [inside |-> TRUE, brk |-> exit, cont |-> post, base |-> Len(deferred), hasBreak |-> FALSE, sawBreak |-> FALSE]
  <1>1. /\ LowersStatement /\ blocks' = SetTerm(s1, cond, t2)
        /\ cur' = body /\ constructs' = Append(constructs, f) /\ loop_state' = ls
        /\ UNCHANGED <<phase, deferred, unwind, bound, sites, reachable, pc, live>>
    BY DEF LowerLoop, New, PushConstruct, running
  <1>2. Lowering /\ Open /\ Innermost.kind # "switch" /\ ~ Innermost.left
    BY <1>1 DEF LowersStatement, InBody, Idle
  <1>3. /\ l \in Nat /\ n \in Nat /\ cond \in Nat /\ body \in Nat /\ exit \in Nat /\ post \in Nat
        /\ {cond} \in SUBSET BlockId /\ targets \in SUBSET BlockId /\ X \in SUBSET Nat
    BY StateFacts DEF BlockId
  <1>4. t1 \in Term /\ t1.kind = "br" /\ t1.to = {cond} /\ t2 \in Term /\ t2.kind = "br" /\ t2.to = targets
    BY <1>3, TermTypes
  <1>5. /\ f \in ConstructFrame /\ f.kind = "loop" /\ f.base = Len(deferred) /\ ~ f.falls /\ f.loop_state = loop_state
        /\ f.merge = exit /\ f.other = post /\ f.cond = cond /\ f.always = (known = "true")
    <2> DEFINE g == NewConstruct("loop")  always == known = "true"
    <2>1. g \in ConstructFrame /\ g.kind = "loop" /\ g.base = Len(deferred) /\ ~ g.falls /\ g.loop_state = loop_state
      BY NewConstructIs DEF FrameKinds
    <2> HIDE DEF g
    <2>2. exit \in Nat /\ post \in Nat /\ cond \in Nat /\ always \in BOOLEAN
      BY <1>3
    <2> HIDE DEF exit, post, cond, always
    <2>3. LET h == [g EXCEPT !.merge = exit, !.other = post, !.cond = cond, !.always = always] IN
          /\ h \in ConstructFrame /\ h.kind = "loop" /\ h.base = Len(deferred) /\ ~ h.falls /\ h.loop_state = loop_state
          /\ h.merge = exit /\ h.other = post /\ h.cond = cond /\ h.always = always
      BY <2>1, <2>2 DEF ConstructFrame
    <2> QED BY <2>3 DEF g, always
  <1>6. /\ ls \in LoopState /\ ls.inside /\ ls.brk = exit /\ ls.cont = post /\ ls.base = Len(deferred) /\ ~ ls.hasBreak
    BY <1>3, StateFacts DEF LoopState
  <1> HIDE DEF f, t1, t2, ls, s1
  <1>7. OpenedOf(blocks, n, deferred, cur, t1, s1)
    BY <1>1, <1>2, <1>3, <1>4, OpenBlock, StateFacts, OpenedIs DEF s1
  <1>8. /\ s1 \in Seq(Block) /\ Len(s1) = l + n /\ s1[cur].term.kind = "br" /\ AimsAt(blocks, {cond}, s1)
        /\ \A c \in 1..Len(blocks) : c # cur => s1[c] = blocks[c]
    BY <1>4, <1>7 DEF OpenedOf
  <1>9. \A c \in 1..Len(s1) : c > Len(blocks) => s1[c].term.kind = "none" /\ s1[c].term.to = {} /\ s1[c].ops = <<>>
    BY <1>7, TermTypes DEF OpenedOf
  <1>10. /\ Len(blocks) <= Len(s1) /\ cond \in 1..Len(s1) /\ cond > Len(blocks) /\ cond # cur /\ (\A c \in 1..Len(blocks) : c # cond /\ c \in 1..Len(s1))
         /\ cur \in 1..Len(s1) /\ body \in 1..Len(s1) /\ body > Len(blocks) /\ cur # body /\ cond # body
         /\ exit # cond /\ exit # body /\ exit # post /\ post # body
         /\ exit \in (Len(blocks) + 1)..Len(s1) /\ post \in (Len(blocks) + 1)..Len(s1)
         /\ \A c \in X : c \in 1..Len(s1) /\ c > Len(blocks)
         /\ \A c \in 1..Len(s1) : c > Len(blocks) => c = cond \/ c = body \/ c = exit \/ c = post
         /\ \A c \in (Len(blocks) + 1)..Len(s1) : c \in 1..Len(s1) /\ c > Len(blocks)
         /\ exit \in X => known # "true"
    <2>1. l \in Nat /\ Len(s1) = l + n /\ cur \in 1..l /\ Len(blocks) = l
      BY <1>8, StateFacts
    <2> HIDE DEF l
    <2>2. CASE hasPost
      <3>1. Len(s1) = l + 4 /\ exit = l + 4 /\ post = l + 3
        BY <2>1, <2>2
      <3> QED BY <2>1, <2>2, <3>1
    <2>3. CASE ~ hasPost
      <3>1. Len(s1) = l + 3 /\ exit = l + 3 /\ post = l + 1
        BY <2>1, <2>3
      <3> QED BY <2>1, <2>3, <3>1
    <2> QED BY <2>2, <2>3
  <1>11. Ended(s1, cond, t2, blocks') /\ AimsAt(s1, targets, blocks')
    <2>1. s1[cond].term.to = {} /\ cond \in 1..Len(s1)
      BY <1>9, <1>10
    <2>2. blocks' = SetTerm(s1, cond, t2) /\ s1 \in Seq(Block) /\ t2 \in Term /\ t2.to = targets
      BY <1>1, <1>4, <1>8
    <2> HIDE DEF cond, targets
    <2> QED BY <2>1, <2>2, EndedIs
  <1>12. /\ blocks' \in Seq(Block) /\ Len(blocks') = Len(s1) /\ blocks'[cur].term.kind = "br" /\ blocks'[cond].term.kind = "br"
         /\ \A c \in 1..Len(blocks) : c # cur => blocks'[c] = blocks[c]
         /\ \A c \in 1..Len(blocks') : c > Len(blocks) /\ c # cond => blocks'[c].term.kind = "none" /\ blocks'[c].term.to = {} /\ blocks'[c].ops = <<>>
    BY <1>4, <1>8, <1>9, <1>10, <1>11 DEF Ended
  <1>13. AimsAt(blocks, X, blocks')
    BY <1>8, <1>11 DEF AimsAt
  <1>14. \A b \in Nat : Waits(f, b) <=> b = exit \/ (post # cond /\ b = post)
    BY <1>5 DEF Waits
  <1>15. Aimed(blocks', exit) => known # "true"
    <2>1. exit > Len(blocks)
      BY <1>10
    <2>2. Aimed(blocks', exit) => exit \in X
      BY <1>3, <1>13, <2>1, StateFacts, NewAims
    <2> QED BY <1>10, <2>2
  <1>16. FrameInOrder(blocks', f)
    <2>1. loop_state.hasBreak => loop_state.sawBreak
      BY <1>2, LoweringFacts DEF LoopsInOrder
    <2> QED BY <1>5, <1>10, <1>12, <2>1 DEF FrameInOrder
  <1>17. OfLoop(blocks', ls, f)
    BY <1>5, <1>6, <1>15 DEF OfLoop
  <1>18. InOrder(blocks', cur', Append(constructs, f), ls)
    <2>1. InOrder(blocks, cur, constructs, loop_state) /\ constructs[Len(constructs)] = Innermost /\ Innermost.base <= f.base
      BY <1>2, <1>5, StartsInOrder, LoweringFacts, BaseFacts
    <2>2. C \in SUBSET {cur} /\ (\A b \in 1..Len(blocks) : b \notin C => blocks'[b] = blocks[b]) /\ (\A b \in C : blocks'[b].term.kind = "br")
      BY <1>12
    <2>3. /\ \A b \in Nat : Waits(f, b) => b \in (Len(blocks) + 1)..Len(blocks') /\ b # cur' /\ blocks'[b].term.kind = "none" /\ blocks'[b].ops = <<>>
      BY <1>1, <1>10, <1>12, <1>14
    <2>4. \A b \in 1..Len(blocks') : b > Len(blocks) /\ b # cur' /\ blocks'[b].term.kind = "none" => Waits(f, b)
      BY <1>1, <1>10, <1>12, <1>14
    <2>5. \A b \in 1..Len(blocks') : b > Len(blocks) => GoodTerm(b, blocks'[b].term)
      BY <1>12 DEF GoodTerm
    <2>6. \A c \in X : c \in 1..Len(blocks') /\ c > Len(blocks) /\ blocks'[c].term.kind # "unreachable"
      BY <1>10, <1>12
    <2>7. /\ blocks'[cur].term.kind # "none" /\ f.kind # "function" /\ f.kind # "switch" /\ cur' \in 1..Len(blocks') /\ cur' > Len(blocks)
          /\ Len(blocks) <= Len(blocks')
      BY <1>1, <1>5, <1>10, <1>12
    <2> HIDE DEF X, C
    <2> QED BY ZenonT(90), <1>2, <1>3, <1>5, <1>6, <1>12, <1>13, <1>16, <1>17, <2>1, <2>2, <2>3, <2>4, <2>5, <2>6, <2>7, StateFacts, PushStep
  <1> QED BY <1>1, <1>5, <1>6, <1>10, <1>12, <1>18, StateFacts, BeginStep

LEMMA LowerSwitchInv ==
  ASSUME BuildInv, NEW n \in 0..MaxCases, NEW hasDefault \in BOOLEAN, NEW exhaustive \in BOOLEAN, LowerSwitch(n, hasDefault, exhaustive)
  PROVE  BuildInv'
  <1> DEFINE l == Len(blocks)  merge == l + 1
             caseBlocks == {l + (1 + i) : i \in 1..n}
             unmatched == exhaustive /\ ~ hasDefault
             added == n + (IF unmatched THEN 2 ELSE 1)
             last == l + added
             X == IF exhaustive THEN caseBlocks ELSE caseBlocks \cup {merge}
             t == Br(X)  C == {cur}
             s1 == SetTerm(AddBlocks(blocks, added, deferred), cur, t)
             f == [NewConstruct("switch") EXCEPT !.merge = merge, !.other = l + 2, !.cases = n, !.falls = ~ exhaustive, !.reach = ~ exhaustive]
  <1>1. /\ LowersStatement /\ blocks' = IF unmatched THEN SetTerm(s1, last, UnreachableTerm) ELSE s1
        /\ constructs' = Append(constructs, f)
        /\ UNCHANGED <<phase, cur, deferred, loop_state, unwind, bound, sites, reachable, pc, live>>
    BY DEF LowerSwitch, New, PushConstruct, running
  <1>2. Lowering /\ Open /\ Innermost.kind # "switch" /\ ~ Innermost.left
    BY <1>1 DEF LowersStatement, InBody, Idle
  <1>3. /\ l \in Nat /\ n \in Nat /\ added \in Nat /\ merge \in Nat /\ X \in SUBSET BlockId /\ X \in SUBSET Nat
    <2>1. l \in Nat /\ n \in Nat
      BY Constants, StateFacts
    <2>2. added \in Nat /\ merge \in Nat /\ merge # 0
      BY <2>1
    <2>3. \A i \in 1..n : l + (1 + i) \in Nat \ {0}
      BY <2>1
    <2>4. X \in SUBSET BlockId /\ X \in SUBSET Nat
      BY <2>2, <2>3 DEF BlockId
    <2> QED BY <2>1, <2>2, <2>4
  <1>30. \A c \in Nat : c \in caseBlocks <=> l + 2 <= c /\ c <= l + 1 + n
    <2> SUFFICES ASSUME NEW c \in Nat PROVE c \in caseBlocks <=> l + 2 <= c /\ c <= l + 1 + n
      OBVIOUS
    <2>1. l \in Nat /\ n \in Nat
      BY <1>3
    <2>2. c \in caseBlocks => l + 2 <= c /\ c <= l + 1 + n
      BY <2>1
    <2>3. ASSUME l + 2 <= c, c <= l + 1 + n PROVE c \in caseBlocks
      <3>1. c - l - 1 \in 1..n /\ c = l + (1 + (c - l - 1))
        BY <2>1, <2>3
      <3> QED BY <3>1
    <2> QED BY <2>2, <2>3
  <1>4. t \in Term /\ t.kind = "br" /\ t.to = X
    BY <1>3, TermTypes
  <1>5. /\ f \in ConstructFrame /\ f.kind = "switch" /\ f.base = Len(deferred) /\ f.loop_state = loop_state
        /\ f.merge = merge /\ f.other = l + 2 /\ f.cases = n /\ f.falls = (~ exhaustive) /\ f.reach = (~ exhaustive)
    <2> DEFINE g == NewConstruct("switch")  other == l + 2  part == ~ exhaustive
    <2>1. g \in ConstructFrame /\ g.kind = "switch" /\ g.base = Len(deferred) /\ g.loop_state = loop_state
      BY NewConstructIs DEF FrameKinds
    <2> HIDE DEF g
    <2>2. merge \in Nat /\ other \in Nat /\ part \in BOOLEAN /\ n \in Nat
      BY <1>3
    <2> HIDE DEF merge, other, part
    <2>3. LET h == [g EXCEPT !.merge = merge, !.other = other, !.cases = n, !.falls = part, !.reach = part] IN
          /\ h \in ConstructFrame /\ h.kind = "switch" /\ h.base = Len(deferred) /\ h.loop_state = loop_state
          /\ h.merge = merge /\ h.other = other /\ h.cases = n /\ h.falls = part /\ h.reach = part
      BY <2>1, <2>2 DEF ConstructFrame
    <2> QED BY <2>3 DEF g, other, part
  <1> HIDE DEF f, t, s1, caseBlocks
  <1>7. OpenedOf(blocks, added, deferred, cur, t, s1)
    BY <1>1, <1>2, <1>3, <1>4, OpenBlock, StateFacts, OpenedIs DEF s1
  <1>8. /\ s1 \in Seq(Block) /\ Len(s1) = last /\ s1[cur].term.kind = "br" /\ AimsAt(blocks, X, s1)
        /\ \A c \in 1..Len(blocks) : c # cur => s1[c] = blocks[c]
    BY <1>4, <1>7 DEF OpenedOf
  <1>9. \A c \in 1..Len(s1) : c > Len(blocks) => s1[c].term.kind = "none" /\ s1[c].term.to = {} /\ s1[c].ops = <<>>
    BY <1>7, TermTypes DEF OpenedOf
  <1>90. /\ last \in Nat /\ Len(blocks) = l /\ cur \in 1..l /\ l < last /\ merge <= last /\ l + 1 + n <= last
         /\ unmatched => last = l + 2 + n
         /\ ~ unmatched => last = l + 1 + n
    <2>1. l \in Nat /\ n \in Nat /\ cur \in 1..l /\ Len(blocks) = l
      BY <1>3, StateFacts
    <2> HIDE DEF l
    <2>2. CASE unmatched
      BY <2>1, <2>2
    <2>3. CASE ~ unmatched
      BY <2>1, <2>3
    <2> QED BY <2>2, <2>3
  <1>10. /\ blocks' \in Seq(Block) /\ Len(blocks') = last /\ blocks'[cur].term.kind = "br" /\ AimsAt(blocks, X, blocks')
         /\ \A c \in 1..Len(blocks) : c # cur => blocks'[c] = blocks[c]
         /\ \A c \in 1..Len(blocks') : c > Len(blocks) => /\ blocks'[c].term.kind = IF unmatched /\ c = last THEN "unreachable" ELSE "none"
                                                          /\ blocks'[c].term.to = {} /\ blocks'[c].ops = <<>>
    <2>1. CASE ~ unmatched
      BY <1>1, <1>8, <1>9, <2>1
    <2>2. CASE unmatched
      <3>1. s1[last].term.to = {} /\ last \in 1..Len(s1) /\ cur # last /\ \A c \in 1..Len(blocks) : c # last /\ c \in 1..Len(s1)
        <4>1. last \in 1..Len(s1) /\ last > Len(blocks) /\ cur # last /\ \A c \in 1..Len(blocks) : c # last /\ c \in 1..Len(s1)
          <5>1. Len(s1) = last
            BY <1>8
          <5> HIDE DEF last, l
          <5> QED BY <1>3, <1>90, <5>1
        <4> QED BY <1>9, <4>1
      <3>2. blocks' = SetTerm(s1, last, UnreachableTerm) /\ s1 \in Seq(Block) /\ UnreachableTerm \in Term /\ UnreachableTerm.to = {}
            /\ UnreachableTerm.kind = "unreachable"
        BY <1>1, <1>8, <2>2, TermTypes
      <3> HIDE DEF last
      <3>3. Ended(s1, last, UnreachableTerm, blocks') /\ AimsAt(s1, {}, blocks')
        BY <3>1, <3>2, EndedIs
      <3>4. AimsAt(blocks, X, blocks')
        BY <1>8, <3>3 DEF AimsAt
      <3>5. /\ blocks' \in Seq(Block) /\ Len(blocks') = Len(s1) /\ blocks'[last].term = UnreachableTerm /\ blocks'[last].ops = s1[last].ops
            /\ \A c \in 1..Len(s1) : c # last => blocks'[c] = s1[c]
        BY <3>3 DEF Ended
      <3>6. cur \in 1..Len(s1)
        BY <1>90, <3>1
      <3> QED BY <1>8, <1>9, <2>2, <3>1, <3>2, <3>4, <3>5, <3>6
    <2> QED BY <2>1, <2>2
  <1>14. \A b \in Nat : Waits(f, b) <=> b = merge \/ (l + 2 <= b /\ b < l + 2 + n)
    BY <1>5 DEF Waits
  <1>15. Aimed(blocks', merge) => ~ exhaustive
    <2>1. merge > Len(blocks) /\ merge \in Nat /\ ~(l + 2 <= merge)
      BY <1>3
    <2>2. Aimed(blocks', merge) => merge \in X
      BY <1>10, <2>1, StateFacts, NewAims
    <2> QED BY <1>30, <2>1, <2>2
  <1>16. FrameInOrder(blocks', f)
    <2>1. loop_state.hasBreak => loop_state.sawBreak
      BY <1>2, LoweringFacts DEF LoopsInOrder
    <2>2. merge < l + 2
      BY <1>3
    <2> QED BY <1>5, <1>15, <2>1, <2>2 DEF FrameInOrder, Joins
  <1>18. InOrder(blocks', cur, Append(constructs, f), loop_state)
    <2>1. InOrder(blocks, cur, constructs, loop_state) /\ constructs[Len(constructs)] = Innermost /\ Innermost.base <= f.base
      BY <1>2, <1>5, StartsInOrder, LoweringFacts, BaseFacts
    <2>2. C \in SUBSET {cur} /\ (\A b \in 1..Len(blocks) : b \notin C => blocks'[b] = blocks[b]) /\ (\A b \in C : blocks'[b].term.kind = "br")
      BY <1>10
    <2>20. l \in Nat /\ last \in Nat /\ Len(blocks) = l /\ Len(blocks') = last /\ cur \in 1..l /\ l < last /\ n \in Nat
      BY <1>3, <1>10, <1>90
    <2>30. ASSUME NEW b \in Nat, Waits(f, b) PROVE b \in (l + 1)..last /\ b # cur /\ b \in 1..last /\ b > l /\ ~(unmatched /\ b = last)
      <3>1. b = l + 1 \/ (l + 2 <= b /\ b < l + 2 + n)
        BY <1>14, <2>30
      <3>2. l + 1 + n <= last /\ (unmatched => last = l + 2 + n)
        BY <1>90
      <3> HIDE DEF l, last, unmatched
      <3> QED BY <2>20, <3>1, <3>2
    <2>3. /\ \A b \in Nat : Waits(f, b) => b \in (Len(blocks) + 1)..Len(blocks') /\ b # cur /\ blocks'[b].term.kind = "none" /\ blocks'[b].ops = <<>>
      <3> SUFFICES ASSUME NEW b \in Nat, Waits(f, b) PROVE b \in (l + 1)..last /\ b # cur /\ blocks'[b].term.kind = "none" /\ blocks'[b].ops = <<>>
        BY <2>20
      <3>1. b \in (l + 1)..last /\ b # cur /\ b \in 1..last /\ b > l /\ ~(unmatched /\ b = last)
        BY <2>30
      <3> HIDE DEF l, last, unmatched
      <3> QED BY <1>10, <2>20, <3>1
    <2>4. \A b \in 1..Len(blocks') : b > Len(blocks) /\ b # cur /\ blocks'[b].term.kind = "none" => Waits(f, b)
      <3> SUFFICES ASSUME NEW b \in 1..last, b > l, blocks'[b].term.kind = "none" PROVE Waits(f, b)
        BY <2>20
      <3>1. ~(unmatched /\ b = last)
        <4>1. b \in 1..Len(blocks') /\ b > Len(blocks)
          BY <2>20
        <4> HIDE DEF l, last, unmatched
        <4> QED BY <1>10, <4>1
      <3>2. b \in Nat /\ (b = l + 1 \/ (l + 2 <= b /\ b < l + 2 + n))
        <4>1. (unmatched => last = l + 2 + n) /\ (~ unmatched => last = l + 1 + n)
          BY <1>90
        <4> HIDE DEF l, last, unmatched
        <4> QED BY <2>20, <3>1, <4>1
      <3> QED BY <1>14, <3>2
    <2>5. \A b \in 1..Len(blocks') : b > Len(blocks) => GoodTerm(b, blocks'[b].term)
      <3> HIDE DEF l, last, unmatched
      <3> QED BY <1>10 DEF GoodTerm
    <2>6. \A c \in X : c \in 1..Len(blocks') /\ c > Len(blocks) /\ blocks'[c].term.kind # "unreachable"
      <3> SUFFICES ASSUME NEW c \in X PROVE c \in 1..Len(blocks') /\ c > Len(blocks) /\ blocks'[c].term.kind # "unreachable"
        OBVIOUS
      <3>1. c \in Nat /\ (c = l + 1 \/ (l + 2 <= c /\ c <= l + 1 + n))
        BY <1>3, <1>30
      <3>2. c = l + 1 \/ (l + 2 <= c /\ c < l + 2 + n)
        BY <2>20, <3>1
      <3>3. Waits(f, c)
        BY <1>14, <3>1, <3>2
      <3>4. c \in 1..last /\ c > l
        BY <2>30, <3>1, <3>3
      <3>5. blocks'[c].term.kind = "none"
        BY <2>3, <3>1, <3>3
      <3> QED BY <2>20, <3>4, <3>5
    <2>7. /\ blocks'[cur].term.kind # "none" /\ f.kind # "function" /\ f.kind # "loop" /\ cur \in 1..Len(blocks')
          /\ Len(blocks) <= Len(blocks')
      <3> HIDE DEF l, last, unmatched
      <3> QED BY <1>5, <1>10, <2>20
    <2>8. X \in SUBSET Nat /\ blocks' \in Seq(Block) /\ AimsAt(blocks, X, blocks') /\ f \in ConstructFrame
      BY <1>3, <1>5, <1>10
    <2> HIDE DEF X, C, l, last, unmatched, merge
    <2> QED BY <1>2, <1>16, <2>1, <2>2, <2>3, <2>4, <2>5, <2>6, <2>7, <2>8, StateFacts, PushStep
  <1>19. cur' \in 1..Len(blocks') /\ blocks' \in Seq(Block)
    <2>1. last \in Nat /\ Len(blocks') = last /\ l < last /\ cur \in 1..l /\ l \in Nat /\ cur' = cur /\ blocks' \in Seq(Block)
      BY <1>1, <1>3, <1>10, <1>90
    <2> HIDE DEF l, last
    <2> QED BY <2>1
  <1> HIDE DEF X, C, l, last, unmatched, merge
  <1> QED BY <1>1, <1>5, <1>18, <1>19, StateFacts, BeginStep

-----------------------------------------------------------------------------
(* A part of a construct is done: the current block, if it is open, jumps  *)
(* to m; the block the construct continues at may be closed.               *)

CloseOf(bs, b, m, bs2) ==
  /\ bs2 \in Seq(Block) /\ Len(bs2) = Len(bs)
  /\ \A c \in 1..Len(bs) : c # b => bs2[c] = bs[c]
  /\ bs2[b].ops = bs[b].ops /\ bs2[b].entry = bs[b].entry
  /\ bs2[b].term = IF IsOpen(bs, b) THEN Br({m}) ELSE bs[b].term
  /\ AimsAt(bs, IF IsOpen(bs, b) THEN {m} ELSE {}, bs2)

LEMMA CloseIs ==
  ASSUME NEW bs \in Seq(Block), NEW b \in 1..Len(bs), GraphInOrder(bs), NEW m \in BlockId
  PROVE  CloseOf(bs, b, m, SetTermIfOpen(bs, b, Br({m})))
  <1> DEFINE t == Br({m})
  <1>1. t \in Term /\ t.to = {m}
    <2>1. {m} \in SUBSET BlockId
      OBVIOUS
    <2> QED BY <2>1, TermTypes
  <1>2. CASE ~ IsOpen(bs, b)
    BY <1>2 DEF SetTermIfOpen, CloseOf, AimsAt
  <1>3. CASE IsOpen(bs, b)
    <2>1. bs[b].term.to = {}
      BY <1>3 DEF IsOpen, GraphInOrder
    <2> HIDE DEF t
    <2>2. Ended(bs, b, t, SetTerm(bs, b, t)) /\ AimsAt(bs, {m}, SetTerm(bs, b, t))
      BY <1>1, <2>1, EndedIs
    <2> QED BY <1>3, <2>2 DEF SetTermIfOpen, CloseOf, Ended, t
  <1> QED BY <1>2, <1>3

JoinOf(bs, m, falls, bs2) ==
  /\ bs2 \in Seq(Block) /\ Len(bs2) = Len(bs)
  /\ \A c \in 1..Len(bs) : c # m => bs2[c] = bs[c]
  /\ bs2[m].ops = bs[m].ops /\ bs2[m].entry = bs[m].entry
  /\ bs2[m].term = IF falls THEN bs[m].term ELSE UnreachableTerm
  /\ AimsAt(bs, {}, bs2)

LEMMA JoinIs ==
  ASSUME NEW bs \in Seq(Block), NEW m \in 1..Len(bs), bs[m].term.to = {}, NEW falls \in BOOLEAN
  PROVE  JoinOf(bs, m, falls, JoinAt(bs, m, falls))
  <1>1. CASE falls
    BY <1>1 DEF JoinAt, JoinOf, AimsAt
  <1>2. CASE ~ falls
    <2>1. Ended(bs, m, UnreachableTerm, SetTerm(bs, m, UnreachableTerm)) /\ AimsAt(bs, {}, SetTerm(bs, m, UnreachableTerm))
      BY TermTypes, EndedIs
    <2> QED BY <1>2, <2>1 DEF JoinAt, JoinOf, Ended
  <1> QED BY <1>1, <1>2

LEMMA GoodSame ==
  ASSUME NEW bs \in Seq(Block), GraphInOrder(bs), NEW b \in 1..Len(bs)
  PROVE  GoodTerm(b, bs[b].term) /\ (bs[b].term.kind = "unreachable" => ~ Aimed(bs, b))
  BY DEF GraphInOrder, GoodTerm

(* What waits in the top frame.                                            *)
LEMMA TopWaits ==
  ASSUME BuildInv, Lowering, NEW b \in Nat, Waits(Innermost, b)
  PROVE  b \in 1..Len(blocks) /\ b # cur /\ blocks[b].term.kind = "none" /\ blocks[b].term.to = {} /\ blocks[b].ops = <<>> /\ b \in BlockId
  <1>1. Len(constructs) \in 1..Len(constructs)
    BY StateFacts, LoweringFacts
  <1>2. Innermost = constructs[Len(constructs)]
    BY LoweringFacts
  <1>3. b \in 1..Len(blocks) /\ b # cur /\ blocks[b].term.kind = "none" /\ blocks[b].ops = <<>>
    BY <1>1, <1>2, LoweringFacts DEF WaitingInOrder
  <1>4. blocks[b].term.to = {}
    BY <1>3, StateFacts DEF GraphInOrder
  <1> QED BY <1>3, <1>4, StateFacts DEF BlockId

(* The current block is closed towards m, which waits in the top frame.    *)
Closes(bs, cu, fs, C, X, m, bs2) ==
  /\ Reshaped(bs, bs2, cu, C, X) /\ CloseOf(bs, cu, m, bs2) /\ AimsAt(bs, X, bs2)
  /\ bs2 \in Seq(Block) /\ bs2[cu].term.kind # "none" /\ X \in SUBSET Nat
  /\ \A c \in 1..Len(bs) : c # cu => bs2[c] = bs[c]
  /\ \A c \in X : c > Len(bs) \/ (c \in 1..Len(bs) /\ bs[c].term.kind # "none") \/ Waits(fs[Len(fs)], c)

LEMMA CloseTowards ==
  ASSUME BuildInv, Lowering, NEW m \in 1..Len(blocks), Waits(Innermost, m) \/ blocks[m].term.kind = "br", NEW C, cur \in C,
         NEW bs2, bs2 = SetTermIfOpen(blocks, cur, Br({m}))
  PROVE  Closes(blocks, cur, constructs, C, IF Open THEN {m} ELSE {}, m, bs2)
  <1> DEFINE X == IF Open THEN {m} ELSE {}
  <1>1. /\ m \in 1..Len(blocks) /\ (Open => m # cur) /\ blocks[m].term.kind \in {"none", "br"} /\ m \in BlockId
        /\ Waits(constructs[Len(constructs)], m) \/ (m \in 1..Len(blocks) /\ blocks[m].term.kind # "none")
    <2>1. m \in Nat /\ m \in BlockId
      BY StateFacts DEF BlockId
    <2>2. CASE Waits(Innermost, m)
      BY <2>1, <2>2, TopWaits, LoweringFacts
    <2>3. CASE blocks[m].term.kind = "br"
      BY <2>1, <2>3 DEF Open, IsOpen
    <2> QED BY <2>2, <2>3
  <1>2. CloseOf(blocks, cur, m, bs2)
    BY <1>1, StateFacts, CloseIs
  <1>3. /\ bs2 \in Seq(Block) /\ Len(bs2) = Len(blocks) /\ (\A c \in 1..Len(blocks) : c # cur => bs2[c] = blocks[c])
        /\ bs2[cur].term = IF Open THEN Br({m}) ELSE blocks[cur].term
        /\ AimsAt(blocks, X, bs2)
    BY <1>2 DEF CloseOf, Open
  <1>4. Br({m}).kind = "br" /\ (~ Open => blocks[cur].term.kind # "none")
    BY TermTypes DEF Open, IsOpen
  <1>5. bs2[cur].term.kind # "none"
    BY <1>3, <1>4
  <1>6. \A c \in X : c = m
    OBVIOUS
  <1>7. \A c \in X : c \in 1..Len(blocks) /\ bs2[c].term.kind # "unreachable"
    <2>1. CASE Open
      BY <1>1, <1>3, <1>6, <2>1
    <2>2. CASE ~ Open
      BY <2>2
    <2> QED BY <2>1, <2>2
  <1>8. /\ blocks[cur].term.kind = "br" => bs2[cur].term.kind = "br"
        /\ GoodTerm(cur, bs2[cur].term) /\ (bs2[cur].term.kind = "unreachable" => ~ Aimed(blocks, cur))
    <2>1. CASE Open
      BY <1>3, <1>4, <2>1 DEF GoodTerm
    <2>2. CASE ~ Open
      BY <1>3, <2>2, StateFacts, GoodSame
    <2> QED BY <2>1, <2>2
  <1>9. \A b \in C : b \in 1..Len(blocks) =>
          /\ blocks[b].term.kind = "br" => bs2[b].term.kind = "br"
          /\ GoodTerm(b, bs2[b].term) /\ (bs2[b].term.kind = "unreachable" => ~ Aimed(blocks, b))
    <2> SUFFICES ASSUME NEW b \in 1..Len(blocks), b # cur
                 PROVE  /\ blocks[b].term.kind = "br" => bs2[b].term.kind = "br"
                        /\ GoodTerm(b, bs2[b].term) /\ (bs2[b].term.kind = "unreachable" => ~ Aimed(blocks, b))
      BY <1>8
    <2>1. bs2[b] = blocks[b]
      BY <1>3
    <2> QED BY <2>1, StateFacts, GoodSame
  <1>10. /\ X \in SUBSET Nat
         /\ \A c \in X : c > Len(blocks) \/ (c \in 1..Len(blocks) /\ blocks[c].term.kind # "none") \/ Waits(constructs[Len(constructs)], c)
    BY <1>1, <1>6 DEF BlockId
  <1> HIDE DEF X
  <1>11. Reshaped(blocks, bs2, cur, C, X)
    BY <1>3, <1>7, <1>9 DEF Reshaped
  <1> QED BY <1>2, <1>3, <1>5, <1>10, <1>11 DEF Closes, X

LEMMA CloseReshapes ==
  ASSUME BuildInv, Lowering, NEW m \in Nat, Waits(Innermost, m), NEW C, cur \in C,
         NEW bs2, bs2 = SetTermIfOpen(blocks, cur, Br({m}))
  PROVE  Closes(blocks, cur, constructs, C, IF Open THEN {m} ELSE {}, m, bs2)
  BY TopWaits, CloseTowards

(* The parts of the next state when the construct on top goes on as f.     *)
LEMMA MoveStep ==
  ASSUME BuildInv, Idle, NEW f \in ConstructFrame, constructs' = Append(SubSeq(constructs, 1, Len(constructs) - 1), f),
         deferred' \in Seq(Defer), f.base <= Len(deferred'), sites' \in Nat, reachable' \in BOOLEAN,
         blocks' \in Seq(Block), cur' \in 1..Len(blocks'),
         InOrder(blocks', cur', Append(SubSeq(constructs, 1, Len(constructs) - 1), f), loop_state),
         blocks'[cur'].term.kind = "none" => reachable',
         UNCHANGED <<phase, loop_state, unwind, bound, pc, live>>
  PROVE  BuildInv'
  <1>1. Lowering /\ unwind.why = "idle" /\ phase' = "lowering"
    BY DEF Idle, Lowering
  <1>2. constructs' \in Seq(ConstructFrame) /\ Len(constructs') = Len(constructs) /\ constructs'[Len(constructs)] = f
    BY <1>1, LoweringFacts, StateFacts, FsTop
  <1>3. UnwindInOrder(unwind', constructs', deferred', loop_state', cur')
    <2>1. constructs'[Len(constructs')].base <= Len(deferred') /\ unwind'.why = "idle"
      BY <1>1, <1>2
    <2> QED BY <2>1, IdleUnwind
  <1>4. LoweringTypeOK'
    BY <1>1, <1>2, StateFacts, StateTypes DEF BuildInv, LoweringTypeOK
  <1> QED BY <1>1, <1>3, <1>4, RebuiltInOrder

(* ... and when it ends.                                                   *)
LEMMA EndStep ==
  ASSUME BuildInv, Idle, Innermost.kind # "function", constructs' = SubSeq(constructs, 1, Len(constructs) - 1),
         reachable' \in BOOLEAN, blocks' \in Seq(Block), cur' \in 1..Len(blocks'), loop_state' \in LoopState,
         InOrder(blocks', cur', SubSeq(constructs, 1, Len(constructs) - 1), loop_state'),
         blocks'[cur'].term.kind = "none" => reachable',
         UNCHANGED <<phase, deferred, unwind, bound, sites, pc, live>>
  PROVE  BuildInv'
  <1>1. Lowering /\ unwind.why = "idle" /\ phase' = "lowering"
    BY DEF Idle, Lowering
  <1>2. constructs' \in Seq(ConstructFrame) /\ UnwindInOrder(unwind', constructs', deferred', loop_state', cur')
    BY <1>1, PopIs
  <1>3. LoweringTypeOK'
    BY <1>1, <1>2, StateFacts, StateTypes DEF BuildInv, LoweringTypeOK
  <1> QED BY <1>1, <1>2, <1>3, RebuiltInOrder

LEMMA LowerElseInv == ASSUME BuildInv, LowerElse PROVE BuildInv'
  <1> DEFINE g == Innermost  m == g.merge  o == g.other  C == {cur, o}  X == IF Open THEN {m} ELSE {}
             f == [g EXCEPT !.kind = "else", !.left = FALSE, !.falls = Open, !.reach = reachable]
  <1>1. /\ Idle /\ Lowering /\ unwind.why = "idle" /\ g.kind = "then" /\ g.left /\ o # m /\ blocks' = SetTermIfOpen(blocks, cur, Br({m}))
        /\ cur' = o /\ constructs' = Append(SubSeq(constructs, 1, Len(constructs) - 1), f) /\ reachable' = TRUE
        /\ UNCHANGED <<phase, deferred, loop_state, unwind, bound, sites, pc, live>>
    BY DEF LowerElse, BlockDone, AtConstruct, Idle, Reframe, Outward, running
  <1>2. g = constructs[Len(constructs)] /\ g \in ConstructFrame /\ g.base \in Nat /\ m \in Nat /\ o \in Nat /\ FrameInOrder(blocks, g)
    BY <1>1, LoweringFacts
  <1>3. /\ f \in ConstructFrame /\ f.kind = "else" /\ f.base = g.base /\ f.merge = m /\ f.falls = Open /\ f.reach = reachable
        /\ f.loop_state = g.loop_state
    <2> DEFINE op == Open
    <2>1. op \in BOOLEAN /\ reachable \in BOOLEAN
      BY StateFacts DEF Open, IsOpen
    <2> HIDE DEF op, g
    <2>2. LET h == [g EXCEPT !.kind = "else", !.left = FALSE, !.falls = op, !.reach = reachable] IN
          /\ h \in ConstructFrame /\ h.kind = "else" /\ h.base = g.base /\ h.merge = g.merge /\ h.falls = op /\ h.reach = reachable
          /\ h.loop_state = g.loop_state
      BY <1>2, <2>1 DEF ConstructFrame, FrameKinds
    <2> QED BY <2>2 DEF op
  <1>4. Waits(g, m) /\ Waits(g, o) /\ \A b \in Nat : Waits(g, b) <=> b = m \/ b = o
    BY <1>1 DEF Waits
  <1>5. \A b \in Nat : Waits(f, b) <=> b = m
    BY <1>3 DEF Waits
  <1> HIDE DEF f
  <1>6. /\ m \in 1..Len(blocks) /\ m # cur /\ o \in 1..Len(blocks) /\ o # cur /\ blocks[o].term.kind = "none"
    BY <1>1, <1>2, <1>4, TopWaits
  <1>7. cur \in C
    OBVIOUS
  <1>8. /\ Reshaped(blocks, blocks', cur, C, X) /\ CloseOf(blocks, cur, m, blocks') /\ AimsAt(blocks, X, blocks')
        /\ blocks' \in Seq(Block) /\ blocks'[cur].term.kind # "none" /\ X \in SUBSET Nat
        /\ \A c \in 1..Len(blocks) : c # cur => blocks'[c] = blocks[c]
        /\ \A c \in X : c > Len(blocks) \/ (c \in 1..Len(blocks) /\ blocks[c].term.kind # "none") \/ Waits(constructs[Len(constructs)], c)
    <2> HIDE DEF C, m, o
    <2>1. Closes(blocks, cur, constructs, C, X, m, blocks')
      BY <1>1, <1>2, <1>4, <1>7, CloseReshapes
    <2> QED BY <2>1 DEF Closes
  <1>9. FrameInOrder(blocks', f)
    <2>1. Aimed(blocks', m) => Open
      <3>1. Aimed(blocks', m) => Aimed(blocks, m) \/ m \in X
        BY <1>8 DEF AimsAt
      <3>2. ~ Aimed(blocks, m)
        BY <1>1, <1>2 DEF FrameInOrder, Joins
      <3> QED BY <3>1, <3>2
    <2>2. Open => reachable
      BY <1>1, LoweringFacts
    <2>3. g.loop_state.hasBreak => g.loop_state.sawBreak
      BY <1>2 DEF FrameInOrder
    <2> QED BY <1>3, <2>1, <2>2, <2>3 DEF FrameInOrder, Joins
  <1>10. InOrder(blocks', cur', Append(SubSeq(constructs, 1, Len(constructs) - 1), f), loop_state)
    <2>1. InOrder(blocks, cur, constructs, loop_state)
      BY <1>1, StartsInOrder
    <2>2. /\ C \in SUBSET Nat /\ Touches(blocks, cur, constructs, C) /\ cur' \in C \cup {cur} /\ cur' \in 1..Len(blocks)
          /\ \A b \in C \cup {cur} : b # cur' => blocks'[b].term.kind # "none"
      BY <1>1, <1>2, <1>4, <1>6, <1>8, StateFacts DEF Touches
    <2>3. \A b \in Nat : Waits(f, b) <=> Waits(constructs[Len(constructs)], b) /\ b \notin C
      BY <1>1, <1>2, <1>4, <1>5, <1>6
    <2>4. SameLoop(g, f) /\ g.kind # "loop" /\ f.kind # "switch" /\ f.kind # "function" /\ g.kind # "function" /\ g.base <= f.base
      BY <1>1, <1>2, <1>3 DEF SameLoop
    <2> HIDE DEF C, X, m, o, g
    <2> QED BY <1>2, <1>3, <1>8, <1>9, <2>1, <2>2, <2>3, <2>4, StateFacts, TopStep
  <1>11. cur' \in 1..Len(blocks') /\ f.base <= Len(deferred')
    BY <1>1, <1>3, <1>6, <1>8, BaseFacts DEF CloseOf
  <1> QED BY <1>1, <1>3, <1>8, <1>10, <1>11, StateFacts, MoveStep

LEMMA LowerCaseInv == ASSUME BuildInv, LowerCase PROVE BuildInv'
  <1> DEFINE g == Innermost  o == g.other  C == {o}  X == {}
             f == [g EXCEPT !.kind = "case", !.left = FALSE, !.base = Len(deferred)]
  <1>1. /\ Idle /\ Lowering /\ unwind.why = "idle" /\ g.kind = "switch" /\ g.cases > 0
        /\ cur' = o /\ constructs' = Append(SubSeq(constructs, 1, Len(constructs) - 1), f) /\ reachable' = TRUE
        /\ UNCHANGED <<phase, blocks, deferred, loop_state, unwind, bound, sites, pc, live>>
    BY DEF LowerCase, AtConstruct, Idle, Reframe, Outward, running
  <1>2. /\ g = constructs[Len(constructs)] /\ g \in ConstructFrame /\ g.base \in Nat /\ g.merge \in Nat /\ o \in Nat /\ g.cases \in Nat
        /\ FrameInOrder(blocks, g) /\ Len(deferred) \in Nat
    BY <1>1, LoweringFacts, StateFacts
  <1>3. /\ f \in ConstructFrame /\ f.kind = "case" /\ f.base = Len(deferred) /\ f.merge = g.merge /\ f.falls = g.falls /\ f.reach = g.reach
        /\ f.loop_state = g.loop_state /\ f.other = o /\ f.cases = g.cases
    <2> DEFINE k == Len(deferred)
    <2>1. k \in Nat
      BY <1>2
    <2> HIDE DEF g, k
    <2>2. LET h == [g EXCEPT !.kind = "case", !.left = FALSE, !.base = k] IN
          /\ h \in ConstructFrame /\ h.kind = "case" /\ h.base = k /\ h.merge = g.merge /\ h.falls = g.falls /\ h.reach = g.reach
          /\ h.loop_state = g.loop_state /\ h.other = g.other /\ h.cases = g.cases
      BY <1>2, <2>1 DEF ConstructFrame, FrameKinds
    <2> QED BY <2>2 DEF k
  <1> HIDE DEF f
  <1>4. g.merge < o
    BY <1>1, <1>2 DEF FrameInOrder
  <1>5. Waits(g, o)
    <2>1. o <= o /\ o < o + g.cases
      BY <1>1, <1>2
    <2> QED BY <1>1, <2>1 DEF Waits
  <1>6. \A b \in Nat : Waits(f, b) <=> Waits(g, b) /\ b # o
    <2> DEFINE m == g.merge  k == g.cases
    <2>1. \A b \in Nat : Waits(f, b) <=> b = m \/ (o < b /\ b < o + k)
      BY <1>3 DEF Waits
    <2>2. \A b \in Nat : Waits(g, b) <=> b = m \/ (o <= b /\ b < o + k)
      BY <1>1 DEF Waits
    <2>3. m \in Nat /\ o \in Nat /\ k \in Nat /\ m < o
      BY <1>2, <1>4
    <2> HIDE DEF m, o, k, g
    <2>4. \A b \in Nat : (b = m \/ (o < b /\ b < o + k)) <=> (b = m \/ (o <= b /\ b < o + k)) /\ b # o
      BY <2>3
    <2> QED BY <2>1, <2>2, <2>4
  <1>7. o \in 1..Len(blocks) /\ o # cur /\ blocks[o].term.kind = "none"
    BY <1>1, <1>2, <1>5, TopWaits
  <1>8. blocks[cur].term.kind # "none"
    BY <1>1, LoweringFacts DEF FramesInOrder
  <1>9. FrameInOrder(blocks, f)
    BY <1>1, <1>2, <1>3 DEF FrameInOrder, Joins
  <1>10. InOrder(blocks, cur', Append(SubSeq(constructs, 1, Len(constructs) - 1), f), loop_state)
    <2>1. InOrder(blocks, cur, constructs, loop_state)
      BY <1>1, StartsInOrder
    <2>2. /\ C \in SUBSET Nat /\ Touches(blocks, cur, constructs, C) /\ cur' \in C \cup {cur} /\ cur' \in 1..Len(blocks)
          /\ \A b \in C \cup {cur} : b # cur' => blocks[b].term.kind # "none"
      BY <1>1, <1>2, <1>5, <1>7, <1>8 DEF Touches
    <2>3. \A b \in Nat : Waits(f, b) <=> Waits(constructs[Len(constructs)], b) /\ b \notin C
      BY <1>2, <1>6
    <2>4. SameLoop(g, f) /\ g.kind # "loop" /\ f.kind # "switch" /\ f.kind # "function" /\ g.kind # "function" /\ g.base <= f.base
      BY <1>1, <1>2, <1>3, BaseFacts DEF SameLoop
    <2>5. Reshaped(blocks, blocks, cur, C, X) /\ X \in SUBSET Nat /\ \A c \in X : FALSE
      <3>1. \A b \in C : b \in 1..Len(blocks) => GoodTerm(b, blocks[b].term) /\ (blocks[b].term.kind = "unreachable" => ~ Aimed(blocks, b))
        BY StateFacts, GoodSame
      <3> QED BY <3>1 DEF Reshaped, AimsAt
    <2> HIDE DEF C, X, o, g
    <2> QED BY <1>2, <1>3, <1>9, <2>1, <2>2, <2>3, <2>4, <2>5, StateFacts, TopStep
  <1>11. cur' \in 1..Len(blocks') /\ f.base <= Len(deferred') /\ blocks' \in Seq(Block)
    BY <1>1, <1>2, <1>3, <1>7, StateFacts
  <1> QED BY <1>1, <1>3, <1>10, <1>11, StateFacts, MoveStep

NextCaseOf(g, falls, reach, f) ==
  /\ f \in ConstructFrame /\ f.kind = "switch" /\ f.base = g.base /\ f.merge = g.merge /\ f.other = g.other + 1
  /\ f.cases = g.cases - 1 /\ f.falls = (g.falls \/ falls) /\ f.reach = (g.reach \/ reach) /\ f.loop_state = g.loop_state
  /\ f.left = g.left

LEMMA NextCaseIs ==
  ASSUME NEW g \in ConstructFrame, g.cases > 0, NEW falls \in BOOLEAN, NEW reach \in BOOLEAN
  PROVE  NextCaseOf(g, falls, reach, NextCase(g, falls, reach))
  <1>1. g.other + 1 \in Nat /\ g.cases - 1 \in Nat /\ (g.falls \/ falls) \in BOOLEAN /\ (g.reach \/ reach) \in BOOLEAN
    BY DEF ConstructFrame
  <1> QED BY <1>1 DEF NextCaseOf, NextCase, ConstructFrame, FrameKinds

(* The cases that are left wait.                                           *)
LEMMA NextCaseWaits ==
  ASSUME NEW f, NEW m \in Nat, NEW o \in Nat, NEW k \in Nat, k > 0, f.kind = "switch", f.merge = m, f.other = o + 1, f.cases = k - 1
  PROVE  \A b \in Nat : Waits(f, b) <=> b = m \/ (o < b /\ b < o + k)
  <1>1. \A b \in Nat : Waits(f, b) <=> b = m \/ (o + 1 <= b /\ b < o + 1 + (k - 1))
    BY DEF Waits
  <1>2. \A b \in Nat : (o + 1 <= b /\ b < o + 1 + (k - 1)) <=> (o < b /\ b < o + k)
    OBVIOUS
  <1> QED BY <1>1, <1>2

LEMMA LowerCaseEndInv == ASSUME BuildInv, LowerCaseEnd PROVE BuildInv'
  <1> DEFINE g == Innermost  m == g.merge  o == g.other  C == {cur}  X == IF Open THEN {m} ELSE {}
             f == NextCase(g, Open, reachable)
  <1>1. /\ Idle /\ Lowering /\ unwind.why = "idle" /\ g.kind = "case" /\ g.left /\ blocks' = SetTermIfOpen(blocks, cur, Br({m}))
        /\ constructs' = Append(SubSeq(constructs, 1, Len(constructs) - 1), f)
        /\ UNCHANGED <<phase, cur, deferred, loop_state, unwind, bound, sites, reachable, pc, live>>
    BY DEF LowerCaseEnd, BlockDone, AtConstruct, Idle, Reframe, Outward, running
  <1>2. /\ g = constructs[Len(constructs)] /\ g \in ConstructFrame /\ g.base \in Nat /\ m \in Nat /\ o \in Nat /\ g.cases \in Nat
        /\ g.falls \in BOOLEAN /\ g.reach \in BOOLEAN /\ FrameInOrder(blocks, g) /\ g.cases > 0 /\ m < o
    BY <1>1, LoweringFacts DEF FrameInOrder
  <1>3. /\ f \in ConstructFrame /\ f.kind = "switch" /\ f.base = g.base /\ f.merge = m /\ f.other = o + 1
        /\ f.cases = g.cases - 1 /\ f.falls = (g.falls \/ Open) /\ f.reach = (g.reach \/ reachable) /\ f.loop_state = g.loop_state
    <2>1. Open \in BOOLEAN /\ reachable \in BOOLEAN
      BY StateFacts DEF Open, IsOpen
    <2>2. NextCaseOf(g, Open, reachable, f)
      BY <1>1, <1>2, <2>1, NextCaseIs
    <2> QED BY <2>2 DEF NextCaseOf
  <1> HIDE DEF f
  <1>4. Waits(g, m) /\ \A b \in Nat : Waits(g, b) <=> b = m \/ (o < b /\ b < o + g.cases)
    BY <1>1 DEF Waits
  <1>5. \A b \in Nat : Waits(f, b) <=> Waits(g, b)
    <2>1. \A b \in Nat : Waits(f, b) <=> b = m \/ (o < b /\ b < o + g.cases)
      BY <1>2, <1>3, NextCaseWaits
    <2> QED BY <1>4, <2>1
  <1>6. \A b \in Nat : Waits(g, b) => b # cur
    BY <1>1, TopWaits
  <1>8. /\ Reshaped(blocks, blocks', cur, C, X) /\ CloseOf(blocks, cur, m, blocks') /\ AimsAt(blocks, X, blocks')
        /\ blocks' \in Seq(Block) /\ blocks'[cur].term.kind # "none" /\ X \in SUBSET Nat
        /\ \A c \in X : c > Len(blocks) \/ (c \in 1..Len(blocks) /\ blocks[c].term.kind # "none") \/ Waits(constructs[Len(constructs)], c)
    <2>1. cur \in C
      OBVIOUS
    <2> HIDE DEF C, m, o
    <2>2. Closes(blocks, cur, constructs, C, X, m, blocks')
      BY <1>1, <1>2, <1>4, <2>1, CloseReshapes
    <2> QED BY <2>2 DEF Closes
  <1>9. FrameInOrder(blocks', f)
    <2>1. Aimed(blocks', m) => f.falls
      <3>1. Aimed(blocks', m) => Aimed(blocks, m) \/ m \in X
        BY <1>8 DEF AimsAt
      <3>2. Aimed(blocks, m) => g.falls
        BY <1>1, <1>2 DEF FrameInOrder, Joins
      <3> QED BY <1>3, <3>1, <3>2
    <2>2. (Open => reachable) /\ (g.falls => g.reach)
      BY <1>1, <1>2, LoweringFacts DEF FrameInOrder
    <2>3. g.loop_state.hasBreak => g.loop_state.sawBreak
      BY <1>2 DEF FrameInOrder
    <2>4. m < o + 1
      BY <1>2
    <2> QED BY <1>3, <2>1, <2>2, <2>3, <2>4 DEF FrameInOrder, Joins
  <1>10. InOrder(blocks', cur', Append(SubSeq(constructs, 1, Len(constructs) - 1), f), loop_state)
    <2>1. InOrder(blocks, cur, constructs, loop_state)
      BY <1>1, StartsInOrder
    <2>2. /\ C \in SUBSET Nat /\ Touches(blocks, cur, constructs, C) /\ cur' \in C \cup {cur} /\ cur' \in 1..Len(blocks)
          /\ \A b \in C \cup {cur} : b = cur'
      BY <1>1, StateFacts DEF Touches
    <2>3. \A b \in Nat : Waits(f, b) <=> Waits(constructs[Len(constructs)], b) /\ b \notin C
      BY <1>2, <1>5, <1>6
    <2>4. /\ SameLoop(g, f) /\ g.kind # "loop" /\ f.kind # "function" /\ g.kind # "function" /\ g.base <= f.base
          /\ blocks'[cur'].term.kind # "none"
      BY <1>1, <1>2, <1>3, <1>8 DEF SameLoop
    <2> HIDE DEF C, X, m, o, g
    <2> QED BY <1>2, <1>3, <1>8, <1>9, <2>1, <2>2, <2>3, <2>4, StateFacts, TopStep
  <1>11. cur' \in 1..Len(blocks') /\ f.base <= Len(deferred')
    BY <1>1, <1>3, <1>8, StateFacts, BaseFacts DEF CloseOf
  <1> QED BY <1>1, <1>3, <1>8, <1>10, <1>11, StateFacts, MoveStep

LEMMA BareCaseDeferInv == ASSUME BuildInv, NEW k \in DeferKinds, BareCaseDefer(k) PROVE BuildInv'
  <1> DEFINE g == Innermost  m == g.merge  o == g.other  C == {o}  X == {m}  d == [site |-> sites, kind |-> k]
             ran == Emit(blocks, o, "reg", d)  t == Br({m})  f == NextCase(g, TRUE, TRUE)
  <1>1. /\ Idle /\ Lowering /\ unwind.why = "idle" /\ g.kind = "switch" /\ g.cases > 0
        /\ deferred' = Append(deferred, d) /\ blocks' = SetTerm(ran, o, t) /\ cur' = o /\ sites' = sites + 1
        /\ constructs' = Append(SubSeq(constructs, 1, Len(constructs) - 1), f)
        /\ UNCHANGED <<phase, loop_state, unwind, bound, reachable, pc, live>>
    BY DEF BareCaseDefer, AtConstruct, Idle, Reframe, Outward, running
  <1>2. /\ g = constructs[Len(constructs)] /\ g \in ConstructFrame /\ g.base \in Nat /\ m \in Nat /\ o \in Nat /\ g.cases \in Nat
        /\ g.falls \in BOOLEAN /\ g.reach \in BOOLEAN /\ FrameInOrder(blocks, g) /\ m < o
    BY <1>1, LoweringFacts DEF FrameInOrder
  <1>3. /\ f \in ConstructFrame /\ f.kind = "switch" /\ f.base = g.base /\ f.merge = m /\ f.other = o + 1
        /\ f.cases = g.cases - 1 /\ f.falls /\ f.reach /\ f.loop_state = g.loop_state
    <2>1. NextCaseOf(g, TRUE, TRUE, f)
      BY <1>1, <1>2, NextCaseIs
    <2> QED BY <2>1 DEF NextCaseOf
  <1>30. d \in Defer
    BY StateFacts, Constants DEF Defer
  <1> HIDE DEF f, d
  <1>4. \A b \in Nat : Waits(g, b) <=> b = m \/ (o <= b /\ b < o + g.cases)
    BY <1>1 DEF Waits
  <1>40. Waits(g, m) /\ Waits(g, o)
    <2>1. o <= o /\ o < o + g.cases
      BY <1>1, <1>2
    <2> QED BY <1>2, <1>4, <2>1
  <1>5. \A b \in Nat : Waits(f, b) <=> Waits(g, b) /\ b # o
    <2> DEFINE j == g.cases
    <2>1. \A b \in Nat : Waits(f, b) <=> b = m \/ (o < b /\ b < o + j)
      BY <1>1, <1>2, <1>3, NextCaseWaits
    <2>2. j \in Nat /\ m \in Nat /\ o \in Nat /\ m < o /\ \A b \in Nat : Waits(g, b) <=> b = m \/ (o <= b /\ b < o + j)
      BY <1>2, <1>4
    <2> HIDE DEF m, o, j, g
    <2>3. \A b \in Nat : (b = m \/ (o < b /\ b < o + j)) <=> (b = m \/ (o <= b /\ b < o + j)) /\ b # o
      BY <2>2
    <2> QED BY <2>1, <2>2, <2>3
  <1>6. /\ m \in 1..Len(blocks) /\ m # cur /\ o \in 1..Len(blocks) /\ o # cur /\ blocks[m].term.kind = "none" /\ m # o
        /\ blocks[o].term.to = {} /\ m \in BlockId
    BY SMTT(60), <1>1, <1>2, <1>40, TopWaits
  <1>7. /\ ran \in Seq(Block) /\ Len(ran) = Len(blocks) /\ ran[o].term = blocks[o].term
        /\ \A c \in 1..Len(blocks) : c # o => ran[c] = blocks[c]
    BY ZenonT(90), <1>6, <1>30, StateFacts, EmitIs
  <1>70. t \in Term /\ t.kind = "br" /\ t.to = {m}
    <2>1. {m} \in SUBSET BlockId
      BY <1>6
    <2> QED BY <2>1, TermTypes
  <1> HIDE DEF ran, t
  <1>71. Ended(ran, o, t, blocks') /\ AimsAt(ran, X, blocks')
    <2>1. o \in 1..Len(ran) /\ ran[o].term.to = {} /\ blocks' = SetTerm(ran, o, t)
      BY <1>1, <1>6, <1>7
    <2> HIDE DEF o, X
    <2>2. t.to = X
      BY <1>70 DEF X
    <2> QED BY <1>7, <1>70, <2>1, <2>2, EndedIs
  <1>72. AimsAt(blocks, X, blocks')
    <2>1. \A b \in 1..Len(blocks) : ran[b].term = blocks[b].term
      BY <1>7
    <2>2. \A c : Aimed(ran, c) <=> Aimed(blocks, c)
      BY <1>7, <2>1, StateFacts, SameTerms
    <2> QED BY <1>71, <2>2 DEF AimsAt
  <1>73. /\ blocks' \in Seq(Block) /\ Len(blocks') = Len(blocks) /\ blocks'[o].term = t
         /\ \A c \in 1..Len(blocks) : c # o => blocks'[c] = blocks[c]
    BY <1>7, <1>71 DEF Ended
  <1>8. Reshaped(blocks, blocks', cur, C, X)
    <2>1. \A b \in C : b \in 1..Len(blocks) =>
            /\ blocks[b].term.kind = "br" => blocks'[b].term.kind = "br"
            /\ GoodTerm(b, blocks'[b].term) /\ (blocks'[b].term.kind = "unreachable" => ~ Aimed(blocks, b))
      BY <1>70, <1>73 DEF GoodTerm
    <2>2. \A b \in 1..Len(blocks) : b \notin C => blocks'[b].term = blocks[b].term /\ (b = cur \/ blocks'[b].ops = blocks[b].ops)
      BY <1>73
    <2>3. \A c \in X : c \in 1..Len(blocks) /\ blocks'[c].term.kind # "unreachable"
      BY <1>6, <1>73
    <2> HIDE DEF C, X
    <2> QED BY <1>72, <1>73, <2>1, <2>2, <2>3 DEF Reshaped
  <1>81. blocks[cur].term.kind # "none"
    BY <1>1, LoweringFacts DEF FramesInOrder
  <1>9. FrameInOrder(blocks', f)
    <2>3. g.loop_state.hasBreak => g.loop_state.sawBreak
      BY <1>2 DEF FrameInOrder
    <2>4. m < o + 1
      BY <1>2
    <2> QED BY <1>3, <2>3, <2>4 DEF FrameInOrder, Joins
  <1>10. InOrder(blocks', cur', Append(SubSeq(constructs, 1, Len(constructs) - 1), f), loop_state)
    <2>1. InOrder(blocks, cur, constructs, loop_state)
      BY <1>1, StartsInOrder
    <2>2. /\ C \in SUBSET Nat /\ Touches(blocks, cur, constructs, C) /\ cur' \in C \cup {cur} /\ cur' \in 1..Len(blocks)
          /\ \A b \in C \cup {cur} : b # cur' => blocks'[b].term.kind # "none"
      BY <1>1, <1>2, <1>40, <1>6, <1>73, <1>81, StateFacts DEF Touches
    <2>3. \A b \in Nat : Waits(f, b) <=> Waits(constructs[Len(constructs)], b) /\ b \notin C
      BY <1>2, <1>5
    <2>4. /\ SameLoop(g, f) /\ g.kind # "loop" /\ f.kind # "function" /\ g.kind # "function" /\ g.base <= f.base
          /\ blocks'[cur'].term.kind # "none"
      BY SMTT(60), <1>1, <1>2, <1>3, <1>70, <1>73 DEF SameLoop
    <2>5. X \in SUBSET Nat /\ \A c \in X : Waits(constructs[Len(constructs)], c)
      BY <1>2, <1>40
    <2> HIDE DEF C, X, m, o, g
    <2> QED BY <1>2, <1>3, <1>8, <1>9, <1>73, <2>1, <2>2, <2>3, <2>4, <2>5, StateFacts, TopStep
  <1>11. /\ cur' \in 1..Len(blocks') /\ f.base <= Len(deferred') /\ deferred' \in Seq(Defer) /\ sites' \in Nat
         /\ blocks'[cur'].term.kind # "none"
    <2>1. Len(deferred') = Len(deferred) + 1 /\ deferred' \in Seq(Defer)
      BY <1>1, <1>30, StateFacts
    <2>2. g.base <= Len(deferred)
      BY <1>1, BaseFacts
    <2>3. g.base <= Len(deferred')
      BY <1>2, <2>1, <2>2, StateFacts
    <2> QED BY SMTT(60), <1>1, <1>3, <1>6, <1>70, <1>73, <2>1, <2>3, StateFacts
  <1> QED BY <1>1, <1>3, <1>10, <1>11, <1>73, StateFacts, MoveStep

(* The block m the construct continues at is closed when no path gets there. *)
LEMMA JoinReshapes ==
  ASSUME NEW bs \in Seq(Block), NEW bs1 \in Seq(Block), NEW cu, NEW m \in 1..Len(bs), NEW C, NEW X, NEW falls \in BOOLEAN,
         Reshaped(bs, bs1, cu, C, X), m \in C, bs1[m] = bs[m], bs[m].term.kind = "none", bs[m].term.to = {},
         NEW bs2, bs2 = JoinAt(bs1, m, falls), ~ falls => ~ Aimed(bs, m) /\ m \notin X
  PROVE  Reshaped(bs, bs2, cu, C, X) /\ JoinOf(bs1, m, falls, bs2)
  <1>1. Len(bs1) = Len(bs) /\ m \in 1..Len(bs1) /\ bs1[m].term.to = {}
    BY DEF Reshaped
  <1>2. JoinOf(bs1, m, falls, bs2)
    BY <1>1, JoinIs
  <1>3. /\ Len(bs2) = Len(bs1) /\ (\A c \in 1..Len(bs1) : c # m => bs2[c] = bs1[c]) /\ bs2[m].ops = bs1[m].ops
        /\ bs2[m].term = IF falls THEN bs1[m].term ELSE UnreachableTerm
        /\ AimsAt(bs1, {}, bs2)
    BY <1>2 DEF JoinOf
  <1>4. UnreachableTerm.kind = "unreachable" /\ UnreachableTerm.to = {}
    BY TermTypes
  <1>5. AimsAt(bs, X, bs2)
    BY <1>3 DEF AimsAt, Reshaped
  <1>6. \A b \in 1..Len(bs) : b \notin C => bs2[b].term = bs[b].term /\ (b = cu \/ bs2[b].ops = bs[b].ops)
    BY <1>1, <1>3 DEF Reshaped
  <1>7. \A b \in C : b \in 1..Len(bs) =>
          /\ bs[b].term.kind = "br" => bs2[b].term.kind = "br"
          /\ GoodTerm(b, bs2[b].term) /\ (bs2[b].term.kind = "unreachable" => ~ Aimed(bs, b))
    <2> SUFFICES ASSUME NEW b \in C, b \in 1..Len(bs)
                 PROVE  /\ bs[b].term.kind = "br" => bs2[b].term.kind = "br"
                        /\ GoodTerm(b, bs2[b].term) /\ (bs2[b].term.kind = "unreachable" => ~ Aimed(bs, b))
      OBVIOUS
    <2>1. CASE b # m
      BY <1>1, <1>3, <2>1 DEF Reshaped
    <2>2. CASE b = m /\ ~ falls
      BY <1>3, <1>4, <2>2 DEF GoodTerm
    <2>3. CASE b = m /\ falls
      BY <1>3, <2>3 DEF GoodTerm
    <2> QED BY <2>1, <2>2, <2>3
  <1>8. \A c \in X : c \in 1..Len(bs) /\ bs2[c].term.kind # "unreachable"
    <2> SUFFICES ASSUME NEW c \in X PROVE c \in 1..Len(bs) /\ bs2[c].term.kind # "unreachable"
      OBVIOUS
    <2>1. c \in 1..Len(bs) /\ bs1[c].term.kind # "unreachable"
      BY DEF Reshaped
    <2>2. CASE c # m
      BY <1>1, <1>3, <2>1, <2>2
    <2>3. CASE c = m
      BY <1>3, <2>1, <2>3
    <2> QED BY <2>1, <2>2, <2>3
  <1>9. Reshaped(bs, bs2, cu, C, X)
    BY <1>1, <1>3, <1>5, <1>6, <1>7, <1>8 DEF Reshaped
  <1> QED BY <1>2, <1>9

LEMMA LowerIfEndInv == ASSUME BuildInv, LowerIfEnd PROVE BuildInv'
  <1> DEFINE g == Innermost  m == g.merge  C == {cur, m}  X == IF Open THEN {m} ELSE {}
             noElse == g.kind = "then"  falls == Open \/ g.falls \/ noElse  bs1 == SetTermIfOpen(blocks, cur, Br({m}))
  <1>1. /\ Idle /\ Lowering /\ unwind.why = "idle" /\ (g.kind = "else" \/ (g.kind = "then" /\ g.other = m))
        /\ blocks' = JoinAt(bs1, m, falls) /\ cur' = m /\ constructs' = SubSeq(constructs, 1, Len(constructs) - 1)
        /\ reachable' = (reachable \/ g.reach \/ noElse)
        /\ UNCHANGED <<phase, deferred, loop_state, unwind, bound, sites, pc, live>>
    BY DEF LowerIfEnd, BlockDone, AtConstruct, Idle, PopConstruct, Outward, running
  <1>2. /\ g = constructs[Len(constructs)] /\ g \in ConstructFrame /\ m \in Nat /\ FrameInOrder(blocks, g) /\ g.falls \in BOOLEAN
        /\ g.reach \in BOOLEAN /\ (g.falls => g.reach) /\ (Open => reachable) /\ Open \in BOOLEAN /\ reachable \in BOOLEAN
    BY <1>1, LoweringFacts, StateFacts DEF FrameInOrder, Open, IsOpen
  <1>3. falls \in BOOLEAN /\ reachable' \in BOOLEAN /\ (falls => reachable')
    BY <1>1, <1>2
  <1>4. Waits(g, m) /\ \A b \in Nat : Waits(g, b) <=> b = m
    BY <1>1 DEF Waits
  <1>5. m \in 1..Len(blocks) /\ m # cur /\ blocks[m].term.kind = "none" /\ blocks[m].term.to = {}
    BY <1>2, <1>4, <1>1, TopWaits
  <1>6. /\ Reshaped(blocks, bs1, cur, C, X) /\ CloseOf(blocks, cur, m, bs1) /\ AimsAt(blocks, X, bs1)
        /\ bs1 \in Seq(Block) /\ bs1[cur].term.kind # "none" /\ X \in SUBSET Nat
        /\ \A c \in 1..Len(blocks) : c # cur => bs1[c] = blocks[c]
        /\ \A c \in X : c > Len(blocks) \/ (c \in 1..Len(blocks) /\ blocks[c].term.kind # "none") \/ Waits(constructs[Len(constructs)], c)
    <2>1. cur \in C
      OBVIOUS
    <2> HIDE DEF C, m
    <2>2. Closes(blocks, cur, constructs, C, X, m, bs1)
      BY <1>1, <1>2, <1>4, <2>1, CloseReshapes
    <2> QED BY <2>2 DEF Closes
  <1> HIDE DEF bs1
  <1>7. ~ falls => ~ Aimed(blocks, m) /\ m \notin X
    BY <1>1, <1>2 DEF FrameInOrder, Joins
  <1>8. Reshaped(blocks, blocks', cur, C, X) /\ JoinOf(bs1, m, falls, blocks')
    <2>1. m \in C /\ bs1[m] = blocks[m] /\ blocks' = JoinAt(bs1, m, falls)
      BY <1>1, <1>5, <1>6
    <2>2. blocks \in Seq(Block) /\ bs1 \in Seq(Block) /\ m \in 1..Len(blocks) /\ falls \in BOOLEAN
      BY <1>3, <1>5, <1>6, StateFacts
    <2>3. Reshaped(blocks, bs1, cur, C, X) /\ blocks[m].term.kind = "none" /\ blocks[m].term.to = {}
      BY <1>5, <1>6
    <2>4. ~ falls => ~ Aimed(blocks, m) /\ m \notin X
      BY <1>7
    <2> HIDE DEF C, X, m, falls, g, noElse
    <2>5. CASE falls
      <3>1. blocks' = JoinAt(bs1, m, TRUE) /\ falls = TRUE
        BY <2>1, <2>2, <2>5
      <3>2. Reshaped(blocks, blocks', cur, C, X) /\ JoinOf(bs1, m, TRUE, blocks')
        BY <2>1, <2>2, <2>3, <3>1, JoinReshapes
      <3> QED BY <3>1, <3>2
    <2>6. CASE ~ falls
      <3>1. blocks' = JoinAt(bs1, m, FALSE) /\ falls = FALSE
        BY <2>1, <2>2, <2>6
      <3>2. Reshaped(blocks, blocks', cur, C, X) /\ JoinOf(bs1, m, FALSE, blocks')
        BY <2>1, <2>2, <2>3, <2>4, <2>6, <3>1, JoinReshapes
      <3> QED BY <3>1, <3>2
    <2> QED BY <2>5, <2>6
  <1>9. /\ blocks' \in Seq(Block) /\ Len(blocks') = Len(blocks) /\ blocks'[cur].term.kind # "none"
        /\ blocks'[m].term = IF falls THEN blocks[m].term ELSE UnreachableTerm
    <2>1. Len(bs1) = Len(blocks) /\ cur \in 1..Len(bs1)
      BY <1>6, StateFacts DEF Reshaped
    <2>2. /\ blocks' \in Seq(Block) /\ Len(blocks') = Len(bs1) /\ blocks'[cur] = bs1[cur]
          /\ blocks'[m].term = IF falls THEN bs1[m].term ELSE UnreachableTerm
      BY <1>5, <1>8, <2>1 DEF JoinOf
    <2> QED BY <1>5, <1>6, <2>1, <2>2
  <1>10. InOrder(blocks', cur', SubSeq(constructs, 1, Len(constructs) - 1), loop_state')
    <2>1. InOrder(blocks, cur, constructs, loop_state)
      BY <1>1, StartsInOrder
    <2>2. /\ C \in SUBSET Nat /\ Touches(blocks, cur, constructs, C) /\ cur' \in C \cup {cur} /\ cur' \in 1..Len(blocks)
          /\ \A b \in C \cup {cur} : b # cur' => blocks'[b].term.kind # "none"
      <3>1. cur \in Nat /\ m \in Nat /\ cur' = m /\ m \in 1..Len(blocks)
        BY <1>1, <1>2, <1>5, StateFacts
      <3>2. constructs[Len(constructs)] = g /\ Waits(g, m) /\ blocks'[cur].term.kind # "none"
        BY <1>2, <1>4, <1>9
      <3> HIDE DEF m, g
      <3>3. Touches(blocks, cur, constructs, C)
        BY <3>2 DEF Touches
      <3> QED BY <3>1, <3>2, <3>3
    <2>3. \A b \in Nat : Waits(constructs[Len(constructs)], b) => b \in C
      BY <1>2, <1>4
    <2>4. constructs[Len(constructs)].kind # "function" /\ constructs[Len(constructs)].kind # "loop" /\ loop_state' = loop_state
      BY <1>1, <1>2
    <2>5. loop_state' = IF constructs[Len(constructs)].kind = "loop" THEN constructs[Len(constructs)].loop_state ELSE loop_state
      BY <2>4
    <2>6. /\ \A c \in X : c > Len(blocks) \/ (c \in 1..Len(blocks) /\ blocks[c].term.kind # "none") \/ Waits(constructs[Len(constructs)], c)
          /\ X \in SUBSET Nat
      BY <1>6
    <2>7. Reshaped(blocks, blocks', cur, C, X) /\ blocks' \in Seq(Block)
      BY <1>8, <1>9
    <2> HIDE DEF C, X, m, g, falls, noElse
    <2>8. constructs[Len(constructs)].kind # "function"
      BY <2>4
    <2>9. blocks \in Seq(Block) /\ constructs \in Seq(ConstructFrame) /\ cur \in 1..Len(blocks)
      BY StateFacts
    <2> QED BY SMTT(60), <2>1, <2>2, <2>3, <2>5, <2>6, <2>7, <2>8, <2>9, PopStep
  <1>11. cur' \in 1..Len(blocks') /\ g.kind # "function"
    BY <1>1, <1>5, <1>9
  <1>12. blocks'[cur'].term.kind = "none" => reachable'
    BY <1>1, <1>3, <1>9, TermTypes
  <1> QED BY <1>1, <1>3, <1>9, <1>10, <1>11, <1>12, StateFacts, EndStep

LEMMA LowerSwitchEndInv == ASSUME BuildInv, LowerSwitchEnd PROVE BuildInv'
  <1> DEFINE g == Innermost  m == g.merge  C == {m}  X == {}  falls == g.falls
  <1>1. /\ Idle /\ Lowering /\ unwind.why = "idle" /\ g.kind = "switch" /\ g.cases = 0
        /\ blocks' = JoinAt(blocks, m, falls) /\ cur' = m /\ constructs' = SubSeq(constructs, 1, Len(constructs) - 1)
        /\ reachable' = g.reach
        /\ UNCHANGED <<phase, deferred, loop_state, unwind, bound, sites, pc, live>>
    BY DEF LowerSwitchEnd, AtConstruct, Idle, PopConstruct, Outward, running
  <1>2. /\ g = constructs[Len(constructs)] /\ g \in ConstructFrame /\ m \in Nat /\ FrameInOrder(blocks, g) /\ falls \in BOOLEAN
        /\ g.reach \in BOOLEAN /\ (falls => g.reach) /\ g.other \in Nat
    BY <1>1, LoweringFacts, StateFacts DEF FrameInOrder
  <1>3. falls \in BOOLEAN /\ reachable' \in BOOLEAN /\ (falls => reachable')
    BY <1>1, <1>2
  <1>4. Waits(g, m) /\ \A b \in Nat : Waits(g, b) <=> b = m
    <2>1. \A b \in Nat : ~(g.other <= b /\ b < g.other + g.cases)
      BY <1>1, <1>2
    <2> QED BY <1>1, <2>1 DEF Waits
  <1>5. m \in 1..Len(blocks) /\ m # cur /\ blocks[m].term.kind = "none" /\ blocks[m].term.to = {}
    BY <1>2, <1>4, <1>1, TopWaits
  <1>6. Reshaped(blocks, blocks, cur, C, X)
    <2>1. \A b \in C : b \in 1..Len(blocks) => GoodTerm(b, blocks[b].term) /\ (blocks[b].term.kind = "unreachable" => ~ Aimed(blocks, b))
      BY StateFacts, GoodSame
    <2> QED BY <2>1 DEF Reshaped, AimsAt
  <1>7. ~ falls => ~ Aimed(blocks, m) /\ m \notin X
    BY <1>1, <1>2 DEF FrameInOrder, Joins
  <1>8. Reshaped(blocks, blocks', cur, C, X) /\ JoinOf(blocks, m, falls, blocks')
    <2>1. m \in C /\ blocks' = JoinAt(blocks, m, falls)
      BY <1>1
    <2>2. blocks \in Seq(Block) /\ m \in 1..Len(blocks) /\ falls \in BOOLEAN
      BY <1>3, <1>5, StateFacts
    <2>3. Reshaped(blocks, blocks, cur, C, X) /\ blocks[m].term.kind = "none" /\ blocks[m].term.to = {}
      BY <1>5, <1>6
    <2>4. ~ falls => ~ Aimed(blocks, m) /\ m \notin X
      BY <1>7
    <2> HIDE DEF C, X, m, falls, g
    <2>5. CASE falls
      <3>1. blocks' = JoinAt(blocks, m, TRUE) /\ falls = TRUE
        BY <2>1, <2>2, <2>5
      <3>2. Reshaped(blocks, blocks', cur, C, X) /\ JoinOf(blocks, m, TRUE, blocks')
        BY <2>1, <2>2, <2>3, <3>1, JoinReshapes
      <3> QED BY <3>1, <3>2
    <2>6. CASE ~ falls
      <3>1. blocks' = JoinAt(blocks, m, FALSE) /\ falls = FALSE
        BY <2>1, <2>2, <2>6
      <3>2. Reshaped(blocks, blocks', cur, C, X) /\ JoinOf(blocks, m, FALSE, blocks')
        BY <2>1, <2>2, <2>3, <2>4, <2>6, <3>1, JoinReshapes
      <3> QED BY <3>1, <3>2
    <2> QED BY <2>5, <2>6
  <1>81. blocks[cur].term.kind # "none"
    BY <1>1, LoweringFacts DEF FramesInOrder
  <1>9. /\ blocks' \in Seq(Block) /\ Len(blocks') = Len(blocks) /\ blocks'[cur].term.kind # "none"
        /\ blocks'[m].term = IF falls THEN blocks[m].term ELSE UnreachableTerm
    BY <1>5, <1>8, <1>81, StateFacts DEF JoinOf
  <1>10. InOrder(blocks', cur', SubSeq(constructs, 1, Len(constructs) - 1), loop_state')
    <2>1. InOrder(blocks, cur, constructs, loop_state)
      BY <1>1, StartsInOrder
    <2>2. /\ C \in SUBSET Nat /\ Touches(blocks, cur, constructs, C) /\ cur' \in C \cup {cur} /\ cur' \in 1..Len(blocks)
          /\ \A b \in C \cup {cur} : b # cur' => blocks'[b].term.kind # "none"
      BY <1>1, <1>2, <1>4, <1>5, <1>9, StateFacts DEF Touches
    <2>3. \A b \in Nat : Waits(constructs[Len(constructs)], b) => b \in C
      BY <1>2, <1>4
    <2>4. constructs[Len(constructs)].kind # "function" /\ constructs[Len(constructs)].kind # "loop" /\ loop_state' = loop_state
      BY <1>1, <1>2
    <2>5. X \in SUBSET Nat /\ \A c \in X : FALSE
      OBVIOUS
    <2>51. loop_state' = IF constructs[Len(constructs)].kind = "loop" THEN constructs[Len(constructs)].loop_state ELSE loop_state
      BY <2>4
    <2>6. /\ \A c \in X : c > Len(blocks) \/ (c \in 1..Len(blocks) /\ blocks[c].term.kind # "none") \/ Waits(constructs[Len(constructs)], c)
          /\ X \in SUBSET Nat
      BY <2>5
    <2>7. Reshaped(blocks, blocks', cur, C, X) /\ blocks' \in Seq(Block)
      BY <1>8, <1>9
    <2> HIDE DEF C, X, m, g, falls
    <2>8. constructs[Len(constructs)].kind # "function"
      BY <2>4
    <2>9. blocks \in Seq(Block) /\ constructs \in Seq(ConstructFrame) /\ cur \in 1..Len(blocks)
      BY StateFacts
    <2> QED BY <2>1, <2>2, <2>3, <2>51, <2>6, <2>7, <2>8, <2>9, PopStep
  <1>11. cur' \in 1..Len(blocks') /\ g.kind # "function"
    BY <1>1, <1>5, <1>9
  <1>12. blocks'[cur'].term.kind = "none" => reachable'
    BY <1>1, <1>3, <1>9, TermTypes
  <1> QED BY <1>1, <1>3, <1>9, <1>10, <1>11, <1>12, StateFacts, EndStep

(* ... and a waiting block jumps back to the condition of its loop.        *)
LEMMA BackReshapes ==
  ASSUME NEW bs \in Seq(Block), NEW bs1 \in Seq(Block), NEW cu, NEW o \in 1..Len(bs), NEW d \in 1..Len(bs), NEW C, NEW X,
         Reshaped(bs, bs1, cu, C, X), o \in C, o # d, bs1[o] = bs[o], bs[o].term.kind = "none", bs[o].term.to = {},
         bs[d].term.kind = "br", NEW bs2, bs2 = SetTerm(bs1, o, Br({d}))
  PROVE  Reshaped(bs, bs2, cu, C, X \cup {d}) /\ Ended(bs1, o, Br({d}), bs2)
  <1>1. Len(bs1) = Len(bs) /\ o \in 1..Len(bs1) /\ bs1[o].term.to = {} /\ bs1[d].term.kind = "br" /\ AimsAt(bs, X, bs1)
    BY DEF Reshaped
  <1>2. Br({d}) \in Term /\ Br({d}).kind = "br" /\ Br({d}).to = {d}
    <2>1. {d} \in SUBSET BlockId
      BY BlockTypes DEF BlockId
    <2> QED BY <2>1, TermTypes
  <1> DEFINE t == Br({d})
  <1> HIDE DEF t
  <1>3. Ended(bs1, o, t, bs2) /\ AimsAt(bs1, {d}, bs2)
    <2>1. t \in Term /\ t.to = {d} /\ bs2 = SetTerm(bs1, o, t)
      BY <1>2 DEF t
    <2> QED BY <1>1, <2>1, EndedIs
  <1>4. /\ Len(bs2) = Len(bs1) /\ (\A c \in 1..Len(bs1) : c # o => bs2[c] = bs1[c]) /\ bs2[o].ops = bs1[o].ops
        /\ bs2[o].term = t /\ t.kind = "br" /\ t.to = {d}
    BY <1>2, <1>3 DEF Ended, t
  <1>5. AimsAt(bs, X \cup {d}, bs2)
    BY <1>1, <1>3 DEF AimsAt
  <1>6. \A b \in 1..Len(bs) : b \notin C => bs2[b].term = bs[b].term /\ (b = cu \/ bs2[b].ops = bs[b].ops)
    BY <1>1, <1>4 DEF Reshaped
  <1>7. \A b \in C : b \in 1..Len(bs) =>
          /\ bs[b].term.kind = "br" => bs2[b].term.kind = "br"
          /\ GoodTerm(b, bs2[b].term) /\ (bs2[b].term.kind = "unreachable" => ~ Aimed(bs, b))
    <2> SUFFICES ASSUME NEW b \in C, b \in 1..Len(bs)
                 PROVE  /\ bs[b].term.kind = "br" => bs2[b].term.kind = "br"
                        /\ GoodTerm(b, bs2[b].term) /\ (bs2[b].term.kind = "unreachable" => ~ Aimed(bs, b))
      OBVIOUS
    <2>1. CASE b # o
      BY <1>1, <1>4, <2>1 DEF Reshaped
    <2>2. CASE b = o
      BY <1>4, <2>2 DEF GoodTerm
    <2> QED BY <2>1, <2>2
  <1>8. \A c \in X \cup {d} : c \in 1..Len(bs) /\ bs2[c].term.kind # "unreachable"
    <2> SUFFICES ASSUME NEW c \in X \cup {d} PROVE c \in 1..Len(bs) /\ bs2[c].term.kind # "unreachable"
      OBVIOUS
    <2>1. c \in 1..Len(bs) /\ bs1[c].term.kind # "unreachable"
      BY <1>1 DEF Reshaped
    <2>2. CASE c # o
      BY <1>1, <1>4, <2>1, <2>2
    <2>3. CASE c = o
      BY <1>4, <2>1, <2>3
    <2> QED BY <2>1, <2>2, <2>3
  <1>9. Reshaped(bs, bs2, cu, C, X \cup {d})
    BY <1>1, <1>4, <1>5, <1>6, <1>7, <1>8 DEF Reshaped
  <1> QED BY <1>3, <1>9 DEF t

(* The body of a loop is done, and so is its post block.                   *)
LoopBack ==
  LET toPost == SetTermIfOpen(blocks, cur, Br({Innermost.other}))
  IN IF Innermost.other = Innermost.cond THEN toPost ELSE SetTerm(toPost, Innermost.other, Br({Innermost.cond}))

LoopedOf(bs, cu, fs, C, X, m, bs2) ==
  /\ Reshaped(bs, bs2, cu, C, X) /\ bs2 \in Seq(Block) /\ bs2[m] = bs[m] /\ m \notin X /\ X \in SUBSET Nat
  /\ \A b \in C : b # m => bs2[b].term.kind # "none"
  /\ \A c \in X : c > Len(bs) \/ (c \in 1..Len(bs) /\ bs[c].term.kind # "none") \/ Waits(fs[Len(fs)], c)

LEMMA LoopFacts ==
  ASSUME BuildInv, Lowering, Innermost.kind = "loop"
  PROVE  /\ Innermost.merge \in 1..Len(blocks) /\ Innermost.merge # cur /\ Innermost.merge # Innermost.other
         /\ blocks[Innermost.merge].term.kind = "none" /\ blocks[Innermost.merge].term.to = {}
         /\ Waits(Innermost, Innermost.merge)
         /\ Innermost.cond \in 1..Len(blocks) /\ blocks[Innermost.cond].term.kind = "br"
         /\ Innermost.other \in 1..Len(blocks) /\ (Waits(Innermost, Innermost.other) \/ blocks[Innermost.other].term.kind = "br")
         /\ Innermost.other # Innermost.cond =>
              /\ Waits(Innermost, Innermost.other) /\ Innermost.other # cur
              /\ blocks[Innermost.other].term.kind = "none" /\ blocks[Innermost.other].term.to = {}
  <1>1. Waits(Innermost, Innermost.merge) /\ (Innermost.other # Innermost.cond => Waits(Innermost, Innermost.other))
    BY DEF Waits
  <1>2. Innermost.cond \in 1..Len(blocks) /\ blocks[Innermost.cond].term.kind = "br" /\ Innermost.merge # Innermost.other
    BY LoweringFacts DEF FrameInOrder
  <1>3. Innermost.merge \in Nat /\ Innermost.other \in Nat
    BY LoweringFacts
  <1>4. /\ Innermost.merge \in 1..Len(blocks) /\ Innermost.merge # cur
        /\ blocks[Innermost.merge].term.kind = "none" /\ blocks[Innermost.merge].term.to = {}
    BY <1>1, <1>3, TopWaits
  <1>5. CASE Innermost.other = Innermost.cond
    BY <1>1, <1>2, <1>4, <1>5
  <1>6. CASE Innermost.other # Innermost.cond
    <2>1. Innermost.other \in 1..Len(blocks) /\ Innermost.other # cur
          /\ blocks[Innermost.other].term.kind = "none" /\ blocks[Innermost.other].term.to = {}
      BY <1>1, <1>3, <1>6, TopWaits
    <2> QED BY <1>1, <1>2, <1>4, <1>6, <2>1
  <1> QED BY <1>5, <1>6

LEMMA LoopBackIs ==
  ASSUME BuildInv, Lowering, Innermost.kind = "loop"
  PROVE  \E X : LoopedOf(blocks, cur, constructs,
                         {cur, Innermost.merge} \cup (IF Innermost.other = Innermost.cond THEN {} ELSE {Innermost.other}),
                         X, Innermost.merge, LoopBack)
  <1> DEFINE m == Innermost.merge  o == Innermost.other  d == Innermost.cond
             C == {cur, m} \cup (IF o = d THEN {} ELSE {o})
             bs1 == SetTermIfOpen(blocks, cur, Br({o}))  X == IF Open THEN {o} ELSE {}
  <1>1. /\ m \in 1..Len(blocks) /\ m # cur /\ m # o
        /\ blocks[m].term.kind = "none" /\ blocks[m].term.to = {}
        /\ d \in 1..Len(blocks) /\ blocks[d].term.kind = "br"
        /\ o \in 1..Len(blocks) /\ (Waits(Innermost, o) \/ blocks[o].term.kind = "br")
        /\ o # d => Waits(Innermost, o) /\ o # cur /\ blocks[o].term.kind = "none" /\ blocks[o].term.to = {}
    BY LoopFacts
  <1>2. LoopBack = IF o = d THEN bs1 ELSE SetTerm(bs1, o, Br({d}))
    BY DEF LoopBack
  <1>3. cur \in C /\ (o # d => o \in C) /\ (\A b \in C : b = cur \/ b = m \/ (b = o /\ o # d))
    OBVIOUS
  <1>4. Closes(blocks, cur, constructs, C, X, o, bs1)
    <2> HIDE DEF C, o
    <2> QED BY <1>1, <1>3, CloseTowards
  <1> HIDE DEF bs1
  <1>5. /\ Reshaped(blocks, bs1, cur, C, X) /\ bs1 \in Seq(Block) /\ bs1[cur].term.kind # "none" /\ X \in SUBSET Nat
        /\ \A c \in 1..Len(blocks) : c # cur => bs1[c] = blocks[c]
        /\ \A c \in X : c > Len(blocks) \/ (c \in 1..Len(blocks) /\ blocks[c].term.kind # "none") \/ Waits(constructs[Len(constructs)], c)
    BY <1>4 DEF Closes
  <1>6. m \notin X /\ bs1[m] = blocks[m]
    BY <1>1, <1>5
  <1> HIDE DEF X, C, m, o, d
  <1>7. CASE o = d
    <2>1. LoopBack = bs1
      BY <1>2, <1>7
    <2>2. \A b \in C : b # m => bs1[b].term.kind # "none"
      BY <1>3, <1>5, <1>7
    <2>3. LoopedOf(blocks, cur, constructs, C, X, m, bs1)
      BY <1>5, <1>6, <2>2 DEF LoopedOf
    <2>4. LoopedOf(blocks, cur, constructs, C, X, m, LoopBack)
      BY <2>1, <2>3
    <2> QED BY <2>4 DEF C, m, o, d
  <1>8. CASE o # d
    <2> DEFINE bs2 == SetTerm(bs1, o, Br({d}))  Y == X \cup {d}
    <2>1. LoopBack = bs2
      BY <1>2, <1>8
    <2>2. bs1[o] = blocks[o] /\ o \in C
      BY <1>1, <1>3, <1>5, <1>8
    <2>3. Reshaped(blocks, bs2, cur, C, X \cup {d}) /\ Ended(bs1, o, Br({d}), bs2)
      <3> HIDE DEF bs2
      <3>1. bs2 = SetTerm(bs1, o, Br({d}))
        BY DEF bs2
      <3> QED BY <1>1, <1>5, <1>8, <2>2, <3>1, StateFacts, BackReshapes
    <2> HIDE DEF bs2
    <2>4. bs2 \in Seq(Block) /\ bs2[o].term.kind = "br" /\ (\A c \in 1..Len(blocks) : c # o => bs2[c] = bs1[c])
      <3>1. Len(bs1) = Len(blocks)
        BY <1>5 DEF Reshaped
      <3>2. Br({d}).kind = "br"
        BY TermTypes
      <3> QED BY <2>3, <3>1, <3>2 DEF Ended
    <2>5. bs2[m] = blocks[m] /\ bs2[cur].term.kind # "none"
      BY <1>1, <1>5, <1>6, <1>8, <2>4, StateFacts
    <2>6. \A b \in C : b # m => bs2[b].term.kind # "none"
      BY <1>3, <2>4, <2>5
    <2>7. /\ m \notin Y /\ Y \in SUBSET Nat
          /\ \A c \in Y : c > Len(blocks) \/ (c \in 1..Len(blocks) /\ blocks[c].term.kind # "none") \/ Waits(constructs[Len(constructs)], c)
      <3>1. m # d /\ d \in Nat
        BY <1>1, StateFacts
      <3>2. m \notin Y
        BY <1>6, <3>1
      <3>3. Y \in SUBSET Nat
        BY <1>5, <3>1
      <3>4. ASSUME NEW c \in Y
            PROVE  c > Len(blocks) \/ (c \in 1..Len(blocks) /\ blocks[c].term.kind # "none") \/ Waits(constructs[Len(constructs)], c)
        <4>1. CASE c \in X
          BY <1>5, <4>1
        <4>2. CASE c = d
          BY <1>1, <4>2
        <4> QED BY <4>1, <4>2
      <3> QED BY <3>2, <3>3, <3>4
    <2>8. Reshaped(blocks, bs2, cur, C, Y)
      BY <2>3
    <2> HIDE DEF Y
    <2>9. LoopedOf(blocks, cur, constructs, C, Y, m, bs2)
      BY <2>4, <2>5, <2>6, <2>7, <2>8 DEF LoopedOf
    <2> QED BY <2>1, <2>9 DEF C, m, o, d
  <1> QED BY <1>7, <1>8

LEMMA LowerLoopEndInv == ASSUME BuildInv, LowerLoopEnd PROVE BuildInv'
  <1> DEFINE g == Innermost  m == g.merge  falls == LoopExits(g)  bs1 == LoopBack
             C == {cur, m} \cup (IF g.other = g.cond THEN {} ELSE {g.other})
  <1>1. /\ Idle /\ Lowering /\ unwind.why = "idle" /\ g.kind = "loop"
        /\ blocks' = JoinAt(bs1, m, falls) /\ cur' = m /\ constructs' = SubSeq(constructs, 1, Len(constructs) - 1)
        /\ reachable' = (~ g.always \/ loop_state.sawBreak) /\ loop_state' = g.loop_state
        /\ UNCHANGED <<phase, deferred, unwind, bound, sites, pc, live>>
    BY DEF LowerLoopEnd, BlockDone, AtConstruct, Idle, PopConstruct, Outward, running, LoopBack
  <1>2. /\ g = constructs[Len(constructs)] /\ g \in ConstructFrame /\ m \in Nat /\ g.other \in Nat /\ g.always \in BOOLEAN
        /\ g.loop_state \in LoopState /\ loop_state.hasBreak \in BOOLEAN /\ loop_state.sawBreak \in BOOLEAN
        /\ (loop_state.hasBreak => loop_state.sawBreak)
    BY <1>1, LoweringFacts, StateTypes DEF LoopsInOrder
  <1>3. falls \in BOOLEAN /\ reachable' \in BOOLEAN /\ (falls => reachable')
    BY <1>1, <1>2 DEF LoopExits
  <1>4. Waits(g, m) /\ (\A b \in Nat : Waits(g, b) => b \in C) /\ (\A b \in C : b = cur \/ Waits(g, b)) /\ C \in SUBSET Nat
    BY <1>1, <1>2, StateFacts DEF Waits
  <1>5. m \in 1..Len(blocks) /\ m # cur /\ blocks[m].term.kind = "none" /\ blocks[m].term.to = {}
    BY <1>1, LoopFacts
  <1>6. PICK X : LoopedOf(blocks, cur, constructs, C, X, m, bs1)
    BY <1>1, LoopBackIs
  <1>61. /\ Reshaped(blocks, bs1, cur, C, X) /\ bs1 \in Seq(Block) /\ bs1[m] = blocks[m] /\ m \notin X /\ X \in SUBSET Nat
         /\ \A b \in C : b # m => bs1[b].term.kind # "none"
         /\ \A c \in X : c > Len(blocks) \/ (c \in 1..Len(blocks) /\ blocks[c].term.kind # "none") \/ Waits(constructs[Len(constructs)], c)
    BY <1>6 DEF LoopedOf
  <1>7. ~ falls => ~ Aimed(blocks, m)
    <2> DEFINE n == Len(constructs)
    <2>1. n \in 1..n /\ (\A k \in (n + 1)..n : constructs[k].kind # "loop") /\ constructs[n].kind = "loop"
      BY <1>1, <1>2, LoweringFacts, StateFacts
    <2>2. OfLoop(blocks, loop_state, constructs[n])
      BY <1>1, <2>1, LoweringFacts DEF LoopsInOrder, InLoop
    <2> QED BY <1>2, <2>2 DEF OfLoop, LoopExits
  <1>71. m \in C /\ cur \in C
    OBVIOUS
  <1> HIDE DEF bs1, falls, C, m, g
  <1>8. Reshaped(blocks, blocks', cur, C, X) /\ JoinOf(bs1, m, falls, blocks')
    <2>1. m \in C /\ bs1[m] = blocks[m] /\ blocks' = JoinAt(bs1, m, falls)
      BY <1>1, <1>61, <1>71
    <2>2. blocks \in Seq(Block) /\ bs1 \in Seq(Block) /\ m \in 1..Len(blocks) /\ falls \in BOOLEAN
      BY <1>3, <1>5, <1>61, StateFacts
    <2>3. Reshaped(blocks, bs1, cur, C, X) /\ blocks[m].term.kind = "none" /\ blocks[m].term.to = {}
      BY <1>5, <1>61
    <2>4. ~ falls => ~ Aimed(blocks, m) /\ m \notin X
      BY <1>61, <1>7
    <2>5. CASE falls
      <3>1. blocks' = JoinAt(bs1, m, TRUE) /\ falls = TRUE
        BY <2>1, <2>2, <2>5
      <3>2. Reshaped(blocks, blocks', cur, C, X) /\ JoinOf(bs1, m, TRUE, blocks')
        BY <2>1, <2>2, <2>3, <3>1, JoinReshapes
      <3> QED BY <3>1, <3>2
    <2>6. CASE ~ falls
      <3>1. blocks' = JoinAt(bs1, m, FALSE) /\ falls = FALSE
        BY <2>1, <2>2, <2>6
      <3>2. Reshaped(blocks, blocks', cur, C, X) /\ JoinOf(bs1, m, FALSE, blocks')
        BY <2>1, <2>2, <2>3, <2>4, <2>6, <3>1, JoinReshapes
      <3> QED BY <3>1, <3>2
    <2> QED BY <2>5, <2>6
  <1>9. /\ blocks' \in Seq(Block) /\ Len(blocks') = Len(blocks)
        /\ blocks'[m].term = IF falls THEN blocks[m].term ELSE UnreachableTerm
        /\ \A b \in C : b \in 1..Len(blocks) /\ b # m => blocks'[b].term.kind # "none"
    <2>1. Len(bs1) = Len(blocks)
      BY <1>61 DEF Reshaped
    <2>2. /\ blocks' \in Seq(Block) /\ Len(blocks') = Len(bs1) /\ (\A c \in 1..Len(bs1) : c # m => blocks'[c] = bs1[c])
          /\ blocks'[m].term = IF falls THEN bs1[m].term ELSE UnreachableTerm
      BY <1>8 DEF JoinOf
    <2> QED BY <1>61, <2>1, <2>2
  <1>10. InOrder(blocks', cur', SubSeq(constructs, 1, Len(constructs) - 1), loop_state')
    <2>1. InOrder(blocks, cur, constructs, loop_state)
      BY <1>1, StartsInOrder
    <2>2. /\ C \in SUBSET Nat /\ Touches(blocks, cur, constructs, C) /\ cur' \in C \cup {cur} /\ cur' \in 1..Len(blocks)
      BY <1>1, <1>2, <1>4, <1>5, <1>71 DEF Touches
    <2>20. \A b \in C \cup {cur} : b # cur' => blocks'[b].term.kind # "none"
      <3>1. \A b \in C : b \in 1..Len(blocks)
        <4> SUFFICES ASSUME NEW b \in C PROVE b \in 1..Len(blocks)
          OBVIOUS
        <4>1. CASE b = cur
          BY <4>1, StateFacts
        <4>2. CASE Waits(g, b) /\ b \in Nat
          BY <1>1, <4>2, TopWaits DEF g
        <4> QED BY <1>4, <4>1, <4>2
      <3> QED BY <1>1, <1>71, <1>9, <3>1
    <2>3. \A b \in Nat : Waits(constructs[Len(constructs)], b) => b \in C
      BY <1>2, <1>4
    <2>5. loop_state' = IF constructs[Len(constructs)].kind = "loop" THEN constructs[Len(constructs)].loop_state ELSE loop_state
      BY <1>1, <1>2
    <2>6. /\ \A c \in X : c > Len(blocks) \/ (c \in 1..Len(blocks) /\ blocks[c].term.kind # "none") \/ Waits(constructs[Len(constructs)], c)
          /\ X \in SUBSET Nat
      BY <1>61
    <2>7. Reshaped(blocks, blocks', cur, C, X) /\ blocks' \in Seq(Block)
      BY <1>8, <1>9
    <2>8. constructs[Len(constructs)].kind # "function"
      BY <1>1, <1>2
    <2>9. blocks \in Seq(Block) /\ constructs \in Seq(ConstructFrame) /\ cur \in 1..Len(blocks)
      BY StateFacts
    <2> QED BY <2>1, <2>2, <2>20, <2>3, <2>5, <2>6, <2>7, <2>8, <2>9, PopStep
  <1>11. cur' \in 1..Len(blocks') /\ Innermost.kind # "function"
    BY <1>1, <1>5, <1>9 DEF g
  <1>12. blocks'[cur'].term.kind = "none" => reachable'
    BY <1>1, <1>3, <1>9, TermTypes
  <1>13. loop_state' \in LoopState
    BY <1>1, <1>2
  <1> QED BY <1>1, <1>3, <1>9, <1>10, <1>11, <1>12, <1>13, StateFacts, EndStep

-----------------------------------------------------------------------------
(* The end of the function. *)

(* The blocks of a function whose body is lowered.                         *)
Finished == IF ReturnsValue THEN blocks ELSE SetTermIfOpen(blocks, cur, Ret(NoBlock))

(* Nothing waits any more, so only the current block can be open: in a     *)
(* void function it is closed now, in another it was, or its end would be  *)
(* reachable.  The verifier then accepts the function.                     *)
LEMMA FinishedIs ==
  ASSUME BuildInv, BlockDone("function"), ~(ReturnsValue /\ reachable)
  PROVE  /\ Finished \in Seq(Block) /\ Len(Finished) = Len(blocks) /\ GraphInOrder(Finished)
         /\ VerifyFunction(Finished)
  <1>1. Lowering /\ unwind.why = "idle" /\ Innermost.kind = "function"
    BY DEF BlockDone, AtConstruct, Idle
  <1>2. Len(constructs) = 1 /\ constructs[1].kind = "function"
    <2>1. Len(constructs) \in 1..Len(constructs) /\ constructs[Len(constructs)].kind = "function"
      BY <1>1, StateFacts, LoweringFacts
    <2> QED BY <1>1, <2>1, LoweringFacts DEF FramesInOrder
  <1>3. \A b \in 1..Len(blocks) : blocks[b].term.kind = "none" => b = cur
    BY <1>1, <1>2, LoweringFacts DEF WaitingInOrder, Waits
  <1>4. /\ Finished \in Seq(Block) /\ Len(Finished) = Len(blocks) /\ GraphInOrder(Finished)
        /\ \A b \in 1..Len(blocks) : Finished[b].term.kind # "none"
    <2>1. CASE ~ Open
      <3>1. Finished = blocks
        BY <2>1 DEF Finished, SetTermIfOpen, Open
      <3>2. blocks[cur].term.kind # "none"
        BY <2>1 DEF Open, IsOpen
      <3> QED BY <1>3, <3>1, <3>2, StateFacts
    <2>2. CASE Open
      <3> DEFINE t == Ret(NoBlock)
      <3>1. reachable
        BY <1>1, <2>2, LoweringFacts
      <3>2. ~ ReturnsValue /\ Finished = SetTerm(blocks, cur, t)
        BY <2>2, <3>1 DEF Finished, SetTermIfOpen, Open
      <3>3. t \in Term /\ t.kind = "ret" /\ t.to = {} /\ t.value = NoBlock /\ GoodTerm(cur, t)
        <4>1. NoBlock \in Nat
          BY DEF NoBlock
        <4> QED BY <3>2, <4>1, TermTypes DEF GoodTerm
      <3>4. blocks[cur].term.kind = "none" /\ blocks[cur].term.to = {}
        BY <2>2, StateFacts DEF Open, IsOpen, GraphInOrder
      <3> HIDE DEF t
      <3>5. Ended(blocks, cur, t, Finished) /\ AimsAt(blocks, {}, Finished)
        BY <3>2, <3>3, <3>4, StateFacts, EndedIs
      <3>6. /\ Finished \in Seq(Block) /\ Len(Finished) = Len(blocks) /\ Finished[cur].term = t
            /\ \A c \in 1..Len(blocks) : c # cur => Finished[c] = blocks[c]
        BY <3>5 DEF Ended
      <3>7. \A b \in 1..Len(blocks) : Finished[b].term.kind # "none"
        BY <1>3, <3>3, <3>6
      <3>8. GraphInOrder(Finished)
        <4>1. \A c : Aimed(Finished, c) => Aimed(blocks, c)
          BY <3>5 DEF AimsAt
        <4>2. \A c : Aimed(blocks, c) => c \in 1..Len(Finished) /\ Finished[c].term.kind # "unreachable"
          BY <3>3, <3>6, StateFacts DEF GraphInOrder
        <4>3. \A b \in 1..Len(Finished) : GoodTerm(b, Finished[b].term)
          BY <3>3, <3>6, StateFacts, GoodSame
        <4> QED BY <4>1, <4>2, <4>3 DEF GraphInOrder, GoodTerm
      <3> QED BY <3>6, <3>7, <3>8
    <2> QED BY <2>1, <2>2
  <1> HIDE DEF Finished
  <1>5. \A b \in 1..Len(Finished) : Finished[b].term.to \subseteq 1..Len(Finished)
    <2>1. \A b \in 1..Len(Finished) : \A c \in Finished[b].term.to : Aimed(Finished, c)
      BY DEF Aimed
    <2> QED BY <1>4, <2>1 DEF GraphInOrder
  <1>6. \A b \in 1..Len(Finished) : Finished[b].term.kind = "ret" => Finished[b].term.value = IF ReturnsValue THEN b ELSE NoBlock
    BY <1>4 DEF GraphInOrder
  <1>7. VerifyFunction(Finished)
    BY <1>4, <1>5, <1>6 DEF VerifyFunction
  <1> QED BY <1>4, <1>7

(* The function is no longer being lowered.                                *)
LEMMA RunsInOrder ==
  ASSUME BuildInv, phase' \in {"rejected", "failed", "running", "returned"}, blocks' \in Seq(Block), Len(blocks') = Len(blocks),
         GraphInOrder(blocks'), live' \in Seq(Defer), pc' \in [block : BlockId, next : BlockId],
         pc'.block \in 1..Len(blocks'), Aimed(blocks', pc'.block),
         UNCHANGED <<cur, deferred, loop_state, unwind, constructs, bound, sites, reachable>>
  PROVE  BuildInv'
  <1>1. LoweringTypeOK'
    BY StateFacts DEF LoweringTypeOK
  <1>2. ~ Lowering'
    BY DEF Lowering
  <1>3. RunInOrder'
    BY DEF RunInOrder
  <1> QED BY <1>1, <1>2, <1>3 DEF BuildInv

LEMMA LowerFunctionEndInv ==
  ASSUME BuildInv, LowerFunctionEnd
  PROVE  BuildInv' /\ phase' # "failed"
  <1>1. /\ BlockDone("function") /\ Lowering /\ UNCHANGED <<cur, deferred, loop_state, unwind, constructs, bound, sites, reachable, pc, live>>
        /\ IF ReturnsValue /\ reachable
           THEN phase' = "rejected" /\ blocks' = blocks
           ELSE blocks' = Finished /\ phase' = IF VerifyFunction(Finished) THEN "running" ELSE "failed"
    BY DEF LowerFunctionEnd, Finished, running, BlockDone, AtConstruct, Idle
  <1>2. pc = [block |-> Entry, next |-> 1] /\ live \in Seq(Defer) /\ pc \in [block : BlockId, next : BlockId]
    BY <1>1, LoweringFacts, StateTypes
  <1>3. pc.block \in 1..Len(blocks) /\ \A bs : Aimed(bs, pc.block)
    BY <1>2, StateFacts DEF Aimed, Entry
  <1>4. CASE ReturnsValue /\ reachable
    <2>1. phase' = "rejected" /\ blocks' = blocks
      BY <1>1, <1>4
    <2> QED BY <1>1, <1>2, <1>3, <2>1, StateFacts, RunsInOrder
  <1>5. CASE ~(ReturnsValue /\ reachable)
    <2>1. /\ Finished \in Seq(Block) /\ Len(Finished) = Len(blocks) /\ GraphInOrder(Finished) /\ VerifyFunction(Finished)
      BY <1>1, <1>5, FinishedIs
    <2>2. blocks' = Finished /\ phase' = "running"
      BY <1>1, <1>5, <2>1
    <2> HIDE DEF Finished
    <2> QED BY <1>1, <1>2, <1>3, <2>1, <2>2, StateFacts, RunsInOrder
  <1> QED BY <1>4, <1>5

-----------------------------------------------------------------------------
(* The execution of the function. *)

LEMMA RunFacts ==
  ASSUME BuildInv
  PROVE  /\ pc.block \in 1..Len(blocks) /\ Aimed(blocks, pc.block) /\ pc \in [block : BlockId, next : BlockId]
         /\ pc.block \in BlockId /\ pc.next \in BlockId /\ pc.next + 1 \in BlockId
         /\ Code = blocks[pc.block] /\ Code \in Block /\ Code.ops \in Seq(Op) /\ Len(Code.ops) \in Nat /\ live \in Seq(Defer)
  <1>1. pc.block \in 1..Len(blocks) /\ Aimed(blocks, pc.block) /\ pc \in [block : BlockId, next : BlockId] /\ live \in Seq(Defer)
    BY StateTypes DEF BuildInv, RunInOrder
  <1>2. pc.block \in BlockId /\ pc.next \in BlockId /\ pc.next + 1 \in BlockId
    BY <1>1 DEF BlockId
  <1> QED BY <1>1, <1>2, StateFacts, BlockTypes DEF Code

LEMMA OpIs ==
  ASSUME BuildInv, NEW o \in {"reg", "run"}, AtOp(o)
  PROVE  ThisDefer \in Defer /\ Running
  <1>1. pc.next \in 1..Len(Code.ops) /\ Running
    BY RunFacts DEF AtOp, BlockId
  <1>2. Code.ops[pc.next] \in Op
    BY <1>1, RunFacts
  <1> QED BY <1>1, <1>2 DEF ThisDefer, Op

(* The greatest of some positions of a list.                               *)
LEMMA NewestOf ==
  ASSUME NEW l \in Nat, NEW T \in SUBSET (1..l), T # {}
  PROVE  \E i \in T : \A j \in T : j <= i
  <1> DEFINE R == OpToRel(<, Nat)  U == {n \in Nat : \A j \in T : j <= n}
  <1>1. IsWellFoundedOn(R, Nat)
    BY NatLessThanWellFounded
  <1>2. R = {p \in Nat \X Nat : p[1] < p[2]}
    BY DEF OpToRel
  <1> HIDE DEF R
  <1>3. U \subseteq Nat /\ U # {}
    <2>1. l \in U
      OBVIOUS
    <2> QED BY <2>1
  <1>4. PICK n \in U : \A m \in U : ~(<<m, n>> \in R)
    <2> HIDE DEF U
    <2> QED BY <1>1, <1>3, WFMin
  <1>5. n \in Nat /\ \A j \in T : j <= n /\ j \in Nat /\ j > 0
    OBVIOUS
  <1>6. n \in T
    <2> SUFFICES ASSUME n \notin T PROVE FALSE
      OBVIOUS
    <2>0. PICK e \in T : TRUE
      OBVIOUS
    <2>1. n - 1 \in Nat /\ \A j \in T : j <= n - 1
      <3>1. n > 0
        BY <1>5, <2>0
      <3>2. \A j \in T : j # n /\ j <= n /\ j \in Nat
        BY <1>5
      <3> QED BY <1>5, <3>1, <3>2
    <2>2. n - 1 \in U
      BY <2>1
    <2>3. <<n - 1, n>> \in Nat \X Nat /\ <<n - 1, n>>[1] = n - 1 /\ <<n - 1, n>>[2] = n
      BY <1>5, <2>1
    <2>4. <<n - 1, n>> \in R
      BY <1>2, <1>5, <2>1, <2>3
    <2> QED BY <1>4, <2>2, <2>4
  <1> QED BY <1>5, <1>6

LEMMA UnregisterIs ==
  ASSUME NEW s \in Seq(Defer), NEW d
  PROVE  Unregister(s, d) \in Seq(Defer)
  <1> DEFINE at == {i \in 1..Len(s) : s[i] = d}  k == CHOOSE i \in at : \A j \in at : j <= i
  <1>1. CASE at = {}
    BY <1>1 DEF Unregister
  <1>2. CASE at # {}
    <2>1. \E i \in at : \A j \in at : j <= i
      <3>1. at \in SUBSET (1..Len(s)) /\ Len(s) \in Nat
        OBVIOUS
      <3> HIDE DEF at
      <3> QED BY <1>2, <3>1, NewestOf
    <2>2. k \in at
      BY <2>1
    <2>3. k \in 1..Len(s)
      BY <2>2
    <2>4. Unregister(s, d) = SubSeq(s, 1, k - 1) \o SubSeq(s, k + 1, Len(s))
      BY <1>2 DEF Unregister
    <2> HIDE DEF k, at
    <2>5. SubSeq(s, 1, k - 1) \in Seq(Defer) /\ SubSeq(s, k + 1, Len(s)) \in Seq(Defer)
      BY <2>3
    <2> QED BY <2>4, <2>5
  <1> QED BY <1>1, <1>2

(* A step of the execution that stays in its block.                        *)
LEMMA OpStepInv ==
  ASSUME BuildInv, Running, live' \in Seq(Defer), pc' = [pc EXCEPT !.next = @ + 1],
         UNCHANGED <<phase, blocks, cur, deferred, loop_state, unwind, constructs, bound, sites, reachable>>
  PROVE  BuildInv'
  <1>1. pc' \in [block : BlockId, next : BlockId] /\ pc'.block = pc.block
    BY RunFacts
  <1> QED BY <1>1, RunFacts, StateFacts, RunsInOrder DEF Running

LEMMA RegisterInv == ASSUME BuildInv, Register PROVE BuildInv'
  <1>1. /\ AtOp("reg") /\ live' = Append(live, ThisDefer) /\ pc' = [pc EXCEPT !.next = @ + 1]
        /\ UNCHANGED <<phase, blocks, cur, deferred, loop_state, unwind, constructs, bound, sites, reachable>>
    BY DEF Register
  <1>2. ThisDefer \in Defer /\ Running
    BY <1>1, OpIs
  <1>3. live' \in Seq(Defer)
    BY <1>1, <1>2, RunFacts
  <1> QED BY <1>1, <1>2, <1>3, OpStepInv

LEMMA RunCleanupInv == ASSUME BuildInv, RunCleanup PROVE BuildInv'
  <1>1. /\ AtOp("run") /\ live' = Unregister(live, ThisDefer) /\ pc' = [pc EXCEPT !.next = @ + 1]
        /\ UNCHANGED <<phase, blocks, cur, deferred, loop_state, unwind, constructs, bound, sites, reachable>>
    BY DEF RunCleanup
  <1>2. Running
    BY <1>1, OpIs
  <1>3. live' \in Seq(Defer)
    BY <1>1, RunFacts, UnregisterIs
  <1> QED BY <1>1, <1>2, <1>3, OpStepInv

LEMMA JumpInv == ASSUME BuildInv, Jump PROVE BuildInv'
  <1>1. /\ Running /\ live' = live
        /\ UNCHANGED <<phase, blocks, cur, deferred, loop_state, unwind, constructs, bound, sites, reachable>>
    BY DEF Jump, AtTerm
  <1>2. PICK b \in Code.term.to : pc' = [block |-> b, next |-> 1]
    BY DEF Jump
  <1>3. Aimed(blocks, b)
    BY <1>2, RunFacts DEF Aimed
  <1>4. b \in 1..Len(blocks) /\ b \in BlockId /\ 1 \in BlockId
    BY <1>3, StateFacts DEF GraphInOrder, BlockId
  <1>5. pc' \in [block : BlockId, next : BlockId] /\ pc'.block = b
    BY <1>2, <1>4
  <1> QED BY <1>1, <1>3, <1>4, <1>5, RunFacts, StateFacts, RunsInOrder DEF Running

LEMMA LeaveInv == ASSUME BuildInv, Leave PROVE BuildInv'
  <1>1. /\ phase' = "returned" /\ pc' = pc /\ live' = live
        /\ UNCHANGED <<blocks, cur, deferred, loop_state, unwind, constructs, bound, sites, reachable>>
    BY DEF Leave, running
  <1> QED BY <1>1, RunFacts, StateFacts, RunsInOrder

LEMMA StutterInv == ASSUME BuildInv, UNCHANGED cvars PROVE BuildInv'
  <1>1. UNCHANGED <<phase, blocks, cur, deferred, loop_state, unwind, constructs, bound, sites, reachable, pc, live>>
    BY DEF cvars
  <1> QED BY <1>1 DEF BuildInv, LoweringTypeOK, Lowering, LoweringInOrder, RunInOrder, Open, IsOpen

LEMMA StartOfInv == ASSUME LoweringInit PROVE BuildInv
  <1> DEFINE f == [kind |-> "function", base |-> 0, left |-> FALSE, merge |-> NoBlock, other |-> NoBlock,
                   cond |-> NoBlock, cases |-> 0, always |-> FALSE, falls |-> FALSE, reach |-> FALSE, loop_state |-> NoLoopState]
  <1>1. /\ phase = "lowering" /\ cur = 1 /\ deferred = <<>> /\ loop_state = NoLoopState /\ unwind = NoUnwind
        /\ constructs = <<f>> /\ bound = {} /\ sites = 0 /\ reachable = TRUE
        /\ pc = [block |-> Entry, next |-> 1] /\ live = <<>> /\ blocks = AddBlocks(<<>>, 1, <<>>)
    BY DEF LoweringInit, Entry
  <1>2. /\ blocks \in Seq(Block) /\ Len(blocks) = 1 /\ blocks[1].term = OpenTerm
    <2> DEFINE none == <<>>
    <2>0. none \in Seq(Block) /\ none \in Seq(Defer) /\ Len(none) = 0 /\ blocks = AddBlocks(none, 1, none)
      BY <1>1
    <2> HIDE DEF none
    <2>1. Added(none, 1, none, AddBlocks(none, 1, none))
      BY <2>0, AddedIs
    <2>2. /\ blocks \in Seq(Block) /\ Len(blocks) = Len(none) + 1
          /\ \A c \in 1..Len(blocks) : c > Len(none) => blocks[c].term = OpenTerm
      BY <2>0, <2>1 DEF Added
    <2> QED BY <2>0, <2>2
  <1>3. NoLoopState \in LoopState /\ NoUnwind \in Unwind /\ NoUnwind.why = "idle" /\ ~ NoLoopState.inside /\ ~ NoLoopState.hasBreak
    BY DEF NoLoopState, LoopState, NoUnwind, Unwind, NoBlock
  <1>4. f \in ConstructFrame /\ f.kind = "function" /\ f.base = 0 /\ ~ f.falls /\ ~ f.loop_state.hasBreak
    BY <1>3 DEF ConstructFrame, FrameKinds, NoBlock
  <1> HIDE DEF f
  <1>5. constructs \in Seq(ConstructFrame) /\ Len(constructs) = 1 /\ constructs[1] = f
    BY <1>1, <1>4
  <1>6. pc \in [block : BlockId, next : BlockId] /\ pc.block = 1
    BY <1>1 DEF BlockId, Entry
  <1>7. LoweringTypeOK
    BY <1>1, <1>2, <1>3, <1>5, <1>6 DEF LoweringTypeOK
  <1>8. \A c : Aimed(blocks, c) <=> c = 1
    BY <1>2, TermTypes DEF Aimed, Entry
  <1>9. GraphInOrder(blocks)
    BY <1>2, <1>8, TermTypes DEF GraphInOrder
  <1>10. \A b : ~ Waits(f, b)
    BY <1>4 DEF Waits
  <1>11. WaitingInOrder(blocks, cur, constructs)
    BY <1>1, <1>2, <1>5, <1>10 DEF WaitingInOrder
  <1>12. FrameInOrder(blocks, f)
    BY <1>4 DEF FrameInOrder
  <1>13. FramesInOrder(blocks, cur, constructs)
    <2>1. \A i \in 1..1 : i = 1
      OBVIOUS
    <2>2. \A i \in 1..0 : FALSE
      OBVIOUS
    <2> QED BY <1>4, <1>5, <1>12, <2>1, <2>2 DEF FramesInOrder
  <1>14. LoopsInOrder(blocks, constructs, loop_state)
    BY <1>1, <1>3, <1>4, <1>5 DEF LoopsInOrder, InLoop
  <1>15. UnwindInOrder(unwind, constructs, deferred, loop_state, cur)
    BY <1>1, <1>3, <1>4, <1>5, IdleUnwind
  <1>16. LoweringInOrder
    BY <1>1, <1>11, <1>13, <1>14, <1>15 DEF LoweringInOrder
  <1>17. RunInOrder
    BY <1>2, <1>6, <1>8 DEF RunInOrder
  <1> QED BY <1>7, <1>9, <1>16, <1>17 DEF BuildInv

-----------------------------------------------------------------------------
(* The theorems. *)

LEMMA BuildStep == ASSUME BuildInv, LoweringNext PROVE BuildInv'
  <1>1. CASE \E k \in DeferKinds : RememberDefer(k) \/ BareCaseDefer(k)
    BY <1>1, RememberDeferInv, BareCaseDeferInv
  <1>2. CASE RunDeferred \/ LowerBlockEnd \/ BlockUnwound
    BY <1>2, RunDeferredInv, LowerBlockEndInv, BlockUnwoundInv
  <1>3. CASE Return \/ ReturnUnwound \/ LowerBreak \/ LowerContinue \/ JumpUnwound
    BY <1>3, ReturnInv, ReturnUnwoundInv, LowerBreakInv, LowerContinueInv, JumpUnwoundInv
  <1>4. CASE \E falls, breaks \in BOOLEAN : SkippedStatement(falls, breaks)
    BY <1>4, SkippedStatementInv
  <1>5. CASE LowerBlock \/ BlockLeave \/ LowerElse \/ LowerIfEnd
    BY <1>5, LowerBlockInv, BlockLeaveInv, LowerElseInv, LowerIfEndInv
  <1>6. CASE \E hasElse \in BOOLEAN : LowerIf(hasElse)
    BY <1>6, LowerIfInv
  <1>7. CASE \E n \in 0..MaxCases, d, e \in BOOLEAN : LowerSwitch(n, d, e)
    BY <1>7, LowerSwitchInv
  <1>8. CASE LowerCase \/ LowerCaseEnd \/ LowerSwitchEnd \/ LowerLoopEnd \/ LowerFunctionEnd
    BY <1>8, LowerCaseInv, LowerCaseEndInv, LowerSwitchEndInv, LowerLoopEndInv, LowerFunctionEndInv
  <1>9. CASE \E known \in {"unknown", "true", "false"}, p \in BOOLEAN : LowerLoop(known, p)
    BY <1>9, LowerLoopInv
  <1>10. CASE Register \/ RunCleanup \/ Jump \/ Leave
    BY <1>10, RegisterInv, RunCleanupInv, JumpInv, LeaveInv
  <1>11. CASE LoweringDone
    BY <1>11, StutterInv DEF LoweringDone
  <1> QED BY <1>1, <1>2, <1>3, <1>4, <1>5, <1>6, <1>7, <1>8, <1>9, <1>10, <1>11 DEF LoweringNext

LEMMA BuildInvHolds == LoweringSpec => []BuildInv
  <1>1. LoweringInit => BuildInv
    BY StartOfInv
  <1>2. BuildInv /\ [LoweringNext]_cvars => BuildInv'
    BY BuildStep, StutterInv
  <1> QED BY <1>1, <1>2, PTL DEF LoweringSpec

(* What the builder of cog_ir_lower.c holds between two statements is in   *)
(* order, for every function: the types, and a block is open for code only *)
(* where the analyser sees a reachable point.                              *)
THEOREM BuilderIsInOrder == LoweringSpec => []LoweringInvariant
  <1>1. BuildInv => LoweringInvariant
    <2> SUFFICES ASSUME BuildInv, InBody, Open PROVE reachable
      BY DEF BuildInv, LoweringInvariant, OpenIsReachable
    <2>1. Lowering /\ unwind.why = "idle"
      BY DEF InBody, Idle
    <2> QED BY <2>1, LoweringFacts
  <1> QED BY <1>1, BuildInvHolds, PTL

(* No execution of a lowered function reaches a terminator that            *)
(* lower_if_statement, lower_switch_statement or a loop marked unreachable: *)
(* no jump leads to such a block.                                          *)
THEOREM UnreachableIsNotReached == LoweringSpec => []NeverUnreachable
  <1>1. BuildInv => NeverUnreachable
    <2> SUFFICES ASSUME BuildInv, AtTerm("unreachable") PROVE FALSE
      BY DEF NeverUnreachable
    <2>1. Code.term.kind = "unreachable" /\ Code = blocks[pc.block] /\ Aimed(blocks, pc.block)
      BY RunFacts DEF AtTerm
    <2> QED BY <2>1, StateFacts DEF GraphInOrder
  <1> QED BY <1>1, BuildInvHolds, PTL

-----------------------------------------------------------------------------
(* The defers registered are of the kinds the functions use.               *)
KindsAreUsed == \A i \in 1..Len(deferred) : deferred[i].kind \in DeferKinds

LEMMA KindsMore ==
  ASSUME BuildInv, KindsAreUsed, NEW k \in DeferKinds, deferred' = Append(deferred, [site |-> sites, kind |-> k])
  PROVE  KindsAreUsed'
  <1> DEFINE d == [site |-> sites, kind |-> k]
  <1>1. d \in Defer /\ d.kind = k
    BY Constants, StateFacts DEF Defer
  <1> HIDE DEF d
  <1>2. deferred' = Append(deferred, d)
    BY DEF d
  <1>3. Len(deferred') = Len(deferred) + 1 /\ Len(deferred) \in Nat /\ deferred'[Len(deferred) + 1] = d
        /\ \A i \in 1..Len(deferred) : deferred'[i] = deferred[i]
    BY <1>1, <1>2, StateFacts
  <1>4. \A i \in 1..Len(deferred') : i \in 1..Len(deferred) \/ i = Len(deferred) + 1
    BY <1>3
  <1> QED BY <1>1, <1>3, <1>4 DEF KindsAreUsed

LEMMA KindsFewer ==
  ASSUME BuildInv, KindsAreUsed, BlockUnwound
  PROVE  KindsAreUsed'
  <1>1. Lowering /\ unwind.why = "block" /\ deferred' = SubSeq(deferred, 1, unwind.base)
    BY DEF BlockUnwound, Unwound, RestoreDeferCount, Prefix
  <1>2. unwind.base \in 0..Len(deferred)
    <2>1. unwind.base <= unwind.next /\ unwind.next <= Len(deferred) /\ unwind.base \in Nat /\ unwind.next \in Nat
      BY <1>1, LoweringFacts, StateTypes DEF UnwindInOrder
    <2> QED BY <2>1, StateFacts
  <1>3. Len(deferred') = unwind.base /\ \A i \in 1..unwind.base : deferred'[i] = deferred[i] /\ i \in 1..Len(deferred)
    BY <1>1, <1>2, StateFacts
  <1> QED BY <1>3 DEF KindsAreUsed

LEMMA KindsSame == ASSUME KindsAreUsed, UNCHANGED deferred PROVE KindsAreUsed'
  BY DEF KindsAreUsed

LEMMA RunDeferredSucceeds ==
  ASSUME BuildInv, KindsAreUsed, "declare" \notin DeferKinds, RunDeferred
  PROVE  phase' = phase /\ UNCHANGED deferred
  <1>1. Lowering /\ unwind.why # "idle" /\ unwind.next > unwind.base /\ UNCHANGED deferred
    BY DEF RunDeferred
  <1>2. unwind.next \in 1..Len(deferred)
    <2>1. unwind.base \in Nat /\ unwind.next \in Nat /\ unwind.next <= Len(deferred)
      BY <1>1, LoweringFacts, StateTypes DEF UnwindInOrder
    <2> QED BY <1>1, <2>1, StateFacts
  <1>3. NextDeferred(unwind).kind \in {"plain", "branch", "diverge"}
    BY <1>2, Constants DEF KindsAreUsed, NextDeferred, AllDeferKinds
  <1>4. phase' = phase
    BY <1>3 DEF RunDeferred
  <1> QED BY <1>1, <1>4

SucceedsSoFar == BuildInv /\ KindsAreUsed /\ phase # "failed"

LEMMA SucceedsStep ==
  ASSUME "declare" \notin DeferKinds, SucceedsSoFar, LoweringNext
  PROVE  SucceedsSoFar'
  <1>1. BuildInv /\ KindsAreUsed /\ phase # "failed" /\ BuildInv'
    BY BuildStep DEF SucceedsSoFar
  <1>2. KindsAreUsed' /\ phase' # "failed"
    <2>1. CASE \E k \in DeferKinds : RememberDefer(k) \/ BareCaseDefer(k)
      BY <1>1, <2>1, KindsMore DEF RememberDefer, BareCaseDefer
    <2>2. CASE BlockUnwound
      BY <1>1, <2>2, KindsFewer DEF BlockUnwound
    <2>3. CASE RunDeferred
      BY <1>1, <2>3, RunDeferredSucceeds, KindsSame
    <2>4. CASE LowerFunctionEnd
      BY <1>1, <2>4, LowerFunctionEndInv, KindsSame DEF LowerFunctionEnd
    <2>5. CASE Leave
      BY <1>1, <2>5, KindsSame DEF Leave
    <2>6. CASE LoweringDone
      BY <1>1, <2>6, KindsSame DEF LoweringDone, cvars
    <2>7. CASE UNCHANGED <<phase, deferred>>
      BY <1>1, <2>7, KindsSame
    <2>8. LowerBlockEnd \/ Return \/ ReturnUnwound \/ LowerBreak \/ LowerContinue \/ JumpUnwound \/ LowerBlock \/ BlockLeave
            => UNCHANGED <<phase, deferred>>
      BY DEF LowerBlockEnd, Return, ReturnUnwound, LowerBreak, LowerContinue, JumpUnwound, LowerBlock, BlockLeave
    <2>9. \A x, y, z : LowerIf(x) \/ LowerSwitch(x, y, z) \/ LowerLoop(x, y) \/ SkippedStatement(x, y) => UNCHANGED <<phase, deferred>>
      BY DEF LowerIf, LowerSwitch, LowerLoop, SkippedStatement
    <2>10. LowerElse \/ LowerIfEnd \/ LowerCase \/ LowerCaseEnd \/ LowerSwitchEnd \/ LowerLoopEnd \/ Register \/ RunCleanup \/ Jump
            => UNCHANGED <<phase, deferred>>
      BY DEF LowerElse, LowerIfEnd, LowerCase, LowerCaseEnd, LowerSwitchEnd, LowerLoopEnd, Register, RunCleanup, Jump
    <2> QED BY <2>1, <2>2, <2>3, <2>4, <2>5, <2>6, <2>7, <2>8, <2>9, <2>10 DEF LoweringNext
  <1> QED BY <1>1, <1>2 DEF SucceedsSoFar

(* lower_function_body and cog_ir_verify succeed on every function the     *)
(* analyser accepts, unless a deferred block declares a local variable:    *)
(* every block is closed once, every jump leads to a block, and a returned *)
(* value is available where it is returned.                                *)
THEOREM LoweringDoesNotFail == ASSUME "declare" \notin DeferKinds PROVE LoweringSpec => []LoweringSucceeds
  <1>1. LoweringInit => SucceedsSoFar
    <2> SUFFICES ASSUME LoweringInit PROVE SucceedsSoFar
      OBVIOUS
    <2>1. BuildInv
      BY StartOfInv
    <2>2. deferred = <<>> /\ phase = "lowering"
      BY DEF LoweringInit
    <2> QED BY <2>1, <2>2 DEF SucceedsSoFar, KindsAreUsed
  <1>2. SucceedsSoFar /\ [LoweringNext]_cvars => SucceedsSoFar'
    <2>1. ASSUME SucceedsSoFar, UNCHANGED cvars PROVE SucceedsSoFar'
      BY <2>1, StutterInv, KindsSame DEF SucceedsSoFar, cvars
    <2> QED BY <2>1, SucceedsStep
  <1>3. SucceedsSoFar => LoweringSucceeds
    BY DEF SucceedsSoFar, LoweringSucceeds
  <1> QED BY <1>1, <1>2, <1>3, PTL DEF LoweringSpec

-----------------------------------------------------------------------------
(* The deferred statements: every execution of a lowered function runs    *)
(* them in reverse order of registration, each once. The inductive         *)
(* invariant.                                                              *)

(* What an instruction does to the list of the registered defers.          *)
OpStep(before, o, after) ==
  IF o.op = "reg" THEN after = Append(before, o.defer) ELSE before = Append(after, o.defer)

(* t lists what is registered before the first and after each of the       *)
(* instructions of block b.                                                *)
TraceOf(b, t) ==
  /\ t \in [0..Len(b.ops) -> Seq(Defer)]
  /\ t[0] = b.entry
  /\ \A i \in 1..Len(b.ops) : OpStep(t[i - 1], b.ops[i], t[i])

Reaches(b, after) == \E t : TraceOf(b, t) /\ t[Len(b.ops)] = after

(* after is what the targets of block b begin with; a return has run all.  *)
EndsWith(bs, b, after) ==
  /\ \A c \in bs[b].term.to : bs[c].entry = after
  /\ bs[b].term.kind = "ret" => after = <<>>

BlocksInOrder(bs) ==
  \A b \in 1..Len(bs) : bs[b].term.kind \in {"br", "ret"} => \E after : Reaches(bs[b], after) /\ EndsWith(bs, b, after)

(* The blocks that wait in frame f begin with the defers e, and so does a  *)
(* loop's condition.                                                       *)
EntryIs(bs, f, e) ==
  /\ \A b \in Nat : Waits(f, b) => b \in 1..Len(bs) /\ bs[b].entry = e
  /\ f.kind = "loop" => f.cond \in 1..Len(bs) /\ bs[f.cond].entry = e
EntriesInOrder(bs, fs, df) == \A i \in 1..Len(fs) : EntryIs(bs, fs[i], Prefix(df, fs[i].base))

(* The defers registered at the point being lowered.                       *)
LexicalOf(df, u) == IF u.why = "idle" THEN df ELSE Prefix(df, u.next)

(* A construct whose block is done has dropped the defers of the block.    *)
DropsDone(u, fs, df) == u.why = "idle" /\ (fs[Len(fs)].kind = "switch" \/ fs[Len(fs)].left) => Len(df) = fs[Len(fs)].base

DefersInOrder ==
  /\ Open => Reaches(blocks[cur], LexicalOf(deferred, unwind))
  /\ EntriesInOrder(blocks, constructs, deferred)
  /\ DropsDone(unwind, constructs, deferred)
  /\ constructs[1].base = 0

(* The execution is at its place in a trace of its block.                  *)
RunsAlong(t) ==
  /\ TraceOf(Code, t) /\ EndsWith(blocks, pc.block, t[Len(Code.ops)])
  /\ pc.next <= Len(Code.ops) + 1 /\ live = t[pc.next - 1]

DeferInv ==
  /\ BuildInv /\ BlocksInOrder(blocks) /\ blocks[1].entry = <<>>
  /\ Lowering => DefersInOrder
  /\ Running => (\A b \in 1..Len(blocks) : blocks[b].term.kind # "none") /\ \E t : RunsAlong(t)

-----------------------------------------------------------------------------
(* Traces. *)

LEMMA EmptyReaches ==
  ASSUME NEW b, b.ops = <<>>, b.entry \in Seq(Defer)
  PROVE  Reaches(b, b.entry)
  <1> DEFINE t == [i \in 0..0 |-> b.entry]
  <1>1. Len(b.ops) = 0
    OBVIOUS
  <1>2. t \in [0..0 -> Seq(Defer)] /\ t[0] = b.entry
    OBVIOUS
  <1>3. \A i \in 1..0 : FALSE
    OBVIOUS
  <1> HIDE DEF t
  <1>4. TraceOf(b, t)
    BY <1>1, <1>2, <1>3 DEF TraceOf
  <1> QED BY <1>1, <1>2, <1>4 DEF Reaches

LEMMA SameReaches ==
  ASSUME NEW b, NEW b2, NEW after, Reaches(b, after), b2.ops = b.ops, b2.entry = b.entry
  PROVE  Reaches(b2, after)
  BY DEF Reaches, TraceOf

LEMMA EmitReaches ==
  ASSUME NEW b \in Block, NEW b2, NEW o \in Op, NEW before, NEW after \in Seq(Defer), Reaches(b, before), OpStep(before, o, after),
         b2.ops = Append(b.ops, o), b2.entry = b.entry
  PROVE  Reaches(b2, after)
  <1> DEFINE n == Len(b.ops)
  <1>1. PICK t : TraceOf(b, t) /\ t[n] = before
    BY DEF Reaches
  <1>2. b.ops \in Seq(Op) /\ n \in Nat
    BY DEF Block
  <1>3. Len(b2.ops) = n + 1 /\ b2.ops[n + 1] = o /\ \A i \in 1..n : b2.ops[i] = b.ops[i]
    BY <1>2
  <1>4. t \in [0..n -> Seq(Defer)] /\ t[0] = b.entry /\ \A i \in 1..n : OpStep(t[i - 1], b.ops[i], t[i])
    BY <1>1 DEF TraceOf
  <1> HIDE DEF n
  <1> DEFINE t2 == [i \in 0..(n + 1) |-> IF i = n + 1 THEN after ELSE t[i]]
  <1>5. /\ t2 \in [0..(n + 1) -> Seq(Defer)] /\ t2[n + 1] = after /\ \A i \in 0..n : t2[i] = t[i]
    <2>1. \A i \in 0..(n + 1) : i = n + 1 \/ i \in 0..n
      BY <1>2
    <2>2. \A i \in 0..n : i # n + 1 /\ i \in 0..(n + 1)
      BY <1>2
    <2> QED BY <1>2, <1>4, <2>1, <2>2
  <1> HIDE DEF t2
  <1>6. \A i \in 1..(n + 1) : OpStep(t2[i - 1], b2.ops[i], t2[i])
    <2> SUFFICES ASSUME NEW i \in 1..(n + 1) PROVE OpStep(t2[i - 1], b2.ops[i], t2[i])
      OBVIOUS
    <2>1. CASE i = n + 1
      <3>1. i - 1 = n /\ n \in 0..n
        BY <1>2, <2>1
      <3>2. t2[i - 1] = before /\ t2[i] = after /\ b2.ops[i] = o
        BY <1>1, <1>3, <1>5, <2>1, <3>1 DEF n
      <3> QED BY <3>2
    <2>2. CASE i # n + 1
      <3>1. i \in 1..n /\ i - 1 \in 0..n /\ i \in 0..n
        BY <1>2, <2>2
      <3>2. t2[i - 1] = t[i - 1] /\ t2[i] = t[i] /\ b2.ops[i] = b.ops[i]
        BY <1>3, <1>5, <3>1
      <3> QED BY <1>4, <3>1, <3>2
    <2> QED BY <2>1, <2>2
  <1>7. t2[0] = b2.entry
    BY <1>2, <1>4, <1>5
  <1>8. TraceOf(b2, t2)
    BY <1>3, <1>5, <1>6, <1>7 DEF TraceOf
  <1> QED BY <1>3, <1>5, <1>8 DEF Reaches

(* Entries never change, and blocks are only added.                        *)
Kept(bs, bs2) == Len(bs) <= Len(bs2) /\ \A b \in 1..Len(bs) : bs2[b].entry = bs[b].entry

LEMMA FlowStep ==
  ASSUME NEW bs \in Seq(Block), NEW bs2 \in Seq(Block), GraphInOrder(bs), BlocksInOrder(bs), Kept(bs, bs2),
         \A b \in 1..Len(bs2) : \/ b \in 1..Len(bs) /\ bs2[b].term = bs[b].term /\ bs2[b].ops = bs[b].ops
                                \/ bs2[b].term.kind \notin {"br", "ret"}
                                \/ \E after : Reaches(bs2[b], after) /\ EndsWith(bs2, b, after)
  PROVE  BlocksInOrder(bs2)
  <1> SUFFICES ASSUME NEW b \in 1..Len(bs), bs2[b].term = bs[b].term, bs2[b].ops = bs[b].ops, bs2[b].term.kind \in {"br", "ret"}
               PROVE  \E after : Reaches(bs2[b], after) /\ EndsWith(bs2, b, after)
    BY DEF BlocksInOrder
  <1>1. PICK after : Reaches(bs[b], after) /\ EndsWith(bs, b, after)
    BY DEF BlocksInOrder
  <1>2. bs2[b].entry = bs[b].entry
    BY DEF Kept
  <1>3. Reaches(bs2[b], after)
    BY <1>1, <1>2, SameReaches
  <1>4. \A c \in bs[b].term.to : c \in 1..Len(bs)
    BY DEF GraphInOrder, Aimed
  <1>5. EndsWith(bs2, b, after)
    BY <1>1, <1>4 DEF EndsWith, Kept
  <1> QED BY <1>3, <1>5

LEMMA EntryStays ==
  ASSUME NEW bs \in Seq(Block), NEW bs2 \in Seq(Block), NEW f, NEW e, EntryIs(bs, f, e), Kept(bs, bs2)
  PROVE  EntryIs(bs2, f, e)
  <1>1. Len(bs) \in Nat /\ Len(bs2) \in Nat /\ Len(bs) <= Len(bs2)
    BY DEF Kept
  <1>2. \A b \in 1..Len(bs) : b \in 1..Len(bs2) /\ bs2[b].entry = bs[b].entry
    BY <1>1 DEF Kept
  <1> QED BY <1>2 DEF EntryIs

LEMMA EntriesStay ==
  ASSUME NEW bs \in Seq(Block), NEW bs2 \in Seq(Block), NEW fs, NEW fs2, NEW df, NEW df2, EntriesInOrder(bs, fs, df), Kept(bs, bs2),
         \A i \in 1..Len(fs2) : \/ i \in 1..Len(fs) /\ fs2[i] = fs[i] /\ Prefix(df2, fs[i].base) = Prefix(df, fs[i].base)
                                \/ EntryIs(bs2, fs2[i], Prefix(df2, fs2[i].base))
  PROVE  EntriesInOrder(bs2, fs2, df2)
  <1> SUFFICES ASSUME NEW i \in 1..Len(fs2), i \in 1..Len(fs) /\ fs2[i] = fs[i] /\ Prefix(df2, fs[i].base) = Prefix(df, fs[i].base)
               PROVE  EntryIs(bs2, fs2[i], Prefix(df2, fs2[i].base))
    BY DEF EntriesInOrder
  <1>1. EntryIs(bs, fs[i], Prefix(df, fs[i].base))
    BY DEF EntriesInOrder
  <1>2. EntryIs(bs2, fs[i], Prefix(df, fs[i].base))
    BY <1>1, EntryStays
  <1> QED BY <1>2

LEMMA PrefixIs ==
  ASSUME NEW df \in Seq(Defer)
  PROVE  /\ \A n \in 0..Len(df) : Prefix(df, n) \in Seq(Defer) /\ Len(Prefix(df, n)) = n
                                  /\ \A i \in 1..n : Prefix(df, n)[i] = df[i]
         /\ Prefix(df, Len(df)) = df /\ Prefix(df, 0) = <<>>
         /\ \A n \in 1..Len(df) : Prefix(df, n) = Append(Prefix(df, n - 1), df[n])
  <1>1. ASSUME NEW n \in 0..Len(df)
        PROVE  Prefix(df, n) \in Seq(Defer) /\ Len(Prefix(df, n)) = n /\ \A i \in 1..n : Prefix(df, n)[i] = df[i]
    BY DEF Prefix
  <1>2. Prefix(df, Len(df)) = df /\ Prefix(df, 0) = <<>>
    BY DEF Prefix
  <1>3. ASSUME NEW n \in 1..Len(df) PROVE Prefix(df, n) = Append(Prefix(df, n - 1), df[n])
    BY DEF Prefix
  <1> QED BY <1>1, <1>2, <1>3

LEMMA PrefixStays ==
  ASSUME NEW df \in Seq(Defer), NEW k \in 0..Len(df), NEW n \in 0..k
  PROVE  Prefix(Prefix(df, k), n) = Prefix(df, n)
  BY DEF Prefix

LEMMA PrefixOfMore ==
  ASSUME NEW df \in Seq(Defer), NEW d \in Defer, NEW n \in 0..Len(df)
  PROVE  Prefix(Append(df, d), n) = Prefix(df, n)
  BY DEF Prefix

-----------------------------------------------------------------------------
(* The state between two steps. *)

LEMMA DeferFacts ==
  ASSUME DeferInv
  PROVE  /\ BuildInv /\ BlocksInOrder(blocks) /\ blocks[1].entry = <<>>
         /\ Lowering => /\ Open => Reaches(blocks[cur], LexicalOf(deferred, unwind))
                        /\ EntriesInOrder(blocks, constructs, deferred)
                        /\ DropsDone(unwind, constructs, deferred)
                        /\ constructs[1].base = 0
  BY DEF DeferInv, DefersInOrder

(* The function is still being lowered.                                    *)
LEMMA StillLowers ==
  ASSUME DeferInv, Lowering, BuildInv', phase' = "lowering", BlocksInOrder(blocks'), Kept(blocks, blocks'),
         blocks'[cur'].term.kind = "none" => Reaches(blocks'[cur'], LexicalOf(deferred', unwind')),
         EntriesInOrder(blocks', constructs', deferred'), DropsDone(unwind', constructs', deferred'),
         constructs'[1].base = constructs[1].base
  PROVE  DeferInv'
  <1>1. ~ Running'
    BY DEF Running
  <1>2. 1 \in 1..Len(blocks)
    BY DeferFacts, StateFacts
  <1>3. blocks'[1].entry = <<>>
    BY <1>2, DeferFacts DEF Kept
  <1>4. DefersInOrder'
    BY DeferFacts DEF DefersInOrder, Open, IsOpen
  <1> QED BY <1>1, <1>3, <1>4 DEF DeferInv

LEMMA KeptSame == ASSUME NEW bs \in Seq(Block) PROVE Kept(bs, bs)
  <1>1. Len(bs) \in Nat
    OBVIOUS
  <1> QED BY <1>1 DEF Kept

(* The constructs and their defers are as before.                          *)
LEMMA SameConstructs ==
  ASSUME DeferInv, Lowering, BuildInv', phase' = "lowering", BlocksInOrder(blocks'), Kept(blocks, blocks'),
         blocks'[cur'].term.kind = "none" => Reaches(blocks'[cur'], LexicalOf(deferred', unwind')),
         DropsDone(unwind', constructs', deferred'), UNCHANGED <<constructs, deferred>>
  PROVE  DeferInv'
  <1>1. blocks \in Seq(Block) /\ blocks' \in Seq(Block) /\ EntriesInOrder(blocks, constructs, deferred)
    BY DeferFacts, StateFacts DEF BuildInv, LoweringTypeOK
  <1>2. EntriesInOrder(blocks', constructs', deferred')
    BY <1>1, EntriesStay
  <1> QED BY <1>2, StillLowers

(* ... and so are the blocks.                                              *)
LEMMA SameBlocks ==
  ASSUME DeferInv, Lowering, BuildInv', phase' = "lowering", UNCHANGED <<blocks, cur, constructs, deferred>>,
         Open => LexicalOf(deferred, unwind') = LexicalOf(deferred, unwind),
         unwind'.why = "idle" => unwind.why = "idle"
  PROVE  DeferInv'
  <1>1. BlocksInOrder(blocks') /\ Kept(blocks, blocks')
    BY DeferFacts, StateFacts, KeptSame
  <1>2. blocks'[cur'].term.kind = "none" => Reaches(blocks'[cur'], LexicalOf(deferred', unwind'))
    <2> SUFFICES ASSUME blocks[cur].term.kind = "none" PROVE Reaches(blocks[cur], LexicalOf(deferred, unwind'))
      OBVIOUS
    <2> QED BY DeferFacts DEF Open, IsOpen
  <1>3. DropsDone(unwind', constructs', deferred')
    BY DeferFacts DEF DropsDone
  <1> QED BY <1>1, <1>2, <1>3, SameConstructs

LEMMA StartsLexical ==
  ASSUME BuildInv, NEW why, NEW base, NEW value, StartUnwind(why, base, value), unwind.why = "idle", why # "idle"
  PROVE  LexicalOf(deferred, unwind') = LexicalOf(deferred, unwind) /\ unwind'.why # "idle"
  <1>1. unwind'.why = why /\ unwind'.next = Len(deferred)
    BY DEF StartUnwind
  <1> QED BY <1>1, StateFacts, PrefixIs DEF LexicalOf

LEMMA ReturnDefers == ASSUME DeferInv, BuildInv', Return PROVE DeferInv'
  <1>1. /\ Lowering /\ unwind.why = "idle" /\ phase' = "lowering" /\ UNCHANGED <<blocks, cur, constructs, deferred>>
        /\ StartUnwind("return", 0, IF ReturnsValue THEN cur ELSE NoBlock)
    BY DEF Return, LowersStatement, InBody, Idle, Lowering
  <1> QED BY <1>1, DeferFacts, StartsLexical, SameBlocks

LEMMA LowerBreakDefers == ASSUME DeferInv, BuildInv', LowerBreak PROVE DeferInv'
  <1>1. /\ Lowering /\ unwind.why = "idle" /\ phase' = "lowering" /\ UNCHANGED <<blocks, cur, constructs, deferred>>
        /\ StartUnwind("break", JumpBase, NoBlock)
    BY DEF LowerBreak, LowersStatement, InBody, Idle, Lowering
  <1> QED BY <1>1, DeferFacts, StartsLexical, SameBlocks

LEMMA LowerContinueDefers == ASSUME DeferInv, BuildInv', LowerContinue PROVE DeferInv'
  <1>1. /\ Lowering /\ unwind.why = "idle" /\ phase' = "lowering" /\ UNCHANGED <<blocks, cur, constructs, deferred>>
        /\ StartUnwind("continue", JumpBase, NoBlock)
    BY DEF LowerContinue, LowersStatement, InBody, Idle, Lowering
  <1> QED BY <1>1, DeferFacts, StartsLexical, SameBlocks

LEMMA SkippedStatementDefers ==
  ASSUME DeferInv, BuildInv', NEW falls, NEW breaks, SkippedStatement(falls, breaks)
  PROVE  DeferInv'
  <1>1. /\ Lowering /\ unwind.why = "idle" /\ phase' = "lowering" /\ unwind' = unwind /\ ~ Open
        /\ UNCHANGED <<blocks, cur, constructs, deferred>>
    BY DEF SkippedStatement, InBody, Idle, Lowering
  <1> QED BY <1>1, SameBlocks

(* The current block is closed.                                            *)
LEMMA ClosedFlows ==
  ASSUME DeferInv, NEW t \in Term, t.kind \in {"br", "ret"}, Open, NEW bs2, bs2 = SetTerm(blocks, cur, t),
         \A c \in t.to : c \in 1..Len(blocks) /\ blocks[c].entry = LexicalOf(deferred, unwind), Lowering,
         t.kind = "ret" => LexicalOf(deferred, unwind) = <<>>
  PROVE  bs2 \in Seq(Block) /\ BlocksInOrder(bs2) /\ Kept(blocks, bs2)
  <1> DEFINE after == LexicalOf(deferred, unwind)
  <1>1. blocks \in Seq(Block) /\ cur \in 1..Len(blocks) /\ GraphInOrder(blocks) /\ Len(blocks) \in Nat
    BY DeferFacts, StateFacts
  <1>2. /\ bs2 \in Seq(Block) /\ Len(bs2) = Len(blocks)
        /\ bs2[cur].term = t /\ bs2[cur].ops = blocks[cur].ops /\ bs2[cur].entry = blocks[cur].entry
        /\ \A c \in 1..Len(blocks) : c # cur => bs2[c] = blocks[c]
    BY <1>1, SetTermIs
  <1>3. Kept(blocks, bs2)
    BY <1>1, <1>2 DEF Kept
  <1>4. Reaches(bs2[cur], after)
    <2>1. Reaches(blocks[cur], after)
      BY DeferFacts
    <2> HIDE DEF after
    <2> QED BY <1>2, <2>1, SameReaches
  <1>5. EndsWith(bs2, cur, after)
    BY <1>2, <1>3 DEF EndsWith, Kept
  <1> HIDE DEF after
  <1>6. BlocksInOrder(bs2)
    <2>1. \A b \in 1..Len(bs2) : \/ b \in 1..Len(blocks) /\ bs2[b].term = blocks[b].term /\ bs2[b].ops = blocks[b].ops
                                 \/ bs2[b].term.kind \notin {"br", "ret"}
                                 \/ \E e : Reaches(bs2[b], e) /\ EndsWith(bs2, b, e)
      BY <1>2, <1>4, <1>5
    <2> QED BY <1>1, <1>2, <1>3, <2>1, DeferFacts, FlowStep
  <1> QED BY <1>2, <1>3, <1>6

LEMMA JumpsOut ==
  ASSUME DeferInv, BuildInv', Lowering, phase' = "lowering", unwind.why \in {"return", "break", "continue"}, unwind' = NoUnwind,
         BlocksInOrder(blocks'), Kept(blocks, blocks'), blocks'[cur].term.kind # "none", UNCHANGED <<cur, constructs, deferred>>
  PROVE  DeferInv'
  <1>1. constructs[Len(constructs)].kind # "switch" /\ ~ constructs[Len(constructs)].left
    BY DeferFacts, LoweringFacts DEF UnwindInOrder
  <1>2. DropsDone(unwind', constructs', deferred')
    BY <1>1 DEF DropsDone
  <1> QED BY <1>2, SameConstructs

LEMMA ReturnUnwoundDefers == ASSUME DeferInv, BuildInv', ReturnUnwound PROVE DeferInv'
  <1> DEFINE t == Ret(ReturnedValue(unwind))
  <1>1. /\ Lowering /\ phase' = "lowering" /\ unwind.why = "return" /\ (~Open \/ unwind.next = unwind.base)
        /\ blocks' = (IF Open THEN SetTerm(blocks, cur, t) ELSE blocks) /\ unwind' = NoUnwind /\ UNCHANGED <<cur, constructs, deferred>>
    BY DEF ReturnUnwound, Unwound, Lowering, SetTermIfOpen, Open
  <1>2. t \in Term /\ t.kind = "ret" /\ t.to = {}
    <2>1. ReturnedValue(unwind) \in Nat
      BY DeferFacts, StateFacts, StateTypes DEF ReturnedValue
    <2> QED BY <2>1, TermTypes
  <1>3. Open => LexicalOf(deferred, unwind) = <<>>
    <2>1. unwind.base = 0
      BY <1>1, DeferFacts, LoweringFacts DEF UnwindInOrder
    <2>2. deferred \in Seq(Defer)
      BY DeferFacts, StateFacts
    <2> QED BY <1>1, <2>1, <2>2, PrefixIs DEF LexicalOf
  <1>4. BlocksInOrder(blocks') /\ Kept(blocks, blocks') /\ blocks'[cur].term.kind # "none"
    <2>1. CASE Open
      <3> HIDE DEF t
      <3>1. blocks' = SetTerm(blocks, cur, t)
        BY <1>1, <2>1
      <3>2. blocks' \in Seq(Block) /\ BlocksInOrder(blocks') /\ Kept(blocks, blocks')
        BY <1>1, <1>2, <1>3, <2>1, <3>1, ClosedFlows
      <3>3. blocks'[cur].term = t
        BY <1>2, <3>1, DeferFacts, StateFacts, SetTermIs
      <3> QED BY <1>2, <3>2, <3>3
    <2>2. CASE ~ Open
      BY <1>1, <2>2, DeferFacts, StateFacts, KeptSame DEF Open, IsOpen
    <2> QED BY <2>1, <2>2
  <1> QED BY <1>1, <1>4, JumpsOut

LEMMA JumpUnwoundDefers == ASSUME DeferInv, BuildInv', JumpUnwound PROVE DeferInv'
  <1> DEFINE t == Br({JumpTarget})
  <1>1. /\ Lowering /\ phase' = "lowering" /\ unwind.why \in {"break", "continue"} /\ (~Open \/ unwind.next = unwind.base)
        /\ blocks' = (IF Open THEN SetTerm(blocks, cur, t) ELSE blocks) /\ unwind' = NoUnwind /\ UNCHANGED <<cur, constructs, deferred>>
    BY DEF JumpUnwound, Unwound, Lowering, SetTermIfOpen, Open, JumpTarget
  <1>2. ASSUME Open PROVE JumpTarget \in 1..Len(blocks) /\ blocks[JumpTarget].entry = LexicalOf(deferred, unwind)
    <2>1. loop_state.inside /\ unwind.base = loop_state.base /\ unwind.next = unwind.base
      BY <1>1, <1>2, DeferFacts, LoweringFacts DEF UnwindInOrder
    <2>2. PICK k \in 1..Len(constructs) : constructs[k].kind = "loop" /\ OfLoop(blocks, loop_state, constructs[k])
      BY <1>1, <2>1, DeferFacts, InnermostLoop
    <2> DEFINE f == constructs[k]  e == LexicalOf(deferred, unwind)
    <2>3. JumpTarget = (IF unwind.why = "break" THEN f.merge ELSE f.other) /\ loop_state.base = f.base
      BY <2>2 DEF JumpTarget, OfLoop
    <2>4. e = Prefix(deferred, f.base)
      BY <1>1, <2>1, <2>3 DEF LexicalOf
    <2>5. EntryIs(blocks, f, e)
      BY <1>1, <2>4, DeferFacts DEF EntriesInOrder
    <2>6. f.merge \in Nat /\ f.other \in Nat
      BY DeferFacts, StateFacts, FrameTypes
    <2> HIDE DEF f, e
    <2>7. f.kind = "loop"
      BY <2>2 DEF f
    <2>8. Waits(f, f.merge) /\ (f.other # f.cond => Waits(f, f.other))
      BY <2>7 DEF Waits
    <2> QED BY <2>3, <2>5, <2>6, <2>7, <2>8 DEF EntryIs, e
  <1>4. BlocksInOrder(blocks') /\ Kept(blocks, blocks') /\ blocks'[cur].term.kind # "none"
    <2>1. CASE Open
      <3>1. t \in Term /\ t.kind = "br" /\ t.to = {JumpTarget}
        <4>1. {JumpTarget} \in SUBSET BlockId
          BY <1>2, <2>1, DeferFacts, StateFacts DEF BlockId
        <4> QED BY <4>1, TermTypes
      <3> HIDE DEF t
      <3>2. blocks' = SetTerm(blocks, cur, t) /\ \A c \in t.to : c \in 1..Len(blocks) /\ blocks[c].entry = LexicalOf(deferred, unwind)
        BY <1>1, <1>2, <2>1, <3>1
      <3>3. blocks' \in Seq(Block) /\ BlocksInOrder(blocks') /\ Kept(blocks, blocks')
        BY <1>1, <2>1, <3>1, <3>2, ClosedFlows
      <3>4. blocks'[cur].term = t
        BY <3>1, <3>2, DeferFacts, StateFacts, SetTermIs
      <3> QED BY <3>1, <3>3, <3>4
    <2>2. CASE ~ Open
      BY <1>1, <2>2, DeferFacts, StateFacts, KeptSame DEF Open, IsOpen
    <2> QED BY <2>1, <2>2
  <1> QED BY <1>1, <1>4, JumpsOut

(* Instructions are emitted in the current block, which is open.           *)
LEMMA EmittedFlows ==
  ASSUME DeferInv, Lowering, Open, NEW o \in {"reg", "run"}, NEW d \in Defer, NEW after \in Seq(Defer),
         OpStep(LexicalOf(deferred, unwind), [op |-> o, defer |-> d], after), NEW bs2, bs2 = Emit(blocks, cur, o, d)
  PROVE  /\ bs2 \in Seq(Block) /\ BlocksInOrder(bs2) /\ Kept(blocks, bs2) /\ Len(bs2) = Len(blocks)
         /\ Reaches(bs2[cur], after) /\ bs2[cur].term = blocks[cur].term
  <1> DEFINE i == [op |-> o, defer |-> d]
  <1>1. blocks \in Seq(Block) /\ cur \in 1..Len(blocks) /\ GraphInOrder(blocks) /\ Len(blocks) \in Nat /\ blocks[cur] \in Block
    BY DeferFacts, StateFacts
  <1>2. /\ bs2 \in Seq(Block) /\ Len(bs2) = Len(blocks)
        /\ bs2[cur].term = blocks[cur].term /\ bs2[cur].ops = Append(blocks[cur].ops, i) /\ bs2[cur].entry = blocks[cur].entry
        /\ \A c \in 1..Len(blocks) : c # cur => bs2[c] = blocks[c]
    BY SMTT(30), <1>1, EmitIs
  <1>3. Kept(blocks, bs2)
    BY <1>1, <1>2 DEF Kept
  <1>4. i \in Op
    BY DEF Op
  <1>5. Reaches(blocks[cur], LexicalOf(deferred, unwind))
    BY DeferFacts
  <1> HIDE DEF i
  <1>6. OpStep(LexicalOf(deferred, unwind), i, after)
    BY DEF i
  <1>7. Reaches(bs2[cur], after)
    BY <1>1, <1>2, <1>4, <1>5, <1>6, EmitReaches
  <1>8. BlocksInOrder(bs2)
    <2>1. \A b \in 1..Len(bs2) : \/ b \in 1..Len(blocks) /\ bs2[b].term = blocks[b].term /\ bs2[b].ops = blocks[b].ops
                                 \/ bs2[b].term.kind \notin {"br", "ret"}
                                 \/ \E e : Reaches(bs2[b], e) /\ EndsWith(bs2, b, e)
      BY <1>2 DEF Open, IsOpen
    <2> QED BY <1>1, <1>2, <1>3, <2>1, DeferFacts, FlowStep
  <1> QED BY <1>2, <1>3, <1>7, <1>8

(* The frames' defers are a part of those registered.                      *)
LEMMA FrameBases ==
  ASSUME BuildInv, Lowering
  PROVE  \A i \in 1..Len(constructs) : constructs[i].base \in 0..constructs[Len(constructs)].base /\ constructs[i].base \in 0..Len(deferred)
  <1> SUFFICES ASSUME NEW i \in 1..Len(constructs)
               PROVE  constructs[i].base \in 0..constructs[Len(constructs)].base /\ constructs[i].base \in 0..Len(deferred)
    OBVIOUS
  <1>1. Len(constructs) \in 1..Len(constructs) /\ i <= Len(constructs)
    BY StateFacts
  <1>2. constructs[i].base \in Nat /\ constructs[Len(constructs)].base \in Nat /\ Len(deferred) \in Nat
    BY <1>1, StateFacts, FrameTypes
  <1>3. constructs[i].base <= constructs[Len(constructs)].base
    BY <1>1, LoweringFacts DEF FramesInOrder
  <1>4. constructs[Len(constructs)].base <= Len(deferred)
    BY BaseFacts, LoweringFacts
  <1>5. \A x, y, z \in Nat : x <= y /\ y <= z => x \in 0..y /\ x \in 0..z
    OBVIOUS
  <1> QED BY <1>2, <1>3, <1>4, <1>5

LEMMA RememberDeferDefers == ASSUME DeferInv, BuildInv', NEW k \in DeferKinds, RememberDefer(k) PROVE DeferInv'
  <1> DEFINE d == [site |-> sites, kind |-> k]
  <1>1. /\ Lowering /\ phase' = "lowering" /\ unwind.why = "idle" /\ Open /\ blocks' = Emit(blocks, cur, "reg", d)
        /\ deferred' = Append(deferred, d) /\ UNCHANGED <<cur, constructs, unwind>>
        /\ Innermost.kind # "switch" /\ ~ Innermost.left
    BY DEF RememberDefer, LowersStatement, InBody, Idle, Lowering
  <1>2. d \in Defer /\ deferred \in Seq(Defer) /\ Len(deferred) \in Nat /\ constructs \in Seq(ConstructFrame) /\ blocks \in Seq(Block)
    BY DeferFacts, StateFacts, Constants DEF Defer
  <1> HIDE DEF d
  <1>3. /\ deferred' \in Seq(Defer) /\ LexicalOf(deferred, unwind) = deferred /\ LexicalOf(deferred', unwind') = deferred'
        /\ OpStep(LexicalOf(deferred, unwind), [op |-> "reg", defer |-> d], deferred')
    BY <1>1, <1>2 DEF LexicalOf, OpStep
  <1>4. /\ blocks' \in Seq(Block) /\ BlocksInOrder(blocks') /\ Kept(blocks, blocks') /\ Reaches(blocks'[cur], deferred')
    BY <1>1, <1>2, <1>3, EmittedFlows
  <1>5. EntriesInOrder(blocks', constructs', deferred')
    <2>1. \A i \in 1..Len(constructs) : constructs[i].base \in 0..Len(deferred)
      BY <1>1, DeferFacts, FrameBases
    <2>2. \A i \in 1..Len(constructs) : Prefix(deferred', constructs[i].base) = Prefix(deferred, constructs[i].base)
      BY <1>1, <1>2, <2>1, PrefixOfMore
    <2> QED BY <1>1, <1>2, <1>4, <2>2, DeferFacts, EntriesStay
  <1>6. DropsDone(unwind', constructs', deferred')
    BY <1>1, DeferFacts, LoweringFacts DEF DropsDone
  <1> QED BY <1>1, <1>3, <1>4, <1>5, <1>6, StillLowers

LEMMA BlockUnwoundDefers == ASSUME DeferInv, BuildInv', BlockUnwound PROVE DeferInv'
  <1>1. /\ Lowering /\ phase' = "lowering" /\ unwind.why = "block" /\ (~Open \/ unwind.next = unwind.base)
        /\ deferred' = Prefix(deferred, unwind.base) /\ unwind' = NoUnwind /\ UNCHANGED <<blocks, cur, constructs>>
    BY DEF BlockUnwound, Unwound, Lowering, RestoreDeferCount
  <1>2. deferred \in Seq(Defer) /\ Len(deferred) \in Nat /\ constructs \in Seq(ConstructFrame) /\ blocks \in Seq(Block)
    BY DeferFacts, StateFacts
  <1>3. unwind.base = constructs[Len(constructs)].base /\ Len(constructs) \in 1..Len(constructs) /\ NoUnwind.why = "idle"
    BY <1>1, DeferFacts, StateFacts, LoweringFacts DEF UnwindInOrder, NoUnwind
  <1>4. \A i \in 1..Len(constructs) : constructs[i].base \in 0..unwind.base /\ constructs[i].base \in 0..Len(deferred)
    BY <1>1, <1>3, DeferFacts, FrameBases
  <1>5. unwind.base \in 0..Len(deferred) /\ Len(deferred') = unwind.base
    BY <1>1, <1>2, <1>3, <1>4, PrefixIs
  <1>6. EntriesInOrder(blocks', constructs', deferred')
    <2>1. \A i \in 1..Len(constructs) : Prefix(deferred', constructs[i].base) = Prefix(deferred, constructs[i].base)
      BY <1>1, <1>2, <1>4, <1>5, PrefixStays
    <2> QED BY <1>1, <1>2, <2>1, DeferFacts, EntriesStay, KeptSame
  <1>7. Open => Reaches(blocks[cur], deferred')
    BY <1>1, DeferFacts DEF LexicalOf
  <1>8. blocks'[cur'].term.kind = "none" => Reaches(blocks'[cur'], LexicalOf(deferred', unwind'))
    BY <1>1, <1>3, <1>7 DEF Open, IsOpen, LexicalOf
  <1>9. DropsDone(unwind', constructs', deferred')
    BY <1>1, <1>3, <1>5 DEF DropsDone
  <1>10. BlocksInOrder(blocks') /\ Kept(blocks, blocks')
    BY <1>1, <1>2, DeferFacts, KeptSame
  <1> QED BY <1>1, <1>6, <1>8, <1>9, <1>10, StillLowers

-----------------------------------------------------------------------------
(* New blocks. *)

(* The current block jumps to new blocks, which jump to new blocks; they   *)
(* all begin with the defers e, which are registered where it ends.        *)
Nests(bs, cu, e, bs2) ==
  /\ bs2 \in Seq(Block) /\ Len(bs) <= Len(bs2)
  /\ \A c \in 1..Len(bs) : c # cu => bs2[c] = bs[c]
  /\ bs2[cu].ops = bs[cu].ops /\ bs2[cu].entry = bs[cu].entry /\ bs2[cu].term.kind = "br"
  /\ \A x \in bs2[cu].term.to : x \in 1..Len(bs2) /\ x > Len(bs)
  /\ \A c \in 1..Len(bs2) : c > Len(bs) =>
       /\ bs2[c].ops = <<>> /\ bs2[c].entry = e /\ bs2[c].term.kind # "ret"
       /\ \A x \in bs2[c].term.to : x \in 1..Len(bs2) /\ x > Len(bs)

LEMMA NestFlows ==
  ASSUME NEW bs \in Seq(Block), NEW cu \in 1..Len(bs), GraphInOrder(bs), BlocksInOrder(bs), NEW e \in Seq(Defer), Reaches(bs[cu], e),
         NEW bs2, Nests(bs, cu, e, bs2)
  PROVE  BlocksInOrder(bs2) /\ Kept(bs, bs2) /\ \A c \in 1..Len(bs2) : c > Len(bs) => Reaches(bs2[c], e)
  <1> USE DEF Nests
  <1>1. Kept(bs, bs2)
    BY DEF Kept
  <1>2. Len(bs) \in Nat /\ Len(bs2) \in Nat /\ bs2 \in Seq(Block) /\ cu \in 1..Len(bs2)
    OBVIOUS
  <1>3. \A c \in 1..Len(bs2) : c > Len(bs) => Reaches(bs2[c], e)
    BY EmptyReaches
  <1>4. Reaches(bs2[cu], e)
    BY SameReaches
  <1>5. \A c \in 1..Len(bs2) : c = cu \/ c > Len(bs) => EndsWith(bs2, c, e)
    <2> SUFFICES ASSUME NEW c \in 1..Len(bs2), c = cu \/ c > Len(bs) PROVE EndsWith(bs2, c, e)
      OBVIOUS
    <2>1. bs2[c].term.kind # "ret" /\ \A x \in bs2[c].term.to : x \in 1..Len(bs2) /\ x > Len(bs)
      OBVIOUS
    <2>2. \A x \in bs2[c].term.to : bs2[x].entry = e
      BY <2>1
    <2> QED BY <2>1, <2>2 DEF EndsWith
  <1>6. \A b \in 1..Len(bs2) : \/ b \in 1..Len(bs) /\ bs2[b].term = bs[b].term /\ bs2[b].ops = bs[b].ops
                               \/ bs2[b].term.kind \notin {"br", "ret"}
                               \/ \E after : Reaches(bs2[b], after) /\ EndsWith(bs2, b, after)
    <2> SUFFICES ASSUME NEW b \in 1..Len(bs2)
                 PROVE  \/ b \in 1..Len(bs) /\ bs2[b].term = bs[b].term /\ bs2[b].ops = bs[b].ops
                        \/ \E after : Reaches(bs2[b], after) /\ EndsWith(bs2, b, after)
      OBVIOUS
    <2>1. CASE b = cu \/ b > Len(bs)
      BY <1>3, <1>4, <1>5, <2>1
    <2>2. CASE b # cu /\ b <= Len(bs)
      BY <1>2, <2>2
    <2> QED BY <1>2, <2>1, <2>2
  <1>7. BlocksInOrder(bs2)
    BY <1>1, <1>2, <1>6, FlowStep
  <1> QED BY <1>1, <1>3, <1>7

LEMMA KeptTwice == ASSUME NEW a \in Seq(Block), NEW b \in Seq(Block), NEW c \in Seq(Block), Kept(a, b), Kept(b, c) PROVE Kept(a, c)
  <1>1. Len(a) \in Nat /\ Len(b) \in Nat /\ Len(c) \in Nat /\ Len(a) <= Len(b) /\ Len(b) <= Len(c)
    BY DEF Kept
  <1>2. \A i \in 1..Len(a) : i \in 1..Len(b)
    BY <1>1
  <1> QED BY <1>1, <1>2 DEF Kept

LEMMA BranchNests ==
  ASSUME NEW bs \in Seq(Block), NEW cu \in 1..Len(bs), NEW e, NEW bs2, BranchOf(bs, cu, e, bs2)
  PROVE  Nests(bs, cu, e, bs2) /\ Len(bs2) = Len(bs) + 2
  <1> DEFINE l == Len(bs)
  <1>1. /\ bs2 \in Seq(Block) /\ Len(bs2) = l + 2 /\ l \in Nat
        /\ \A c \in 1..l : c # cu => bs2[c] = bs[c]
        /\ bs2[cu].term = Br({l + 1, l + 2}) /\ bs2[cu].ops = bs[cu].ops /\ bs2[cu].entry = bs[cu].entry
        /\ bs2[l + 1].term = Br({l + 2}) /\ bs2[l + 2].term = OpenTerm
        /\ \A c \in {l + 1, l + 2} : bs2[c].ops = <<>> /\ bs2[c].entry = e
    BY DEF BranchOf
  <1>2. /\ bs2[cu].term.kind = "br" /\ bs2[cu].term.to = {l + 1, l + 2} /\ bs2[l + 1].term.kind = "br" /\ bs2[l + 1].term.to = {l + 2}
        /\ bs2[l + 2].term.kind = "none" /\ bs2[l + 2].term.to = {}
    BY <1>1, TermTypes
  <1>3. \A c \in 1..(l + 2) : c > l => c \in {l + 1, l + 2}
    BY <1>1
  <1>4. \A x \in {l + 1, l + 2} : x \in 1..(l + 2) /\ x > l
    BY <1>1
  <1> HIDE DEF l
  <1>5. \A c \in 1..Len(bs2) : c > l =>
          /\ bs2[c].ops = <<>> /\ bs2[c].entry = e /\ bs2[c].term.kind # "ret"
          /\ \A x \in bs2[c].term.to : x \in 1..Len(bs2) /\ x > l
    <2> SUFFICES ASSUME NEW c \in {l + 1, l + 2}
                 PROVE  /\ bs2[c].ops = <<>> /\ bs2[c].entry = e /\ bs2[c].term.kind # "ret"
                        /\ \A x \in bs2[c].term.to : x \in {l + 1, l + 2}
      BY <1>1, <1>3, <1>4
    <2>1. CASE c = l + 1
      BY <1>1, <1>2, <2>1
    <2>2. CASE c = l + 2
      BY <1>1, <1>2, <2>2
    <2> QED BY <2>1, <2>2
  <1>6. l <= Len(bs2) /\ l = Len(bs)
    BY <1>1 DEF l
  <1> QED BY <1>1, <1>2, <1>4, <1>5, <1>6 DEF Nests

LEMMA DivergeNests ==
  ASSUME NEW bs \in Seq(Block), NEW cu \in 1..Len(bs), NEW e, NEW bs2, DivergeOf(bs, cu, e, bs2)
  PROVE  Nests(bs, cu, e, bs2) /\ Len(bs2) = Len(bs) + 3
  <1> DEFINE l == Len(bs)  N == {l + 1, l + 2, l + 3}
  <1>1. /\ bs2 \in Seq(Block) /\ Len(bs2) = l + 3 /\ l \in Nat
        /\ \A c \in 1..l : c # cu => bs2[c] = bs[c]
        /\ bs2[cu].term = Br({l + 1}) /\ bs2[cu].ops = bs[cu].ops /\ bs2[cu].entry = bs[cu].entry
        /\ bs2[l + 1].term = Br({l + 2}) /\ bs2[l + 2].term = Br({l + 1}) /\ bs2[l + 3].term = UnreachableTerm
    BY DEF DivergeOf
  <1>11. \A c \in N : bs2[c].ops = <<>> /\ bs2[c].entry = e
    BY DEF DivergeOf
  <1>2. /\ bs2[cu].term.kind = "br" /\ bs2[cu].term.to = {l + 1} /\ bs2[l + 1].term.kind = "br" /\ bs2[l + 1].term.to = {l + 2}
        /\ bs2[l + 2].term.kind = "br" /\ bs2[l + 2].term.to = {l + 1}
        /\ bs2[l + 3].term.kind = "unreachable" /\ bs2[l + 3].term.to = {}
    BY <1>1, TermTypes
  <1>3. \A c \in 1..(l + 3) : c > l => c \in N
    BY SMTT(60), <1>1
  <1>4. \A x \in N : x \in 1..(l + 3) /\ x > l
    BY <1>1
  <1>40. l + 1 \in N /\ l + 2 \in N
    OBVIOUS
  <1>41. \A c \in N : c = l + 1 \/ c = l + 2 \/ c = l + 3
    OBVIOUS
  <1> HIDE DEF l, N
  <1>5. \A c \in 1..Len(bs2) : c > l =>
          /\ bs2[c].ops = <<>> /\ bs2[c].entry = e /\ bs2[c].term.kind # "ret"
          /\ \A x \in bs2[c].term.to : x \in 1..Len(bs2) /\ x > l
    <2> SUFFICES ASSUME NEW c \in N
                 PROVE  /\ bs2[c].ops = <<>> /\ bs2[c].entry = e /\ bs2[c].term.kind # "ret"
                        /\ \A x \in bs2[c].term.to : x \in N
      BY <1>1, <1>3, <1>4
    <2>1. CASE c = l + 1
      BY <1>11, <1>2, <1>40, <2>1
    <2>2. CASE c = l + 2
      BY <1>11, <1>2, <1>40, <2>2
    <2>3. CASE c = l + 3
      BY <1>11, <1>2, <2>3
    <2> QED BY <1>41, <2>1, <2>2, <2>3
  <1>6. l <= Len(bs2) /\ l = Len(bs)
    BY <1>1 DEF l
  <1> QED BY <1>1, <1>2, <1>4, <1>40, <1>5, <1>6 DEF Nests

-----------------------------------------------------------------------------
(* A deferred statement is lowered. *)

LEMMA NestsOn ==
  ASSUME DeferInv, BuildInv', Lowering, phase' = "lowering", NEW bs \in Seq(Block), cur \in 1..Len(bs), GraphInOrder(bs),
         BlocksInOrder(bs), Kept(blocks, bs), NEW e \in Seq(Defer), Reaches(bs[cur], e), Nests(bs, cur, e, blocks'),
         cur' > Len(bs), e = LexicalOf(deferred', unwind'), unwind'.why # "idle", UNCHANGED <<constructs, deferred>>
  PROVE  DeferInv'
  <1>1. BlocksInOrder(blocks') /\ Kept(bs, blocks') /\ \A c \in 1..Len(blocks') : c > Len(bs) => Reaches(blocks'[c], e)
    BY NestFlows
  <1>2. blocks \in Seq(Block) /\ blocks' \in Seq(Block) /\ cur' \in 1..Len(blocks')
    BY DeferFacts, StateFacts DEF BuildInv, LoweringTypeOK
  <1>3. Kept(blocks, blocks')
    BY <1>1, <1>2, KeptTwice
  <1>4. Reaches(blocks'[cur'], LexicalOf(deferred', unwind'))
    BY <1>1, <1>2
  <1>5. DropsDone(unwind', constructs', deferred')
    BY DEF DropsDone
  <1> QED BY <1>1, <1>3, <1>4, <1>5, SameConstructs

LEMMA RunDeferredDefers == ASSUME DeferInv, BuildInv', RunDeferred PROVE DeferInv'
  <1> DEFINE d == NextDeferred(unwind)  lexical == Prefix(deferred, unwind.next - 1)  ran == Emit(blocks, cur, "run", d)
  <1>1. /\ Lowering /\ unwind.why # "idle" /\ Open /\ unwind.next > unwind.base /\ unwind' = [unwind EXCEPT !.next = @ - 1]
        /\ UNCHANGED <<constructs, deferred>>
    BY DEF RunDeferred
  <1>2. /\ d.kind = "plain" => blocks' = ran /\ UNCHANGED <<phase, cur>>
        /\ d.kind = "branch" => blocks' = LowerBranch(ran, cur, lexical) /\ cur' = Len(blocks) + 2 /\ UNCHANGED phase
        /\ d.kind = "diverge" => blocks' = LowerDiverge(ran, cur, lexical) /\ cur' = Len(blocks) + 3 /\ UNCHANGED phase
        /\ d.kind = "declare" => \/ phase' = "failed" /\ blocks' = blocks
                                 \/ blocks' = ran /\ UNCHANGED <<phase, cur>>
    BY DEF RunDeferred, New
  <1>3. unwind.next \in 1..Len(deferred) /\ unwind.next - 1 \in 0..Len(deferred) /\ deferred \in Seq(Defer)
    <2>1. unwind.next \in Nat /\ unwind.base \in Nat /\ unwind.next <= Len(deferred) /\ Len(deferred) \in Nat /\ deferred \in Seq(Defer)
      BY <1>1, DeferFacts, LoweringFacts, StateFacts, StateTypes DEF UnwindInOrder
    <2> QED BY <1>1, <2>1
  <1>4. d \in Defer /\ d.kind \in AllDeferKinds /\ lexical \in Seq(Defer) /\ d = deferred[unwind.next]
    <2>1. d \in Defer /\ d = deferred[unwind.next]
      BY <1>3 DEF NextDeferred
    <2>2. lexical \in Seq(Defer)
      BY <1>3, PrefixIs
    <2> QED BY <2>1, <2>2 DEF Defer
  <1>5. LexicalOf(deferred, unwind) = Append(lexical, d)
    BY <1>1, <1>3, <1>4, PrefixIs DEF LexicalOf
  <1>6. unwind'.why # "idle" /\ lexical = LexicalOf(deferred', unwind')
    <2>1. unwind \in Unwind
      BY DeferFacts, StateFacts
    <2>2. unwind'.why = unwind.why /\ unwind'.next = unwind.next - 1
      BY <1>1, <2>1 DEF Unwind
    <2> QED BY <1>1, <2>2 DEF LexicalOf
  <1>7. OpStep(LexicalOf(deferred, unwind), [op |-> "run", defer |-> d], lexical)
    <2> HIDE DEF d, lexical
    <2> QED BY <1>5 DEF OpStep
  <1>8. /\ ran \in Seq(Block) /\ Len(ran) = Len(blocks) /\ ran[cur].term = blocks[cur].term /\ GraphInOrder(ran)
    BY <1>1, <1>4, DeferFacts, EmitInOrder DEF InOrder
  <1> HIDE DEF d, lexical
  <1>80. ran = Emit(blocks, cur, "run", d)
    OBVIOUS
  <1> HIDE DEF ran
  <1>9. BlocksInOrder(ran) /\ Kept(blocks, ran) /\ Reaches(ran[cur], lexical)
    BY <1>1, <1>4, <1>7, <1>80, EmittedFlows
  <1>10. phase = "lowering" /\ cur \in 1..Len(ran) /\ Len(blocks) \in Nat /\ ran[cur].term.to = {}
    <2>1. blocks[cur].term.to = {} /\ cur \in 1..Len(blocks) /\ Len(blocks) \in Nat
      BY <1>1, DeferFacts, StateFacts DEF GraphInOrder, Open, IsOpen
    <2> QED BY <1>1, <1>8, <2>1 DEF Lowering
  <1>11. CASE blocks' = ran /\ phase' = phase /\ cur' = cur
    <2>1. DropsDone(unwind', constructs', deferred')
      BY <1>6 DEF DropsDone
    <2> QED BY <1>1, <1>6, <1>9, <1>10, <1>11, <2>1, SameConstructs
  <1>12. CASE d.kind = "branch"
    <2>1. BranchOf(ran, cur, lexical, blocks')
      BY <1>2, <1>4, <1>8, <1>10, <1>12, BranchIs
    <2>2. Nests(ran, cur, lexical, blocks')
      BY <1>8, <1>10, <2>1, BranchNests
    <2>3. cur' > Len(ran) /\ phase' = "lowering"
      BY <1>2, <1>8, <1>10, <1>12
    <2> QED BY <1>1, <1>4, <1>6, <1>8, <1>9, <1>10, <2>2, <2>3, NestsOn
  <1>13. CASE d.kind = "diverge"
    <2>1. DivergeOf(ran, cur, lexical, blocks')
      BY <1>2, <1>4, <1>8, <1>10, <1>13, DivergeIs
    <2>2. Nests(ran, cur, lexical, blocks')
      BY <1>8, <1>10, <2>1, DivergeNests
    <2>3. cur' > Len(ran) /\ phase' = "lowering"
      BY <1>2, <1>8, <1>10, <1>13
    <2> QED BY <1>1, <1>4, <1>6, <1>8, <1>9, <1>10, <2>2, <2>3, NestsOn
  <1>14. CASE phase' = "failed" /\ blocks' = blocks
    BY <1>14, DeferFacts DEF DeferInv, Lowering, Running
  <1> QED BY <1>2, <1>4, <1>11, <1>12, <1>13, <1>14 DEF AllDeferKinds

-----------------------------------------------------------------------------
(* The frames of the constructs. *)

(* A construct begins: its frame is f.                                     *)
LEMMA PushDefers ==
  ASSUME DeferInv, BuildInv', Lowering, phase' = "lowering", NEW f \in ConstructFrame, constructs' = Append(constructs, f),
         f.base = Len(deferred), deferred' = deferred, blocks' \in Seq(Block), BlocksInOrder(blocks'), Kept(blocks, blocks'),
         EntryIs(blocks', f, deferred), unwind'.why = "idle",
         blocks'[cur'].term.kind = "none" => Reaches(blocks'[cur'], deferred)
  PROVE  DeferInv'
  <1>1. constructs \in Seq(ConstructFrame) /\ Len(constructs) \in Nat /\ Len(constructs) > 0 /\ deferred \in Seq(Defer) /\ blocks \in Seq(Block)
    BY DeferFacts, StateFacts, LoweringFacts
  <1>2. /\ constructs' \in Seq(ConstructFrame) /\ Len(constructs') = Len(constructs) + 1 /\ constructs'[Len(constructs) + 1] = f
        /\ \A i \in 1..Len(constructs) : constructs'[i] = constructs[i]
    BY <1>1, FsPush
  <1>3. Prefix(deferred', f.base) = deferred
    BY <1>1, PrefixIs
  <1>4. EntriesInOrder(blocks', constructs', deferred')
    <2>1. \A i \in 1..Len(constructs') : i \in 1..Len(constructs) \/ i = Len(constructs) + 1
      BY <1>1, <1>2
    <2>2. \A i \in 1..Len(constructs') : \/ i \in 1..Len(constructs) /\ constructs'[i] = constructs[i]
                                            /\ Prefix(deferred', constructs[i].base) = Prefix(deferred, constructs[i].base)
                                         \/ EntryIs(blocks', constructs'[i], Prefix(deferred', constructs'[i].base))
      BY <1>2, <1>3, <2>1
    <2> QED BY <1>1, <2>2, DeferFacts, EntriesStay
  <1>5. DropsDone(unwind', constructs', deferred')
    BY <1>2 DEF DropsDone
  <1>6. constructs'[1].base = constructs[1].base
    BY <1>1, <1>2
  <1>7. LexicalOf(deferred', unwind') = deferred
    BY DEF LexicalOf
  <1> QED BY <1>4, <1>5, <1>6, <1>7, StillLowers

(* ... goes on as f.                                                       *)
LEMMA TopDefers ==
  ASSUME DeferInv, BuildInv', Lowering, phase' = "lowering", NEW f \in ConstructFrame,
         constructs' = Append(SubSeq(constructs, 1, Len(constructs) - 1), f),
         f.base = Innermost.base, deferred' = deferred, blocks' \in Seq(Block), BlocksInOrder(blocks'), Kept(blocks, blocks'),
         EntryIs(blocks', f, Prefix(deferred, f.base)),
         unwind'.why = "idle" /\ (f.kind = "switch" \/ f.left) => Len(deferred) = f.base,
         blocks'[cur'].term.kind = "none" => Reaches(blocks'[cur'], LexicalOf(deferred, unwind'))
  PROVE  DeferInv'
  <1>1. /\ constructs \in Seq(ConstructFrame) /\ Len(constructs) \in Nat /\ Len(constructs) > 0 /\ deferred \in Seq(Defer) /\ blocks \in Seq(Block)
        /\ Innermost = constructs[Len(constructs)]
    BY DeferFacts, StateFacts, LoweringFacts
  <1>2. /\ constructs' \in Seq(ConstructFrame) /\ Len(constructs') = Len(constructs) /\ constructs'[Len(constructs)] = f
        /\ \A i \in 1..(Len(constructs) - 1) : constructs'[i] = constructs[i]
    BY <1>1, FsTop
  <1>4. EntriesInOrder(blocks', constructs', deferred')
    <2>1. \A i \in 1..Len(constructs') : i \in 1..Len(constructs) /\ (i \in 1..(Len(constructs) - 1) \/ i = Len(constructs))
      BY <1>1, <1>2
    <2>2. \A i \in 1..Len(constructs') : \/ i \in 1..Len(constructs) /\ constructs'[i] = constructs[i]
                                            /\ Prefix(deferred', constructs[i].base) = Prefix(deferred, constructs[i].base)
                                         \/ EntryIs(blocks', constructs'[i], Prefix(deferred', constructs'[i].base))
      BY <1>2, <2>1
    <2> QED BY <1>1, <2>2, DeferFacts, EntriesStay
  <1>5. DropsDone(unwind', constructs', deferred')
    BY <1>2 DEF DropsDone
  <1>6. constructs'[1].base = constructs[1].base
    <2>1. CASE Len(constructs) = 1
      BY <1>1, <1>2, <2>1
    <2>2. CASE Len(constructs) # 1
      <3>0. \A n \in Nat : n > 0 /\ n # 1 => 1 \in 1..(n - 1)
        OBVIOUS
      <3>1. 1 \in 1..(Len(constructs) - 1)
        BY <1>1, <2>2, <3>0
      <3> QED BY <1>2, <3>1
    <2> QED BY <2>1, <2>2
  <1>7. LexicalOf(deferred', unwind') = LexicalOf(deferred, unwind')
    OBVIOUS
  <1> QED BY <1>4, <1>5, <1>6, <1>7, StillLowers

(* ... and ends.                                                           *)
LEMMA PopDefers ==
  ASSUME DeferInv, BuildInv', Lowering, phase' = "lowering", Innermost.kind # "function",
         constructs' = SubSeq(constructs, 1, Len(constructs) - 1),
         deferred' = deferred, blocks' \in Seq(Block), BlocksInOrder(blocks'), Kept(blocks, blocks'),
         unwind'.why = "idle", blocks'[cur'].term.kind = "none" => Reaches(blocks'[cur'], deferred)
  PROVE  DeferInv'
  <1>1. /\ constructs \in Seq(ConstructFrame) /\ Len(constructs) \in Nat /\ Len(constructs) > 1 /\ Len(constructs) > 0 /\ blocks \in Seq(Block)
        /\ FramesInOrder(blocks, cur, constructs)
    BY DeferFacts, StateFacts, LoweringFacts, BaseFacts
  <1>2. /\ constructs' \in Seq(ConstructFrame) /\ Len(constructs') = Len(constructs) - 1
        /\ \A i \in 1..(Len(constructs) - 1) : constructs'[i] = constructs[i]
    BY <1>1, FsPop
  <1>3. 1 \in 1..(Len(constructs) - 1) /\ Len(constructs) - 1 \in 1..(Len(constructs) - 1) /\ \A i \in 1..(Len(constructs) - 1) : i \in 1..Len(constructs)
    BY <1>1
  <1>4. EntriesInOrder(blocks', constructs', deferred')
    <2>2. \A i \in 1..Len(constructs') : \/ i \in 1..Len(constructs) /\ constructs'[i] = constructs[i]
                                            /\ Prefix(deferred', constructs[i].base) = Prefix(deferred, constructs[i].base)
                                         \/ EntryIs(blocks', constructs'[i], Prefix(deferred', constructs'[i].base))
      BY <1>2, <1>3
    <2> QED BY <1>1, <2>2, DeferFacts, EntriesStay
  <1>5. DropsDone(unwind', constructs', deferred')
    BY <1>1, <1>2, <1>3 DEF DropsDone, FramesInOrder
  <1>6. constructs'[1].base = constructs[1].base
    BY <1>2, <1>3
  <1>7. LexicalOf(deferred', unwind') = deferred
    BY DEF LexicalOf
  <1> QED BY <1>4, <1>5, <1>6, <1>7, StillLowers

LEMMA LowerBlockDefers == ASSUME DeferInv, BuildInv', LowerBlock PROVE DeferInv'
  <1> DEFINE f == NewConstruct("block")
  <1>1. /\ Lowering /\ phase' = "lowering" /\ unwind.why = "idle" /\ constructs' = Append(constructs, f)
        /\ UNCHANGED <<blocks, cur, deferred, unwind>>
    BY DEF LowerBlock, LowersStatement, InBody, Idle, PushConstruct, Lowering
  <1>2. f \in ConstructFrame /\ f.kind = "block" /\ f.base = Len(deferred)
    BY DeferFacts, NewConstructIs DEF FrameKinds
  <1> HIDE DEF f
  <1>3. EntryIs(blocks', f, deferred)
    BY <1>2 DEF EntryIs, Waits
  <1>4. blocks' \in Seq(Block) /\ BlocksInOrder(blocks') /\ Kept(blocks, blocks')
    BY <1>1, DeferFacts, StateFacts, KeptSame
  <1>5. blocks'[cur'].term.kind = "none" => Reaches(blocks'[cur'], deferred)
    BY <1>1, DeferFacts DEF LexicalOf, Open, IsOpen
  <1> QED BY <1>1, <1>2, <1>3, <1>4, <1>5, PushDefers

LEMMA BlockLeaveDefers == ASSUME DeferInv, BuildInv', BlockLeave PROVE DeferInv'
  <1>1. /\ Lowering /\ phase' = "lowering" /\ unwind.why = "idle" /\ constructs' = SubSeq(constructs, 1, Len(constructs) - 1)
        /\ UNCHANGED <<blocks, cur, deferred, unwind>> /\ Innermost.kind # "function"
    BY DEF BlockLeave, BlockDone, AtConstruct, Idle, PopConstruct, Outward, Lowering
  <1>4. blocks' \in Seq(Block) /\ BlocksInOrder(blocks') /\ Kept(blocks, blocks')
    BY <1>1, DeferFacts, StateFacts, KeptSame
  <1>5. blocks'[cur'].term.kind = "none" => Reaches(blocks'[cur'], deferred)
    BY <1>1, DeferFacts DEF LexicalOf, Open, IsOpen
  <1> QED BY <1>1, <1>4, <1>5, PopDefers

(* What the construct on top starts its blocks with.                       *)
LEMMA TopEntries ==
  ASSUME DeferInv, Lowering
  PROVE  /\ EntryIs(blocks, Innermost, Prefix(deferred, Innermost.base))
         /\ unwind.why = "idle" /\ (Innermost.kind = "switch" \/ Innermost.left) =>
              Len(deferred) = Innermost.base /\ Prefix(deferred, Innermost.base) = deferred
  <1>1. Innermost = constructs[Len(constructs)] /\ Len(constructs) \in 1..Len(constructs) /\ deferred \in Seq(Defer)
    BY DeferFacts, StateFacts, LoweringFacts
  <1>2. EntryIs(blocks, Innermost, Prefix(deferred, Innermost.base))
    BY <1>1, DeferFacts DEF EntriesInOrder
  <1>3. unwind.why = "idle" /\ (Innermost.kind = "switch" \/ Innermost.left) => Len(deferred) = Innermost.base
    BY <1>1, DeferFacts DEF DropsDone
  <1>4. Prefix(deferred, Len(deferred)) = deferred
    BY <1>1, PrefixIs
  <1> QED BY <1>2, <1>3, <1>4

LEMMA LowerBlockEndDefers == ASSUME DeferInv, BuildInv', LowerBlockEnd PROVE DeferInv'
  <1> DEFINE f == [Innermost EXCEPT !.left = TRUE]
  <1>1. /\ Lowering /\ phase' = "lowering" /\ unwind.why = "idle" /\ StartUnwind("block", Innermost.base, NoBlock)
        /\ constructs' = Append(SubSeq(constructs, 1, Len(constructs) - 1), f)
        /\ UNCHANGED <<blocks, cur, deferred>>
    BY DEF LowerBlockEnd, InBody, Idle, Reframe, Outward, Lowering
  <1>2. /\ f \in ConstructFrame /\ f.kind = Innermost.kind /\ f.base = Innermost.base /\ f.merge = Innermost.merge
        /\ f.other = Innermost.other /\ f.cond = Innermost.cond /\ f.cases = Innermost.cases
    BY <1>1, DeferFacts, LoweringFacts DEF ConstructFrame
  <1> HIDE DEF f
  <1>3. EntryIs(blocks', f, Prefix(deferred, f.base))
    <2>1. \A b \in Nat : Waits(f, b) <=> Waits(Innermost, b)
      BY <1>2 DEF Waits
    <2>2. EntryIs(blocks, Innermost, Prefix(deferred, Innermost.base))
      BY <1>1, TopEntries
    <2> QED BY <1>1, <1>2, <2>1, <2>2 DEF EntryIs
  <1>4. blocks' \in Seq(Block) /\ BlocksInOrder(blocks') /\ Kept(blocks, blocks')
    BY <1>1, DeferFacts, StateFacts, KeptSame
  <1>5. LexicalOf(deferred, unwind') = LexicalOf(deferred, unwind) /\ unwind'.why # "idle"
    BY <1>1, DeferFacts, StartsLexical
  <1>6. blocks'[cur'].term.kind = "none" => Reaches(blocks'[cur'], LexicalOf(deferred, unwind'))
    BY <1>1, <1>5, DeferFacts DEF Open, IsOpen
  <1> QED BY <1>1, <1>2, <1>3, <1>4, <1>5, <1>6, TopDefers

-----------------------------------------------------------------------------
(* A construct begins. *)

LEMMA OpenedNests ==
  ASSUME NEW bs \in Seq(Block), NEW n \in Nat, NEW e, NEW b \in 1..Len(bs), NEW t, NEW bs2, OpenedOf(bs, n, e, b, t, bs2), t.kind = "br",
         \A x \in t.to : x > Len(bs) /\ x \in 1..(Len(bs) + n)
  PROVE  Nests(bs, b, e, bs2)
  <1>1. /\ bs2 \in Seq(Block) /\ Len(bs2) = Len(bs) + n /\ Len(bs) \in Nat
        /\ \A c \in 1..Len(bs) : c # b => bs2[c] = bs[c]
        /\ bs2[b].term = t /\ bs2[b].ops = bs[b].ops /\ bs2[b].entry = bs[b].entry
        /\ \A c \in 1..Len(bs2) : c > Len(bs) => bs2[c].term = OpenTerm /\ bs2[c].ops = <<>> /\ bs2[c].entry = e
    BY DEF OpenedOf
  <1>2. OpenTerm.kind = "none" /\ OpenTerm.to = {}
    BY TermTypes
  <1>3. Len(bs) <= Len(bs2)
    BY <1>1
  <1> QED BY <1>1, <1>2, <1>3 DEF Nests

LEMMA NestsMore ==
  ASSUME NEW bs \in Seq(Block), NEW cu \in 1..Len(bs), NEW e, NEW s1, Nests(bs, cu, e, s1), NEW c \in 1..Len(s1), c > Len(bs), NEW t, NEW bs2,
         Ended(s1, c, t, bs2), t.kind # "ret", \A x \in t.to : x > Len(bs) /\ x \in 1..Len(s1)
  PROVE  Nests(bs, cu, e, bs2)
  <1>1. /\ bs2 \in Seq(Block) /\ Len(bs2) = Len(s1) /\ bs2[c].term = t /\ bs2[c].ops = s1[c].ops /\ bs2[c].entry = s1[c].entry
        /\ \A x \in 1..Len(s1) : x # c => bs2[x] = s1[x]
    BY DEF Ended
  <1>2. /\ s1 \in Seq(Block) /\ Len(bs) <= Len(s1) /\ Len(bs) \in Nat /\ Len(s1) \in Nat
        /\ \A x \in 1..Len(bs) : x # cu => s1[x] = bs[x]
        /\ s1[cu].ops = bs[cu].ops /\ s1[cu].entry = bs[cu].entry /\ s1[cu].term.kind = "br"
        /\ \A x \in s1[cu].term.to : x \in 1..Len(s1) /\ x > Len(bs)
        /\ \A d \in 1..Len(s1) : d > Len(bs) =>
             /\ s1[d].ops = <<>> /\ s1[d].entry = e /\ s1[d].term.kind # "ret"
             /\ \A x \in s1[d].term.to : x \in 1..Len(s1) /\ x > Len(bs)
    BY DEF Nests
  <1>3. \A x \in 1..Len(bs) : x # c /\ x \in 1..Len(s1)
    BY <1>2
  <1>4. \A x \in 1..Len(bs) : bs2[x] = s1[x]
    BY <1>1, <1>3
  <1>5. \A d \in 1..Len(s1) : d > Len(bs) =>
             /\ bs2[d].ops = <<>> /\ bs2[d].entry = e /\ bs2[d].term.kind # "ret"
             /\ \A x \in bs2[d].term.to : x \in 1..Len(s1) /\ x > Len(bs)
    BY <1>1, <1>2
  <1> QED BY <1>1, <1>2, <1>4, <1>5 DEF Nests

LEMMA BeginDefers ==
  ASSUME DeferInv, BuildInv', LowersStatement, NEW f \in ConstructFrame, constructs' = Append(constructs, f), f.base = Len(deferred),
         UNCHANGED <<phase, deferred, unwind>>, Nests(blocks, cur, deferred, blocks'), cur' > Len(blocks) \/ cur' = cur,
         f.kind = "loop" => f.cond \in 1..Len(blocks') /\ f.cond > Len(blocks)
  PROVE  DeferInv'
  <1>1. Lowering /\ unwind.why = "idle" /\ Open /\ phase' = "lowering" /\ Lowering'
    BY DEF LowersStatement, InBody, Idle, Lowering
  <1>2. /\ blocks \in Seq(Block) /\ cur \in 1..Len(blocks) /\ GraphInOrder(blocks) /\ deferred \in Seq(Defer) /\ BlocksInOrder(blocks)
        /\ constructs \in Seq(ConstructFrame) /\ Len(constructs) \in Nat /\ WaitingInOrder(blocks, cur, constructs) /\ Len(blocks) \in Nat
    BY <1>1, DeferFacts, StateFacts, LoweringFacts
  <1>3. Reaches(blocks[cur], deferred)
    BY <1>1, DeferFacts DEF LexicalOf
  <1>4. BlocksInOrder(blocks') /\ Kept(blocks, blocks') /\ \A c \in 1..Len(blocks') : c > Len(blocks) => Reaches(blocks'[c], deferred)
    BY <1>2, <1>3, NestFlows
  <1>5. /\ blocks' \in Seq(Block) /\ blocks'[cur].term.kind = "br" /\ (\A c \in 1..Len(blocks) : c # cur => blocks'[c] = blocks[c])
        /\ \A c \in 1..Len(blocks') : c > Len(blocks) => blocks'[c].entry = deferred
    BY DEF Nests
  <1>6. cur' \in 1..Len(blocks') /\ WaitingInOrder(blocks', cur', constructs') /\ Len(blocks') \in Nat
    BY <1>1, <1>5 DEF BuildInv, LoweringTypeOK, LoweringInOrder
  <1>7. blocks'[cur'].term.kind = "none" => Reaches(blocks'[cur'], deferred)
    BY <1>4, <1>5, <1>6
  <1>8. /\ Len(constructs') = Len(constructs) + 1 /\ constructs'[Len(constructs) + 1] = f
        /\ \A i \in 1..Len(constructs) : constructs'[i] = constructs[i]
    BY <1>2, FsPush
  <1>9. ASSUME NEW b \in Nat, Waits(f, b) PROVE b \in 1..Len(blocks') /\ b > Len(blocks)
    <2>1. Len(constructs) + 1 \in 1..Len(constructs') /\ \A i \in 1..Len(constructs) : i \in 1..Len(constructs') /\ i # Len(constructs) + 1
      BY <1>2, <1>8
    <2>2. b \in 1..Len(blocks') /\ blocks'[b].term.kind = "none"
      BY <1>6, <1>8, <1>9, <2>1 DEF WaitingInOrder
    <2>3. ASSUME b \in 1..Len(blocks) PROVE FALSE
      <3>1. b # cur
        BY <1>5, <2>2
      <3>2. blocks[b].term.kind = "none"
        BY <1>5, <2>2, <2>3, <3>1
      <3>3. PICK i \in 1..Len(constructs) : Waits(constructs[i], b)
        BY <1>2, <2>3, <3>1, <3>2 DEF WaitingInOrder
      <3>4. Waits(constructs'[i], b) /\ Waits(constructs'[Len(constructs) + 1], b)
        BY <1>8, <1>9, <3>3
      <3>5. i = Len(constructs) + 1
        BY <1>6, <2>1, <3>3, <3>4 DEF WaitingInOrder
      <3> QED BY <2>1, <3>5
    <2> QED BY <1>2, <1>6, <2>2, <2>3
  <1>10. EntryIs(blocks', f, deferred)
    BY <1>5, <1>9 DEF EntryIs
  <1> QED BY <1>1, <1>4, <1>5, <1>7, <1>10, PushDefers

LEMMA LowerIfDefers == ASSUME DeferInv, BuildInv', NEW hasElse \in BOOLEAN, LowerIf(hasElse) PROVE DeferInv'
  <1> DEFINE l == Len(blocks)  merge == l + 2  else == IF hasElse THEN l + 3 ELSE l + 2
             n == IF hasElse THEN 3 ELSE 2  X == {l + 1, else}  t == Br(X)
             f == [NewConstruct("then") EXCEPT !.merge = merge, !.other = else]
  <1>1. /\ LowersStatement /\ blocks' = SetTerm(AddBlocks(blocks, n, deferred), cur, t)
        /\ cur' = l + 1 /\ constructs' = Append(constructs, f)
        /\ UNCHANGED <<phase, deferred, unwind>>
    BY DEF LowerIf, New, PushConstruct
  <1>2. Lowering /\ Open
    BY <1>1 DEF LowersStatement, InBody, Idle
  <1>3. l \in Nat /\ n \in Nat /\ merge \in Nat /\ else \in Nat /\ X \in SUBSET BlockId /\ \A x \in X : x > l /\ x \in 1..(l + n)
    BY DeferFacts, StateFacts DEF BlockId
  <1>4. t \in Term /\ t.kind = "br" /\ t.to = X
    BY <1>3, TermTypes
  <1>5. f \in ConstructFrame /\ f.kind = "then" /\ f.base = Len(deferred)
    <2> DEFINE g == NewConstruct("then")
    <2>1. g \in ConstructFrame /\ g.kind = "then" /\ g.base = Len(deferred)
      BY DeferFacts, NewConstructIs DEF FrameKinds
    <2>2. merge \in Nat /\ else \in Nat
      BY <1>3
    <2> HIDE DEF g, merge, else
    <2>3. LET h == [g EXCEPT !.merge = merge, !.other = else] IN h \in ConstructFrame /\ h.kind = "then" /\ h.base = Len(deferred)
      BY <2>1, <2>2 DEF ConstructFrame
    <2> QED BY <2>3 DEF g
  <1> HIDE DEF f, t, X, n
  <1>6. OpenedOf(blocks, n, deferred, cur, t, blocks')
    BY <1>1, <1>2, <1>3, <1>4, DeferFacts, OpenBlock, StateFacts, OpenedIs
  <1>7. Nests(blocks, cur, deferred, blocks')
    BY <1>3, <1>4, <1>6, DeferFacts, StateFacts, OpenedNests
  <1>8. cur' > Len(blocks)
    BY <1>1, <1>3
  <1> QED BY <1>1, <1>5, <1>7, <1>8, BeginDefers

LEMMA LowerLoopDefers ==
  ASSUME DeferInv, BuildInv', NEW known \in {"unknown", "true", "false"}, NEW hasPost \in BOOLEAN, LowerLoop(known, hasPost)
  PROVE  DeferInv'
  <1> DEFINE l == Len(blocks)  cond == l + 1  body == l + 2
             exit == IF hasPost THEN l + 4 ELSE l + 3  post == IF hasPost THEN l + 3 ELSE l + 1
             n == IF hasPost THEN 4 ELSE 3
             targets == IF known = "true" THEN {body} ELSE IF known = "false" THEN {exit} ELSE {body, exit}
             t1 == Br({cond})  t2 == Br(targets)
             s1 == SetTerm(AddBlocks(blocks, n, deferred), cur, t1)
             f == [NewConstruct("loop") EXCEPT !.merge = exit, !.other = post, !.cond = cond, !.always = (known = "true")]
  <1>1. /\ LowersStatement /\ blocks' = SetTerm(s1, cond, t2)
        /\ cur' = body /\ constructs' = Append(constructs, f)
        /\ UNCHANGED <<phase, deferred, unwind>>
    BY DEF LowerLoop, New, PushConstruct
  <1>2. Lowering /\ Open
    BY <1>1 DEF LowersStatement, InBody, Idle
  <1>3. /\ l \in Nat /\ n \in Nat /\ cond \in Nat /\ exit \in Nat /\ post \in Nat /\ {cond} \in SUBSET BlockId /\ targets \in SUBSET BlockId
        /\ cond > l /\ cond \in 1..(l + n) /\ body > l /\ \A x \in targets : x > l /\ x \in 1..(l + n)
    BY DeferFacts, StateFacts DEF BlockId
  <1>4. t1 \in Term /\ t1.kind = "br" /\ t1.to = {cond} /\ t2 \in Term /\ t2.kind = "br" /\ t2.to = targets
    BY <1>3, TermTypes
  <1>5. f \in ConstructFrame /\ f.base = Len(deferred) /\ f.cond = cond
    <2> DEFINE g == NewConstruct("loop")  always == known = "true"
    <2>1. g \in ConstructFrame /\ g.base = Len(deferred)
      BY DeferFacts, NewConstructIs DEF FrameKinds
    <2>2. exit \in Nat /\ post \in Nat /\ cond \in Nat /\ always \in BOOLEAN
      BY <1>3
    <2> HIDE DEF g, exit, post, cond, always
    <2>3. LET h == [g EXCEPT !.merge = exit, !.other = post, !.cond = cond, !.always = always] IN
          h \in ConstructFrame /\ h.base = Len(deferred) /\ h.cond = cond
      BY <2>1, <2>2 DEF ConstructFrame
    <2> QED BY <2>3 DEF g, always
  <1> HIDE DEF f, t1, t2, s1, targets, n
  <1>6. OpenedOf(blocks, n, deferred, cur, t1, s1)
    BY <1>1, <1>2, <1>3, <1>4, DeferFacts, OpenBlock, StateFacts, OpenedIs DEF s1
  <1>7. Nests(blocks, cur, deferred, s1)
    <2>1. \A x \in t1.to : x > Len(blocks) /\ x \in 1..(Len(blocks) + n)
      BY <1>3, <1>4
    <2> QED BY <1>3, <1>4, <1>6, <2>1, DeferFacts, StateFacts, OpenedNests
  <1>8. /\ s1 \in Seq(Block) /\ Len(s1) = l + n /\ cond \in 1..Len(s1) /\ s1[cond].term.to = {}
    <2>1. /\ s1 \in Seq(Block) /\ Len(s1) = l + n
          /\ \A c \in 1..Len(s1) : c > Len(blocks) => s1[c].term = OpenTerm
      BY <1>6 DEF OpenedOf
    <2>2. cond \in 1..Len(s1) /\ cond > Len(blocks)
      BY <1>3, <2>1
    <2> QED BY <2>1, <2>2, TermTypes
  <1>9. Ended(s1, cond, t2, blocks')
    <2> HIDE DEF cond
    <2> QED BY <1>1, <1>4, <1>8, EndedIs
  <1>10. Nests(blocks, cur, deferred, blocks')
    <2>1. cond > Len(blocks) /\ \A x \in t2.to : x > Len(blocks) /\ x \in 1..Len(s1)
      BY <1>3, <1>4, <1>8
    <2> HIDE DEF cond, l
    <2> QED BY <1>4, <1>7, <1>8, <1>9, <2>1, DeferFacts, StateFacts, NestsMore
  <1>11. cur' > Len(blocks) /\ f.cond \in 1..Len(blocks') /\ f.cond > Len(blocks)
    <2>1. Len(blocks') = Len(s1)
      BY <1>9 DEF Ended
    <2> QED BY <1>1, <1>3, <1>5, <1>8, <2>1
  <1> HIDE DEF l, cond, body
  <1> QED BY <1>1, <1>5, <1>10, <1>11, BeginDefers

LEMMA LowerSwitchDefers ==
  ASSUME DeferInv, BuildInv', NEW n \in 0..MaxCases, NEW hasDefault \in BOOLEAN, NEW exhaustive \in BOOLEAN,
         LowerSwitch(n, hasDefault, exhaustive)
  PROVE  DeferInv'
  <1> DEFINE l == Len(blocks)  merge == l + 1  other == l + 2
             caseBlocks == {l + (1 + i) : i \in 1..n}
             unmatched == exhaustive /\ ~ hasDefault
             added == n + (IF unmatched THEN 2 ELSE 1)
             last == l + added
             X == IF exhaustive THEN caseBlocks ELSE caseBlocks \cup {merge}
             t == Br(X)
             s1 == SetTerm(AddBlocks(blocks, added, deferred), cur, t)
             f == [NewConstruct("switch") EXCEPT !.merge = merge, !.other = other, !.cases = n, !.falls = ~ exhaustive, !.reach = ~ exhaustive]
  <1>1. /\ LowersStatement /\ blocks' = IF unmatched THEN SetTerm(s1, last, UnreachableTerm) ELSE s1
        /\ constructs' = Append(constructs, f)
        /\ UNCHANGED <<phase, cur, deferred, unwind>>
    BY DEF LowerSwitch, New, PushConstruct
  <1>2. Lowering /\ Open
    BY <1>1 DEF LowersStatement, InBody, Idle
  <1>3. /\ l \in Nat /\ n \in Nat /\ added \in Nat /\ merge \in Nat /\ other \in Nat /\ X \in SUBSET BlockId
        /\ \A x \in X : x > l /\ x \in 1..(l + added)
        /\ last = l + added /\ last > l /\ last \in 1..(l + added)
    <2>1. l \in Nat /\ n \in Nat
      BY Constants, DeferFacts, StateFacts
    <2>2. added \in Nat /\ added >= n + 1 /\ merge \in Nat /\ other \in Nat /\ last = l + added
      BY <2>1
    <2>20. last > l /\ last \in 1..(l + added) /\ merge > l /\ merge \in 1..(l + added)
      <3> HIDE DEF added, l
      <3> QED BY <2>1, <2>2
    <2>3. \A i \in 1..n : l + (1 + i) > l /\ l + (1 + i) \in 1..(l + added)
      <3> HIDE DEF added, l
      <3> QED BY <2>1, <2>2
    <2>4. \A x \in X : x > l /\ x \in 1..(l + added)
      <3> HIDE DEF added, l
      <3> QED BY <2>20, <2>3
    <2>5. X \in SUBSET BlockId
      <3>1. \A x \in 1..(l + added) : x \in Nat \ {0}
        <4> HIDE DEF added, l
        <4> QED BY <2>1, <2>2
      <3> HIDE DEF X, added, l
      <3> QED BY <2>4, <3>1 DEF BlockId
    <2> HIDE DEF X, added, l
    <2> QED BY <2>1, <2>2, <2>20, <2>4, <2>5
  <1>4. t \in Term /\ t.kind = "br" /\ t.to = X
    BY <1>3, TermTypes
  <1>5. f \in ConstructFrame /\ f.kind = "switch" /\ f.base = Len(deferred)
    <2> DEFINE g == NewConstruct("switch")  part == ~ exhaustive
    <2>1. g \in ConstructFrame /\ g.kind = "switch" /\ g.base = Len(deferred)
      BY DeferFacts, NewConstructIs DEF FrameKinds
    <2>2. merge \in Nat /\ other \in Nat /\ part \in BOOLEAN /\ n \in Nat
      BY <1>3
    <2> HIDE DEF g, merge, other, part
    <2>3. LET h == [g EXCEPT !.merge = merge, !.other = other, !.cases = n, !.falls = part, !.reach = part] IN
          h \in ConstructFrame /\ h.kind = "switch" /\ h.base = Len(deferred)
      BY <2>1, <2>2 DEF ConstructFrame
    <2> QED BY <2>3 DEF g, part
  <1> HIDE DEF f, t, s1, X, added
  <1>6. OpenedOf(blocks, added, deferred, cur, t, s1)
    BY <1>1, <1>2, <1>3, <1>4, DeferFacts, OpenBlock, StateFacts, OpenedIs DEF s1
  <1>7. Nests(blocks, cur, deferred, s1)
    BY <1>3, <1>4, <1>6, DeferFacts, StateFacts, OpenedNests
  <1>8. Nests(blocks, cur, deferred, blocks')
    <2>1. CASE ~ unmatched
      BY <1>1, <1>7, <2>1
    <2>2. CASE unmatched
      <3>1. /\ s1 \in Seq(Block) /\ last \in 1..Len(s1) /\ s1[last].term.to = {} /\ last > Len(blocks)
        <4>1. /\ s1 \in Seq(Block) /\ Len(s1) = l + added
              /\ \A c \in 1..Len(s1) : c > Len(blocks) => s1[c].term = OpenTerm
          BY <1>6 DEF OpenedOf
        <4> QED BY <1>3, <4>1, TermTypes
      <3>2. blocks' = SetTerm(s1, last, UnreachableTerm) /\ UnreachableTerm \in Term /\ UnreachableTerm.to = {} /\ UnreachableTerm.kind # "ret"
        BY <1>1, <2>2, TermTypes
      <3> HIDE DEF last, l
      <3>3. Ended(s1, last, UnreachableTerm, blocks')
        BY <3>1, <3>2, EndedIs
      <3> QED BY <1>7, <3>1, <3>2, <3>3, DeferFacts, StateFacts, NestsMore
    <2> QED BY <2>1, <2>2
  <1> HIDE DEF l, unmatched, last
  <1> QED BY <1>1, <1>5, <1>8, BeginDefers

-----------------------------------------------------------------------------
(* A part of a construct is done. *)

(* The step closes blocks: those where the defers df are registered, with  *)
(* a jump to where the same are.                                           *)
Fills(bs, df, bs2) ==
  /\ bs2 \in Seq(Block) /\ Len(bs2) = Len(bs)
  /\ \A b \in 1..Len(bs) :
       /\ bs2[b].ops = bs[b].ops /\ bs2[b].entry = bs[b].entry
       /\ \/ bs2[b].term = bs[b].term
          \/ bs2[b].term.kind \notin {"br", "ret"}
          \/ /\ bs2[b].term.kind = "br" /\ Reaches(bs[b], df)
             /\ \A x \in bs2[b].term.to : x \in 1..Len(bs) /\ bs[x].entry = df

LEMMA FillFlows ==
  ASSUME DeferInv, NEW df \in Seq(Defer), NEW bs2, Fills(blocks, df, bs2)
  PROVE  /\ bs2 \in Seq(Block) /\ BlocksInOrder(bs2) /\ Kept(blocks, bs2)
         /\ \A b \in 1..Len(blocks) : blocks[b].ops = <<>> /\ blocks[b].entry = df => Reaches(bs2[b], df)
  <1> USE DEF Fills
  <1>1. blocks \in Seq(Block) /\ GraphInOrder(blocks) /\ BlocksInOrder(blocks) /\ Len(blocks) \in Nat
    BY DeferFacts, StateFacts
  <1>2. Kept(blocks, bs2)
    BY <1>1 DEF Kept
  <1>3. ASSUME NEW b \in 1..Len(blocks), bs2[b].term.kind = "br", Reaches(blocks[b], df),
               \A x \in bs2[b].term.to : x \in 1..Len(blocks) /\ blocks[x].entry = df
        PROVE  Reaches(bs2[b], df) /\ EndsWith(bs2, b, df)
    <2>1. Reaches(bs2[b], df)
      BY <1>3, SameReaches
    <2>2. EndsWith(bs2, b, df)
      BY <1>3 DEF EndsWith
    <2> QED BY <2>1, <2>2
  <1>4. \A b \in 1..Len(bs2) : \/ b \in 1..Len(blocks) /\ bs2[b].term = blocks[b].term /\ bs2[b].ops = blocks[b].ops
                               \/ bs2[b].term.kind \notin {"br", "ret"}
                               \/ \E after : Reaches(bs2[b], after) /\ EndsWith(bs2, b, after)
    BY <1>3
  <1>5. BlocksInOrder(bs2)
    BY <1>1, <1>2, <1>4, FlowStep
  <1>6. ASSUME NEW b \in 1..Len(blocks), blocks[b].ops = <<>>, blocks[b].entry = df PROVE Reaches(bs2[b], df)
    BY <1>6, EmptyReaches
  <1> QED BY <1>2, <1>5, <1>6

LEMMA CloseFills ==
  ASSUME DeferInv, Idle, NEW m \in 1..Len(blocks), blocks[m].entry = deferred, NEW bs2, CloseOf(blocks, cur, m, bs2)
  PROVE  Fills(blocks, deferred, bs2)
  <1>1. /\ bs2 \in Seq(Block) /\ Len(bs2) = Len(blocks)
        /\ \A c \in 1..Len(blocks) : c # cur => bs2[c] = blocks[c]
        /\ bs2[cur].ops = blocks[cur].ops /\ bs2[cur].entry = blocks[cur].entry
        /\ bs2[cur].term = IF Open THEN Br({m}) ELSE blocks[cur].term
    BY DEF CloseOf, Open
  <1>2. Open => Reaches(blocks[cur], deferred)
    BY DeferFacts DEF Idle, LexicalOf
  <1>3. Br({m}).kind = "br" /\ Br({m}).to = {m}
    BY TermTypes
  <1>4. \/ bs2[cur].term = blocks[cur].term
        \/ /\ bs2[cur].term.kind = "br" /\ Reaches(blocks[cur], deferred)
           /\ \A x \in bs2[cur].term.to : x \in 1..Len(blocks) /\ blocks[x].entry = deferred
    <2>1. CASE Open
      BY <1>1, <1>2, <1>3, <2>1
    <2>2. CASE ~ Open
      BY <1>1, <2>2
    <2> QED BY <2>1, <2>2
  <1> QED BY <1>1, <1>4 DEF Fills

LEMMA JoinFills ==
  ASSUME NEW bs \in Seq(Block), NEW df, NEW bs1, Fills(bs, df, bs1), NEW m \in 1..Len(bs), NEW falls, NEW bs2, JoinOf(bs1, m, falls, bs2)
  PROVE  Fills(bs, df, bs2)
  <1>1. /\ bs2 \in Seq(Block) /\ Len(bs2) = Len(bs1) /\ \A c \in 1..Len(bs1) : c # m => bs2[c] = bs1[c]
        /\ bs2[m].ops = bs1[m].ops /\ bs2[m].entry = bs1[m].entry
        /\ bs2[m].term = bs1[m].term \/ bs2[m].term = UnreachableTerm
    BY DEF JoinOf
  <1>2. UnreachableTerm.kind = "unreachable"
    BY TermTypes
  <1> QED BY <1>1, <1>2 DEF Fills

LEMMA JoinedFills ==
  ASSUME NEW bs \in Seq(Block), NEW df, NEW bs1 \in Seq(Block), Fills(bs, df, bs1), NEW m \in 1..Len(bs), bs1[m].term.to = {},
         NEW falls \in BOOLEAN, NEW bs2, bs2 = JoinAt(bs1, m, falls)
  PROVE  Fills(bs, df, bs2)
  <1>1. m \in 1..Len(bs1)
    BY DEF Fills
  <1>2. CASE falls
    <2>1. bs2 = JoinAt(bs1, m, TRUE)
      BY <1>2
    <2>2. JoinOf(bs1, m, TRUE, bs2)
      BY <1>1, <2>1, JoinIs
    <2> QED BY <2>2, JoinFills
  <1>3. CASE ~ falls
    <2>1. bs2 = JoinAt(bs1, m, FALSE)
      BY <1>3
    <2>2. JoinOf(bs1, m, FALSE, bs2)
      BY <1>1, <2>1, JoinIs
    <2> QED BY <2>2, JoinFills
  <1> QED BY <1>2, <1>3

LEMMA BackFills ==
  ASSUME NEW bs \in Seq(Block), NEW df, NEW bs1, Fills(bs, df, bs1), NEW o \in 1..Len(bs), NEW d \in 1..Len(bs), Reaches(bs[o], df),
         bs[d].entry = df, NEW bs2, Ended(bs1, o, Br({d}), bs2)
  PROVE  Fills(bs, df, bs2)
  <1>1. /\ bs2 \in Seq(Block) /\ Len(bs2) = Len(bs1) /\ \A c \in 1..Len(bs1) : c # o => bs2[c] = bs1[c]
        /\ bs2[o].ops = bs1[o].ops /\ bs2[o].entry = bs1[o].entry /\ bs2[o].term = Br({d})
    BY DEF Ended
  <1>2. Br({d}).kind = "br" /\ Br({d}).to = {d}
    BY TermTypes
  <1>3. \A x \in bs2[o].term.to : x \in 1..Len(bs) /\ bs[x].entry = df
    BY <1>1, <1>2
  <1> QED BY ZenonT(60), <1>1, <1>2, <1>3 DEF Fills

LEMMA SameFills == ASSUME NEW bs \in Seq(Block), NEW df PROVE Fills(bs, df, bs)
  BY DEF Fills

(* What waits begins with the defers that are registered.                  *)
LEMMA WaitsHere ==
  ASSUME DeferInv, Idle, Innermost.kind = "switch" \/ Innermost.left
  PROVE  /\ \A b \in Nat : Waits(Innermost, b) => b \in 1..Len(blocks) /\ b \in BlockId /\ blocks[b].ops = <<>> /\ blocks[b].entry = deferred
                                                  /\ b # cur /\ blocks[b].term.to = {}
         /\ Innermost.kind = "loop" => Innermost.cond \in 1..Len(blocks) /\ blocks[Innermost.cond].entry = deferred
         /\ Len(deferred) = Innermost.base /\ Prefix(deferred, Innermost.base) = deferred /\ deferred \in Seq(Defer)
         /\ Lowering /\ unwind.why = "idle" /\ BuildInv /\ BlocksInOrder(blocks)
         /\ blocks \in Seq(Block) /\ cur \in 1..Len(blocks) /\ GraphInOrder(blocks)
         /\ Innermost \in ConstructFrame /\ Innermost.merge \in Nat /\ Innermost.other \in Nat /\ Innermost.base \in Nat
  <1>1. Lowering /\ unwind.why = "idle" /\ BuildInv /\ BlocksInOrder(blocks)
    BY DeferFacts DEF Idle
  <1>2. Len(deferred) = Innermost.base /\ Prefix(deferred, Innermost.base) = deferred /\ EntryIs(blocks, Innermost, deferred)
    BY <1>1, TopEntries
  <1>3. \A b \in Nat : Waits(Innermost, b) => b \in 1..Len(blocks) /\ b \in BlockId /\ blocks[b].ops = <<>> /\ blocks[b].term.to = {} /\ b # cur
    BY <1>1, TopWaits
  <1>4. \A b \in Nat : Waits(Innermost, b) => blocks[b].entry = deferred
    BY <1>2 DEF EntryIs
  <1>5. Innermost.kind = "loop" => Innermost.cond \in 1..Len(blocks) /\ blocks[Innermost.cond].entry = deferred
    BY <1>2 DEF EntryIs
  <1>6. /\ blocks \in Seq(Block) /\ cur \in 1..Len(blocks) /\ GraphInOrder(blocks) /\ deferred \in Seq(Defer)
        /\ Innermost \in ConstructFrame /\ Innermost.merge \in Nat /\ Innermost.other \in Nat /\ Innermost.base \in Nat
    BY <1>1, StateFacts, LoweringFacts
  <1> QED BY <1>1, <1>2, <1>3, <1>4, <1>5, <1>6

(* The construct on top goes on as f, where fewer blocks wait.             *)
LEMMA GoesOn ==
  ASSUME DeferInv, BuildInv', Idle, Innermost.kind = "switch" \/ Innermost.left, phase' = "lowering", NEW f \in ConstructFrame,
         constructs' = Append(SubSeq(constructs, 1, Len(constructs) - 1), f), f.base = Innermost.base, f.kind # "loop",
         \A b \in Nat : Waits(f, b) => Waits(Innermost, b), UNCHANGED <<deferred, unwind>>, Fills(blocks, deferred, blocks'),
         (cur' \in Nat /\ Waits(Innermost, cur')) \/ blocks'[cur'].term.kind # "none"
  PROVE  DeferInv'
  <1>1. /\ \A b \in Nat : Waits(Innermost, b) => b \in 1..Len(blocks) /\ blocks[b].ops = <<>> /\ blocks[b].entry = deferred
        /\ Len(deferred) = Innermost.base /\ Prefix(deferred, Innermost.base) = deferred /\ deferred \in Seq(Defer)
        /\ Lowering /\ unwind.why = "idle"
    BY WaitsHere
  <1>2. /\ blocks' \in Seq(Block) /\ BlocksInOrder(blocks') /\ Kept(blocks, blocks')
        /\ \A b \in 1..Len(blocks) : blocks[b].ops = <<>> /\ blocks[b].entry = deferred => Reaches(blocks'[b], deferred)
    BY <1>1, FillFlows
  <1>3. blocks'[cur'].term.kind = "none" => Reaches(blocks'[cur'], LexicalOf(deferred, unwind'))
    BY <1>1, <1>2 DEF LexicalOf
  <1>4. EntryIs(blocks', f, Prefix(deferred, f.base))
    <2>1. \A b \in Nat : Waits(f, b) => b \in 1..Len(blocks) /\ blocks[b].entry = deferred
      BY <1>1
    <2>2. \A b \in 1..Len(blocks) : b \in 1..Len(blocks') /\ blocks'[b].entry = blocks[b].entry
      BY DEF Fills
    <2> QED BY <1>1, <2>1, <2>2 DEF EntryIs
  <1> QED BY <1>1, <1>2, <1>3, <1>4, TopDefers

(* ... and when it ends.                                                   *)
LEMMA EndsHere ==
  ASSUME DeferInv, BuildInv', Idle, Innermost.kind = "switch" \/ Innermost.left, phase' = "lowering", Innermost.kind # "function",
         constructs' = SubSeq(constructs, 1, Len(constructs) - 1), UNCHANGED <<deferred, unwind>>, Fills(blocks, deferred, blocks'),
         cur' \in Nat, Waits(Innermost, cur')
  PROVE  DeferInv'
  <1>1. /\ cur' \in 1..Len(blocks) /\ blocks[cur'].ops = <<>> /\ blocks[cur'].entry = deferred
        /\ Lowering /\ unwind.why = "idle" /\ deferred \in Seq(Defer)
    BY WaitsHere
  <1>2. /\ blocks' \in Seq(Block) /\ BlocksInOrder(blocks') /\ Kept(blocks, blocks') /\ Reaches(blocks'[cur'], deferred)
    BY <1>1, FillFlows
  <1> QED BY <1>1, <1>2, PopDefers

LEMMA LowerElseDefers == ASSUME DeferInv, BuildInv', LowerElse PROVE DeferInv'
  <1> DEFINE g == Innermost  m == g.merge  o == g.other
             f == [g EXCEPT !.kind = "else", !.left = FALSE, !.falls = Open, !.reach = reachable]
  <1>1. /\ Idle /\ phase' = "lowering" /\ g.kind = "then" /\ g.left /\ blocks' = SetTermIfOpen(blocks, cur, Br({m}))
        /\ cur' = o /\ constructs' = Append(SubSeq(constructs, 1, Len(constructs) - 1), f) /\ UNCHANGED <<deferred, unwind>>
    BY DEF LowerElse, BlockDone, AtConstruct, Idle, Reframe, Outward, Lowering
  <1>2. g \in ConstructFrame /\ m \in Nat /\ o \in Nat /\ g.base \in Nat /\ blocks \in Seq(Block) /\ cur \in 1..Len(blocks) /\ GraphInOrder(blocks)
    BY <1>1, WaitsHere
  <1>3. f \in ConstructFrame /\ f.kind = "else" /\ f.base = g.base /\ f.merge = m
    <2> DEFINE op == Open
    <2>1. op \in BOOLEAN /\ reachable \in BOOLEAN
      BY DeferFacts, StateFacts DEF Open, IsOpen
    <2> HIDE DEF op, g
    <2>2. LET h == [g EXCEPT !.kind = "else", !.left = FALSE, !.falls = op, !.reach = reachable] IN
          /\ h \in ConstructFrame /\ h.kind = "else" /\ h.base = g.base /\ h.merge = g.merge
      BY <1>2, <2>1 DEF ConstructFrame, FrameKinds
    <2> QED BY <2>2 DEF op
  <1> HIDE DEF f
  <1>4. Waits(g, m) /\ Waits(g, o) /\ \A b \in Nat : Waits(f, b) => Waits(g, b)
    BY <1>1, <1>3 DEF Waits
  <1>5. m \in 1..Len(blocks) /\ m \in BlockId /\ blocks[m].entry = deferred
    BY <1>1, <1>2, <1>4, WaitsHere
  <1>6. Fills(blocks, deferred, blocks')
    <2> HIDE DEF m
    <2>1. CloseOf(blocks, cur, m, blocks')
      BY <1>1, <1>2, <1>5, CloseIs
    <2> QED BY <1>1, <1>5, <2>1, CloseFills
  <1>7. cur' \in Nat /\ Waits(g, cur')
    BY <1>1, <1>2, <1>4
  <1> QED BY <1>1, <1>3, <1>4, <1>6, <1>7, GoesOn

LEMMA LowerCaseDefers == ASSUME DeferInv, BuildInv', LowerCase PROVE DeferInv'
  <1> DEFINE g == Innermost  o == g.other  f == [g EXCEPT !.kind = "case", !.left = FALSE, !.base = Len(deferred)]
  <1>1. /\ Idle /\ phase' = "lowering" /\ g.kind = "switch" /\ g.cases > 0
        /\ cur' = o /\ constructs' = Append(SubSeq(constructs, 1, Len(constructs) - 1), f) /\ UNCHANGED <<blocks, deferred, unwind>>
    BY DEF LowerCase, AtConstruct, Idle, Reframe, Outward, Lowering
  <1>2. /\ g \in ConstructFrame /\ o \in Nat /\ g.base \in Nat /\ g.base = Len(deferred) /\ blocks \in Seq(Block) /\ g.cases \in Nat
    <2>1. Lowering /\ BuildInv
      BY <1>1, DeferFacts DEF Idle
    <2> QED BY <1>1, <2>1, WaitsHere, LoweringFacts
  <1>3. f \in ConstructFrame /\ f.kind = "case" /\ f.base = g.base /\ f.merge = g.merge /\ f.other = o /\ f.cases = g.cases
    <2> DEFINE k == Len(deferred)
    <2>1. k \in Nat /\ k = g.base
      BY <1>2
    <2> HIDE DEF g, k
    <2>2. LET h == [g EXCEPT !.kind = "case", !.left = FALSE, !.base = k] IN
          /\ h \in ConstructFrame /\ h.kind = "case" /\ h.base = k /\ h.merge = g.merge /\ h.other = g.other /\ h.cases = g.cases
      BY <1>2, <2>1 DEF ConstructFrame, FrameKinds
    <2> QED BY <2>1, <2>2 DEF k
  <1> HIDE DEF f
  <1>4. Waits(g, o) /\ \A b \in Nat : Waits(f, b) => Waits(g, b)
    <2> DEFINE m == g.merge  k == g.cases
    <2>1. \A b \in Nat : Waits(f, b) <=> b = m \/ (o < b /\ b < o + k)
      BY <1>3 DEF Waits
    <2>2. \A b \in Nat : Waits(g, b) <=> b = m \/ (o <= b /\ b < o + k)
      BY <1>1 DEF Waits
    <2>3. o \in Nat /\ k \in Nat /\ k > 0
      BY <1>1, <1>2
    <2> HIDE DEF m, o, k, g
    <2>4. o < o + k /\ \A b \in Nat : o < b => o <= b
      BY <2>3
    <2> QED BY <2>1, <2>2, <2>3, <2>4
  <1>6. Fills(blocks, deferred, blocks')
    BY <1>1, <1>2, SameFills
  <1>7. cur' \in Nat /\ Waits(g, cur')
    BY <1>1, <1>2, <1>4
  <1> QED BY <1>1, <1>3, <1>4, <1>6, <1>7, GoesOn

LEMMA LowerCaseEndDefers == ASSUME DeferInv, BuildInv', LowerCaseEnd PROVE DeferInv'
  <1> DEFINE g == Innermost  m == g.merge  o == g.other  op == Open  f == NextCase(g, op, reachable)
  <1>1. /\ Idle /\ phase' = "lowering" /\ g.kind = "case" /\ g.left /\ blocks' = SetTermIfOpen(blocks, cur, Br({m}))
        /\ cur' = cur /\ constructs' = Append(SubSeq(constructs, 1, Len(constructs) - 1), f) /\ UNCHANGED <<deferred, unwind>>
    BY DEF LowerCaseEnd, BlockDone, AtConstruct, Idle, Reframe, Outward, Lowering
  <1>2. /\ g \in ConstructFrame /\ m \in Nat /\ o \in Nat /\ blocks \in Seq(Block) /\ cur \in 1..Len(blocks) /\ GraphInOrder(blocks)
        /\ g.cases \in Nat /\ g.cases > 0 /\ op \in BOOLEAN /\ reachable \in BOOLEAN
    <2>1. Lowering /\ BuildInv
      BY <1>1, DeferFacts DEF Idle
    <2> QED BY <1>1, <2>1, WaitsHere, LoweringFacts, StateFacts DEF FrameInOrder, Open, IsOpen
  <1>3. f \in ConstructFrame /\ f.kind = "switch" /\ f.base = g.base /\ f.merge = m /\ f.other = o + 1 /\ f.cases = g.cases - 1
    <2> HIDE DEF g, op
    <2>1. NextCaseOf(g, op, reachable, f)
      BY <1>2, NextCaseIs
    <2> QED BY <2>1 DEF NextCaseOf
  <1> HIDE DEF f
  <1>4. Waits(g, m) /\ \A b \in Nat : Waits(f, b) => Waits(g, b)
    <2> DEFINE k == g.cases
    <2>1. \A b \in Nat : Waits(f, b) <=> b = m \/ (o < b /\ b < o + k)
      <3>1. f.kind = "switch" /\ f.merge = m /\ f.other = o + 1 /\ f.cases = k - 1 /\ k \in Nat /\ k > 0 /\ m \in Nat /\ o \in Nat
        BY <1>2, <1>3
      <3> HIDE DEF m, o, k, g
      <3> QED BY <3>1, NextCaseWaits
    <2>2. \A b \in Nat : Waits(g, b) <=> b = m \/ (o < b /\ b < o + k)
      BY <1>1 DEF Waits
    <2> QED BY <1>2, <2>1, <2>2
  <1>5. m \in 1..Len(blocks) /\ m \in BlockId /\ blocks[m].entry = deferred
    BY <1>1, <1>2, <1>4, WaitsHere
  <1>6. Fills(blocks, deferred, blocks') /\ blocks'[cur].term.kind # "none"
    <2> HIDE DEF m
    <2>1. CloseOf(blocks, cur, m, blocks')
      BY <1>1, <1>2, <1>5, CloseIs
    <2>2. blocks'[cur].term.kind # "none"
      BY <2>1, TermTypes DEF CloseOf, IsOpen
    <2> QED BY <1>1, <1>5, <2>1, <2>2, CloseFills
  <1> QED BY <1>1, <1>3, <1>4, <1>6, GoesOn

LEMMA LowerSwitchEndDefers == ASSUME DeferInv, BuildInv', LowerSwitchEnd PROVE DeferInv'
  <1> DEFINE g == Innermost  m == g.merge  falls == g.falls
  <1>1. /\ Idle /\ phase' = "lowering" /\ g.kind = "switch" /\ blocks' = JoinAt(blocks, m, falls)
        /\ cur' = m /\ constructs' = SubSeq(constructs, 1, Len(constructs) - 1) /\ UNCHANGED <<deferred, unwind>>
    BY DEF LowerSwitchEnd, AtConstruct, Idle, PopConstruct, Outward, Lowering
  <1>2. m \in Nat /\ blocks \in Seq(Block) /\ falls \in BOOLEAN
    <2>1. Lowering /\ BuildInv
      BY <1>1, DeferFacts DEF Idle
    <2> QED BY <1>1, <2>1, WaitsHere, LoweringFacts
  <1>3. Waits(g, m)
    BY <1>1 DEF Waits
  <1>4. m \in 1..Len(blocks) /\ blocks[m].term.to = {}
    BY <1>1, <1>2, <1>3, WaitsHere
  <1>5. Fills(blocks, deferred, blocks')
    <2>0. Fills(blocks, deferred, blocks)
      BY <1>2, SameFills
    <2> HIDE DEF m, falls, g
    <2> QED BY <1>1, <1>2, <1>4, <2>0, JoinedFills
  <1>6. cur' \in Nat /\ Waits(g, cur') /\ g.kind # "function"
    BY <1>1, <1>2, <1>3
  <1> QED BY <1>1, <1>5, <1>6, EndsHere

LEMMA LowerIfEndDefers == ASSUME DeferInv, BuildInv', LowerIfEnd PROVE DeferInv'
  <1> DEFINE g == Innermost  m == g.merge  falls == Open \/ g.falls \/ g.kind = "then"  bs1 == SetTermIfOpen(blocks, cur, Br({m}))
  <1>1. /\ Idle /\ phase' = "lowering" /\ g.kind \in {"then", "else"} /\ g.left /\ blocks' = JoinAt(bs1, m, falls)
        /\ cur' = m /\ constructs' = SubSeq(constructs, 1, Len(constructs) - 1) /\ UNCHANGED <<deferred, unwind>>
    BY DEF LowerIfEnd, BlockDone, AtConstruct, Idle, PopConstruct, Outward, Lowering
  <1>2. m \in Nat /\ blocks \in Seq(Block) /\ falls \in BOOLEAN /\ cur \in 1..Len(blocks) /\ GraphInOrder(blocks)
    <2>1. Lowering /\ BuildInv
      BY <1>1, DeferFacts DEF Idle
    <2> QED BY <1>1, <2>1, WaitsHere, LoweringFacts
  <1>3. Waits(g, m)
    BY <1>1 DEF Waits
  <1>4. m \in 1..Len(blocks) /\ blocks[m].term.to = {} /\ m \in BlockId /\ blocks[m].entry = deferred /\ m # cur
    BY <1>1, <1>2, <1>3, WaitsHere
  <1>5. Fills(blocks, deferred, blocks')
    <2> HIDE DEF m, falls, g
    <2>1. CloseOf(blocks, cur, m, bs1)
      BY <1>2, <1>4, CloseIs
    <2>2. Fills(blocks, deferred, bs1)
      BY <1>1, <1>4, <2>1, CloseFills
    <2>3. bs1 \in Seq(Block) /\ m \in 1..Len(bs1) /\ bs1[m].term.to = {}
      BY <1>4, <2>1 DEF CloseOf
    <2> HIDE DEF bs1
    <2> QED BY <1>1, <1>2, <1>4, <2>2, <2>3, JoinedFills
  <1>6. cur' \in Nat /\ Waits(g, cur') /\ g.kind # "function"
    BY <1>1, <1>2, <1>3
  <1> QED BY <1>1, <1>5, <1>6, EndsHere

LEMMA LowerLoopEndDefers == ASSUME DeferInv, BuildInv', LowerLoopEnd PROVE DeferInv'
  <1> DEFINE g == Innermost  m == g.merge  o == g.other  d == g.cond  falls == LoopExits(g)
             bs1 == SetTermIfOpen(blocks, cur, Br({o}))
             bs2 == IF o = d THEN bs1 ELSE SetTerm(bs1, o, Br({d}))
  <1>1. /\ Idle /\ phase' = "lowering" /\ g.kind = "loop" /\ g.left /\ blocks' = JoinAt(bs2, m, falls)
        /\ cur' = m /\ constructs' = SubSeq(constructs, 1, Len(constructs) - 1) /\ UNCHANGED <<deferred, unwind>>
    BY DEF LowerLoopEnd, BlockDone, AtConstruct, Idle, PopConstruct, Outward, Lowering
  <1>2. /\ m \in Nat /\ o \in Nat /\ blocks \in Seq(Block) /\ falls \in BOOLEAN /\ cur \in 1..Len(blocks) /\ GraphInOrder(blocks)
        /\ d \in 1..Len(blocks) /\ blocks[d].entry = deferred /\ m # o /\ d \in BlockId /\ deferred \in Seq(Defer)
    <2>1. Lowering /\ BuildInv
      BY <1>1, DeferFacts DEF Idle
    <2>2. loop_state.hasBreak \in BOOLEAN /\ g.always \in BOOLEAN
      BY <2>1, StateFacts, LoweringFacts DEF LoopState
    <2>3. falls \in BOOLEAN
      BY <2>2 DEF LoopExits
    <2>4. d \in 1..Len(blocks) => d \in BlockId
      BY <2>1, StateFacts DEF BlockId
    <2> QED BY <1>1, <2>1, <2>3, <2>4, WaitsHere, LoopFacts
  <1>3. Waits(g, m) /\ (o # d => Waits(g, o))
    BY <1>1 DEF Waits
  <1>4. /\ m \in 1..Len(blocks) /\ blocks[m].term.to = {} /\ m # cur
        /\ o \in 1..Len(blocks) /\ o \in BlockId /\ blocks[o].entry = deferred
        /\ o # d => o # cur /\ blocks[o].term.to = {} /\ blocks[o].ops = <<>>
    <2>1. m \in 1..Len(blocks) /\ blocks[m].term.to = {} /\ m # cur
      BY <1>1, <1>2, <1>3, WaitsHere
    <2>2. o # d => /\ o \in 1..Len(blocks) /\ o \in BlockId /\ blocks[o].entry = deferred
                   /\ o # cur /\ blocks[o].term.to = {} /\ blocks[o].ops = <<>>
      BY <1>1, <1>2, <1>3, WaitsHere
    <2> QED BY <1>2, <2>1, <2>2
  <1> HIDE DEF m, o, d, falls, g
  <1>5. CloseOf(blocks, cur, o, bs1)
    BY <1>2, <1>4, CloseIs
  <1>6. Fills(blocks, deferred, bs1)
    BY <1>1, <1>4, <1>5, CloseFills
  <1>7. bs1 \in Seq(Block) /\ Len(bs1) = Len(blocks) /\ \A c \in 1..Len(blocks) : c # cur => bs1[c] = blocks[c]
    BY <1>5 DEF CloseOf
  <1> HIDE DEF bs1
  <1>8. Fills(blocks, deferred, bs2) /\ bs2 \in Seq(Block) /\ bs2[m].term.to = {}
    <2>1. CASE o = d
      BY <1>4, <1>6, <1>7, <2>1
    <2>2. CASE o # d
      <3> DEFINE t == Br({d})  s == SetTerm(bs1, o, t)
      <3>1. t \in Term
        <4>1. {d} \in SUBSET BlockId
          BY <1>2
        <4> QED BY <4>1, TermTypes
      <3>2. o \in 1..Len(bs1) /\ bs1[o].term.to = {} /\ bs2 = s
        BY <1>4, <1>7, <2>2
      <3> HIDE DEF t
      <3>3. Ended(bs1, o, t, s)
        BY <1>7, <3>1, <3>2, EndedIs
      <3> HIDE DEF s
      <3>4. Reaches(blocks[o], deferred)
        BY <1>2, <1>4, <2>2, EmptyReaches
      <3>5. Ended(bs1, o, Br({d}), s)
        BY <3>3 DEF t
      <3>6. Fills(blocks, deferred, s)
        BY <1>2, <1>4, <1>6, <3>4, <3>5, BackFills
      <3>7. s \in Seq(Block) /\ s[m].term.to = {}
        BY <1>2, <1>4, <1>7, <3>3 DEF Ended
      <3> QED BY <3>2, <3>6, <3>7
    <2> QED BY <2>1, <2>2
  <1> HIDE DEF bs2
  <1>9. Fills(blocks, deferred, blocks')
    BY <1>1, <1>2, <1>4, <1>8, JoinedFills
  <1>10. cur' \in Nat /\ Waits(g, cur') /\ g.kind # "function"
    BY <1>1, <1>2, <1>3
  <1> QED BY <1>1, <1>9, <1>10, EndsHere DEF g

-----------------------------------------------------------------------------
(* The end of the function, and its execution. *)

(* A block that is entered has a trace.                                    *)
LEMMA TraceFrom ==
  ASSUME NEW bs \in Seq(Block), GraphInOrder(bs), BlocksInOrder(bs), NEW b, Aimed(bs, b),
         \A c \in 1..Len(bs) : bs[c].term.kind # "none"
  PROVE  \E t : TraceOf(bs[b], t) /\ EndsWith(bs, b, t[Len(bs[b].ops)]) /\ t[0] = bs[b].entry
  <1>1. b \in 1..Len(bs) /\ bs[b].term.kind # "unreachable" /\ bs[b].term.kind # "none"
    BY DEF GraphInOrder
  <1>2. bs[b].term.kind \in {"br", "ret"}
    BY <1>1, BlockTypes DEF TermKinds
  <1>3. PICK after : Reaches(bs[b], after) /\ EndsWith(bs, b, after)
    BY <1>1, <1>2 DEF BlocksInOrder
  <1>4. PICK t : TraceOf(bs[b], t) /\ t[Len(bs[b].ops)] = after
    BY <1>3 DEF Reaches
  <1>5. t[0] = bs[b].entry
    BY <1>4 DEF TraceOf
  <1> QED BY <1>3, <1>4, <1>5

(* The execution is at the start of a block.                               *)
LEMMA EntersBlock ==
  ASSUME BuildInv', BlocksInOrder(blocks'), \A c \in 1..Len(blocks') : blocks'[c].term.kind # "none",
         pc'.next = 1, live' = blocks'[pc'.block].entry
  PROVE  \E t : RunsAlong(t)'
  <1>1. blocks' \in Seq(Block) /\ GraphInOrder(blocks') /\ Aimed(blocks', pc'.block) /\ pc'.block \in 1..Len(blocks')
    BY DEF BuildInv, LoweringTypeOK, RunInOrder
  <1>2. PICK t : TraceOf(blocks'[pc'.block], t) /\ EndsWith(blocks', pc'.block, t[Len(blocks'[pc'.block].ops)]) /\ t[0] = blocks'[pc'.block].entry
    BY <1>1, TraceFrom
  <1>3. Code' = blocks'[pc'.block] /\ Len(blocks'[pc'.block].ops) \in Nat
    BY <1>1, BlockTypes DEF Code
  <1>4. pc'.next <= Len(Code'.ops) + 1 /\ live' = t[pc'.next - 1]
    BY <1>2, <1>3
  <1>5. RunsAlong(t)'
    BY <1>2, <1>3, <1>4 DEF RunsAlong
  <1> QED BY <1>5

LEMMA FunctionDone ==
  ASSUME DeferInv, BlockDone("function")
  PROVE  Lowering /\ unwind.why = "idle" /\ deferred = <<>>
  <1>1. Lowering /\ unwind.why = "idle" /\ Innermost.kind = "function" /\ Innermost.left
    BY DEF BlockDone, AtConstruct, Idle
  <1>2. Len(constructs) \in 1..Len(constructs) /\ Innermost = constructs[Len(constructs)] /\ FramesInOrder(blocks, cur, constructs)
    BY <1>1, DeferFacts, StateFacts, LoweringFacts
  <1>3. Len(constructs) = 1
    BY <1>1, <1>2 DEF FramesInOrder
  <1>4. Len(deferred) = 0 /\ Prefix(deferred, 0) = deferred /\ deferred \in Seq(Defer)
    BY <1>1, <1>2, <1>3, DeferFacts, StateFacts, TopEntries
  <1> QED BY <1>1, <1>4, PrefixIs

LEMMA FinishedFlows ==
  ASSUME DeferInv, BlockDone("function"), ~(ReturnsValue /\ reachable)
  PROVE  BlocksInOrder(Finished) /\ Kept(blocks, Finished)
  <1>1. Lowering /\ unwind.why = "idle" /\ deferred = <<>> /\ LexicalOf(deferred, unwind) = <<>>
    BY FunctionDone DEF LexicalOf
  <1>2. CASE ~ Open
    <2>1. Finished = blocks
      BY <1>2 DEF Finished, SetTermIfOpen, Open
    <2> QED BY <2>1, DeferFacts, StateFacts, KeptSame
  <1>3. CASE Open
    <2> DEFINE t == Ret(NoBlock)
    <2>1. reachable
      BY <1>1, <1>3, DeferFacts, LoweringFacts
    <2>2. Finished = SetTerm(blocks, cur, t)
      BY <1>3, <2>1 DEF Finished, SetTermIfOpen, Open
    <2>3. t \in Term /\ t.kind = "ret" /\ t.to = {}
      <3>1. NoBlock \in Nat
        BY DEF NoBlock
      <3> QED BY <3>1, TermTypes
    <2> HIDE DEF t
    <2> QED BY <1>1, <1>3, <2>2, <2>3, ClosedFlows
  <1> QED BY <1>2, <1>3

LEMMA LowerFunctionEndDefers == ASSUME DeferInv, BuildInv', LowerFunctionEnd PROVE DeferInv'
  <1>1. /\ BlockDone("function") /\ Lowering /\ UNCHANGED <<pc, live>>
        /\ IF ReturnsValue /\ reachable
           THEN phase' = "rejected" /\ blocks' = blocks
           ELSE blocks' = Finished /\ phase' = IF VerifyFunction(Finished) THEN "running" ELSE "failed"
    BY DEF LowerFunctionEnd, Finished, running, BlockDone, AtConstruct, Idle
  <1>2. ~ Lowering'
    BY <1>1 DEF Lowering
  <1>3. CASE ReturnsValue /\ reachable
    <2>1. ~ Running' /\ blocks' = blocks
      BY <1>1, <1>3 DEF Running
    <2> QED BY <1>2, <2>1, DeferFacts DEF DeferInv
  <1>4. CASE ~(ReturnsValue /\ reachable)
    <2>1. Finished \in Seq(Block) /\ Len(Finished) = Len(blocks) /\ VerifyFunction(Finished) /\ blocks' = Finished
      BY <1>1, <1>4, DeferFacts, FinishedIs
    <2>2. BlocksInOrder(blocks') /\ Kept(blocks, blocks')
      BY <1>1, <1>4, <2>1, FinishedFlows
    <2> HIDE DEF Finished
    <2>3. \A b \in 1..Len(blocks') : blocks'[b].term.kind # "none"
      BY <2>1 DEF VerifyFunction
    <2>4. blocks'[1].entry = <<>>
      <3>1. 1 \in 1..Len(blocks)
        BY DeferFacts, StateFacts
      <3> QED BY <2>2, <3>1, DeferFacts DEF Kept
    <2>5. pc'.next = 1 /\ pc'.block = 1 /\ live' = <<>>
      BY <1>1, DeferFacts, LoweringFacts DEF Entry
    <2>6. \E t : RunsAlong(t)'
      BY <2>2, <2>3, <2>4, <2>5, EntersBlock
    <2> QED BY <1>2, <2>2, <2>3, <2>4, <2>6 DEF DeferInv
  <1> QED BY <1>3, <1>4

(* What the execution is at.                                               *)
LEMMA RunningFacts ==
  ASSUME DeferInv, Running
  PROVE  /\ BuildInv /\ BlocksInOrder(blocks) /\ blocks[1].entry = <<>> /\ ~ Lowering
         /\ \A b \in 1..Len(blocks) : blocks[b].term.kind # "none"
         /\ \E t : RunsAlong(t)
  BY DEF DeferInv, Running, Lowering

LEMMA AtOpStep ==
  ASSUME DeferInv, NEW o \in {"reg", "run"}, AtOp(o), NEW t, RunsAlong(t)
  PROVE  /\ pc.next \in Nat /\ pc.next + 1 <= Len(Code.ops) + 1 /\ t[pc.next] \in Seq(Defer) /\ live \in Seq(Defer)
         /\ o = "reg" => t[pc.next] = Append(live, ThisDefer)
         /\ o = "run" => live = Append(t[pc.next], ThisDefer)
  <1>1. pc.next \in 1..Len(Code.ops) /\ Len(Code.ops) \in Nat /\ Code.ops[pc.next].op = o /\ pc.next \in Nat /\ live \in Seq(Defer)
    BY DeferFacts, RunFacts DEF AtOp, BlockId
  <1>2. pc.next \in 0..Len(Code.ops) /\ pc.next + 1 <= Len(Code.ops) + 1
    BY <1>1
  <1>3. t \in [0..Len(Code.ops) -> Seq(Defer)] /\ OpStep(t[pc.next - 1], Code.ops[pc.next], t[pc.next]) /\ live = t[pc.next - 1]
    BY <1>1 DEF RunsAlong, TraceOf
  <1> QED BY <1>1, <1>2, <1>3 DEF OpStep, ThisDefer

(* A step of the execution that stays in its block.                        *)
LEMMA StaysInBlock ==
  ASSUME DeferInv, Running, BuildInv', NEW t, RunsAlong(t), pc.next \in Nat, pc.next + 1 <= Len(Code.ops) + 1, live' = t[pc.next],
         pc' = [pc EXCEPT !.next = @ + 1], UNCHANGED <<phase, blocks>>
  PROVE  DeferInv'
  <1>1. pc'.block = pc.block /\ pc'.next = pc.next + 1
    BY DeferFacts, RunFacts
  <1>2. Code' = Code
    BY <1>1 DEF Code
  <1>3. pc'.next - 1 = pc.next
    BY <1>1
  <1>4. RunsAlong(t)'
    BY <1>1, <1>2, <1>3 DEF RunsAlong
  <1>5. ~ Lowering'
    BY DEF Running, Lowering
  <1> QED BY <1>4, <1>5, RunningFacts DEF DeferInv

LEMMA RegisterDefers == ASSUME DeferInv, BuildInv', Register PROVE DeferInv'
  <1>1. /\ AtOp("reg") /\ Running /\ live' = Append(live, ThisDefer) /\ pc' = [pc EXCEPT !.next = @ + 1] /\ UNCHANGED <<phase, blocks>>
    BY DEF Register, AtOp
  <1>2. PICK t : RunsAlong(t)
    BY <1>1, RunningFacts
  <1>3. pc.next \in Nat /\ pc.next + 1 <= Len(Code.ops) + 1 /\ live' = t[pc.next]
    BY <1>1, <1>2, AtOpStep
  <1> QED BY <1>1, <1>2, <1>3, StaysInBlock

(* The newest registration is taken back.                                  *)
LEMMA UnregisterLast ==
  ASSUME NEW s \in Seq(Defer), NEW d \in Defer
  PROVE  Unregister(Append(s, d), d) = s
  <1> DEFINE s2 == Append(s, d)  n == Len(s) + 1
             at == {i \in 1..Len(s2) : s2[i] = d}  k == CHOOSE i \in at : \A j \in at : j <= i
  <1>1. Len(s) \in Nat /\ s2 \in Seq(Defer) /\ Len(s2) = n /\ s2[n] = d /\ n \in Nat /\ \A i \in 1..Len(s) : s2[i] = s[i]
    OBVIOUS
  <1>2. n \in at /\ \A j \in at : j <= n /\ j \in Nat
    <2> HIDE DEF s2
    <2> QED BY <1>1
  <1>3. k \in at /\ \A j \in at : j <= k
    <2> HIDE DEF at
    <2> QED BY <1>2
  <1>4. k = n
    <2> HIDE DEF at, k
    <2>1. k <= n /\ n <= k /\ k \in Nat /\ n \in Nat
      BY SMTT(60), <1>1, <1>2, <1>3
    <2> HIDE DEF n
    <2> QED BY <2>1
  <1>5. Unregister(s2, d) = SubSeq(s2, 1, k - 1) \o SubSeq(s2, k + 1, Len(s2))
    <2>1. at # {}
      BY <1>2
    <2> QED BY <2>1 DEF Unregister
  <1> HIDE DEF k, at
  <1>6. Unregister(s2, d) = SubSeq(s2, 1, Len(s)) \o SubSeq(s2, n + 1, n)
    BY <1>1, <1>4, <1>5
  <1>7. SubSeq(s2, 1, Len(s)) = s
    BY <1>1
  <1>8. SubSeq(s2, n + 1, n) = <<>>
    BY <1>1
  <1>9. s \o <<>> = s
    OBVIOUS
  <1> QED BY <1>6, <1>7, <1>8, <1>9

LEMMA RunCleanupDefers == ASSUME DeferInv, BuildInv', RunCleanup PROVE DeferInv'
  <1>1. /\ AtOp("run") /\ Running /\ live' = Unregister(live, ThisDefer) /\ pc' = [pc EXCEPT !.next = @ + 1] /\ UNCHANGED <<phase, blocks>>
    BY DEF RunCleanup, AtOp
  <1>2. PICK t : RunsAlong(t)
    BY <1>1, RunningFacts
  <1>3. pc.next \in Nat /\ pc.next + 1 <= Len(Code.ops) + 1 /\ live = Append(t[pc.next], ThisDefer) /\ t[pc.next] \in Seq(Defer)
    BY <1>1, <1>2, AtOpStep
  <1>4. ThisDefer \in Defer
    BY <1>1, DeferFacts, OpIs
  <1>5. live' = t[pc.next]
    BY <1>1, <1>3, <1>4, UnregisterLast
  <1> QED BY <1>1, <1>2, <1>3, <1>5, StaysInBlock

(* The execution is at the end of its block.                               *)
LEMMA AtTermIs ==
  ASSUME DeferInv, NEW k, AtTerm(k)
  PROVE  EndsWith(blocks, pc.block, live) /\ Code = blocks[pc.block] /\ Running /\ Code.term.kind = k
  <1>1. Running /\ pc.next > Len(Code.ops) /\ Code.term.kind = k
    BY DEF AtTerm
  <1>2. PICK t : RunsAlong(t)
    BY <1>1, RunningFacts
  <1>3. pc.next \in Nat /\ Len(Code.ops) \in Nat /\ Code = blocks[pc.block]
    BY DeferFacts, RunFacts DEF BlockId
  <1>4. EndsWith(blocks, pc.block, t[Len(Code.ops)]) /\ pc.next <= Len(Code.ops) + 1 /\ live = t[pc.next - 1]
    BY <1>2 DEF RunsAlong
  <1>5. pc.next - 1 = Len(Code.ops)
    BY <1>1, <1>3, <1>4
  <1> QED BY <1>1, <1>3, <1>4, <1>5

LEMMA JumpDefers == ASSUME DeferInv, BuildInv', Jump PROVE DeferInv'
  <1>1. AtTerm("br") /\ UNCHANGED <<phase, blocks, live>>
    BY DEF Jump
  <1>2. PICK b \in Code.term.to : pc' = [block |-> b, next |-> 1]
    BY DEF Jump
  <1>3. EndsWith(blocks, pc.block, live) /\ Code = blocks[pc.block] /\ Running
    BY <1>1, AtTermIs
  <1>4. live = blocks[b].entry
    BY <1>2, <1>3 DEF EndsWith
  <1>5. pc'.block = b /\ pc'.next = 1
    BY <1>2
  <1>6. BlocksInOrder(blocks') /\ (\A c \in 1..Len(blocks') : blocks'[c].term.kind # "none") /\ blocks'[1].entry = <<>>
    BY <1>1, <1>3, RunningFacts
  <1>7. \E t : RunsAlong(t)'
    BY <1>1, <1>4, <1>5, <1>6, EntersBlock
  <1>8. ~ Lowering'
    BY <1>1, <1>3 DEF Running, Lowering
  <1> QED BY <1>6, <1>7, <1>8 DEF DeferInv

LEMMA LeaveDefers == ASSUME DeferInv, BuildInv', Leave PROVE DeferInv'
  <1>1. phase' = "returned" /\ blocks' = blocks
    BY DEF Leave
  <1> QED BY <1>1, DeferFacts DEF DeferInv, Lowering, Running

LEMMA StutterDefers == ASSUME DeferInv, BuildInv', UNCHANGED cvars PROVE DeferInv'
  <1>1. UNCHANGED <<phase, blocks, cur, deferred, unwind, constructs, pc, live>>
    BY DEF cvars
  <1> QED BY <1>1 DEF DeferInv, Lowering, Running, DefersInOrder, RunsAlong, Code, Open, IsOpen

LEMMA StartOfDefers == ASSUME LoweringInit PROVE DeferInv
  <1> DEFINE none == <<>>
  <1>0. BuildInv
    BY StartOfInv
  <1>1. /\ phase = "lowering" /\ cur = 1 /\ deferred = none /\ unwind.why = "idle" /\ Len(constructs) = 1
        /\ constructs[1].kind = "function" /\ constructs[1].base = 0 /\ ~ constructs[1].left /\ blocks = AddBlocks(none, 1, none)
    BY DEF LoweringInit, Entry, NoUnwind
  <1>2. none \in Seq(Block) /\ none \in Seq(Defer) /\ Len(none) = 0
    OBVIOUS
  <1> HIDE DEF none
  <1>3. Added(none, 1, none, blocks)
    BY <1>1, <1>2, AddedIs
  <1>4. blocks \in Seq(Block) /\ Len(blocks) = 1 /\ blocks[1].term = OpenTerm /\ blocks[1].ops = <<>> /\ blocks[1].entry = none
    <2>1. /\ blocks \in Seq(Block) /\ Len(blocks) = Len(none) + 1
          /\ \A c \in 1..Len(blocks) : c > Len(none) => blocks[c].term = OpenTerm /\ blocks[c].ops = <<>> /\ blocks[c].entry = none
      BY <1>3 DEF Added
    <2> QED BY <1>2, <2>1
  <1>5. \A b \in 1..Len(blocks) : b = 1
    BY <1>4
  <1>6. BlocksInOrder(blocks)
    BY <1>4, <1>5, TermTypes DEF BlocksInOrder
  <1>7. Reaches(blocks[cur], LexicalOf(deferred, unwind))
    <2>1. Reaches(blocks[1], blocks[1].entry)
      BY <1>2, <1>4, EmptyReaches
    <2> QED BY <1>1, <1>4, <2>1 DEF LexicalOf
  <1>8. EntriesInOrder(blocks, constructs, deferred)
    <2>1. \A i \in 1..Len(constructs) : i = 1
      BY <1>1
    <2>2. EntryIs(blocks, constructs[1], Prefix(deferred, constructs[1].base))
      BY <1>1 DEF EntryIs, Waits
    <2> QED BY <2>1, <2>2 DEF EntriesInOrder
  <1>9. DropsDone(unwind, constructs, deferred)
    BY <1>1 DEF DropsDone
  <1>10. DefersInOrder /\ ~ Running
    BY <1>1, <1>7, <1>8, <1>9 DEF DefersInOrder, Running
  <1> QED BY <1>0, <1>4, <1>6, <1>10 DEF DeferInv, none

-----------------------------------------------------------------------------
(* The theorems. *)

LEMMA DeferStep == ASSUME ~ BareCases, DeferInv, LoweringNext PROVE DeferInv'
  <1>0. BuildInv'
    BY DeferFacts, BuildStep
  <1>1. CASE \E k \in DeferKinds : RememberDefer(k) \/ BareCaseDefer(k)
    BY <1>0, <1>1, RememberDeferDefers DEF BareCaseDefer
  <1>2. CASE RunDeferred \/ LowerBlockEnd \/ BlockUnwound
    BY <1>0, <1>2, RunDeferredDefers, LowerBlockEndDefers, BlockUnwoundDefers
  <1>3. CASE Return \/ ReturnUnwound \/ LowerBreak \/ LowerContinue \/ JumpUnwound
    BY <1>0, <1>3, ReturnDefers, ReturnUnwoundDefers, LowerBreakDefers, LowerContinueDefers, JumpUnwoundDefers
  <1>4. CASE \E falls, breaks \in BOOLEAN : SkippedStatement(falls, breaks)
    BY <1>0, <1>4, SkippedStatementDefers
  <1>5. CASE LowerBlock \/ BlockLeave \/ LowerElse \/ LowerIfEnd
    BY <1>0, <1>5, LowerBlockDefers, BlockLeaveDefers, LowerElseDefers, LowerIfEndDefers
  <1>6. CASE \E hasElse \in BOOLEAN : LowerIf(hasElse)
    BY <1>0, <1>6, LowerIfDefers
  <1>7. CASE \E n \in 0..MaxCases, d, e \in BOOLEAN : LowerSwitch(n, d, e)
    BY <1>0, <1>7, LowerSwitchDefers
  <1>8. CASE LowerCase \/ LowerCaseEnd \/ LowerSwitchEnd \/ LowerLoopEnd \/ LowerFunctionEnd
    BY <1>0, <1>8, LowerCaseDefers, LowerCaseEndDefers, LowerSwitchEndDefers, LowerLoopEndDefers, LowerFunctionEndDefers
  <1>9. CASE \E known \in {"unknown", "true", "false"}, p \in BOOLEAN : LowerLoop(known, p)
    BY <1>0, <1>9, LowerLoopDefers
  <1>10. CASE Register \/ RunCleanup \/ Jump \/ Leave
    BY <1>0, <1>10, RegisterDefers, RunCleanupDefers, JumpDefers, LeaveDefers
  <1>11. CASE LoweringDone
    BY <1>0, <1>11, StutterDefers DEF LoweringDone
  <1> QED BY <1>1, <1>2, <1>3, <1>4, <1>5, <1>6, <1>7, <1>8, <1>9, <1>10, <1>11 DEF LoweringNext

LEMMA DeferInvHolds == ASSUME ~ BareCases PROVE LoweringSpec => []DeferInv
  <1>1. LoweringInit => DeferInv
    BY StartOfDefers
  <1>2. DeferInv /\ [LoweringNext]_cvars => DeferInv'
    BY DeferStep, StutterDefers, StutterInv, DeferFacts
  <1> QED BY <1>1, <1>2, PTL DEF LoweringSpec

(* A deferred statement runs only while it is registered and the newest,   *)
(* and no function returns before all have run: run_deferred_from, called  *)
(* at every way out of a block, is right for every function in which no    *)
(* case of a switch is a bare defer (there it is not, as a run shows).     *)
THEOREM DefersRunInOrder == ASSUME ~ BareCases PROVE LoweringSpec => []DeferDiscipline
  <1>1. ASSUME DeferInv PROVE DeferDiscipline
    <2>1. ASSUME AtOp("run") PROVE Len(live) > 0 /\ live[Len(live)] = ThisDefer
      <3>1. PICK t : RunsAlong(t)
        BY <1>1, <2>1, RunningFacts DEF AtOp
      <3>2. live = Append(t[pc.next], ThisDefer) /\ t[pc.next] \in Seq(Defer)
        BY <1>1, <2>1, <3>1, AtOpStep
      <3>3. ThisDefer \in Defer
        BY <1>1, <2>1, DeferFacts, OpIs
      <3> QED BY <3>2, <3>3
    <2>2. ASSUME AtTerm("ret") PROVE live = <<>>
      BY <1>1, <2>2, AtTermIs DEF EndsWith
    <2> QED BY <2>1, <2>2 DEF DeferDiscipline
  <1> QED BY <1>1, DeferInvHolds, PTL

(* Every block is entered with exactly the defers registered that the      *)
(* source has registered there, whichever jump leads to it: those that     *)
(* break, continue and the end of a loop's body leave registered agree.    *)
THEOREM JumpsKeepTheScope == ASSUME ~ BareCases PROVE LoweringSpec => []BlocksEnteredLexically
  <1>1. ASSUME DeferInv PROVE BlocksEnteredLexically
    <2> SUFFICES ASSUME Running, pc.next = 1 PROVE live = Code.entry
      BY DEF BlocksEnteredLexically
    <2>1. PICK t : RunsAlong(t)
      BY <1>1, RunningFacts
    <2>2. t[0] = Code.entry /\ live = t[1 - 1]
      BY <2>1 DEF RunsAlong, TraceOf
    <2> QED BY <2>2
  <1> QED BY <1>1, DeferInvHolds, PTL

=============================================================================
