----------------------------- MODULE ArenaProof -----------------------------
(***************************************************************************)
(* Proofs about RuntimeArena, for every address space, block size and      *)
(* every set of sizes and alignments a client may ask for.                 *)
(***************************************************************************)
EXTENDS RuntimeArena, TLAPS

LEMMA Constants ==
  /\ AddressSpace \in Nat \ {0} /\ HeaderSize \in Nat \ {0} /\ BlockSize \in Nat \ {0}
  /\ Word \in Nat \ {0} /\ ArenaSize \in Nat \ {0}
  /\ Sizes \subseteq Nat /\ Alignments \subseteq Nat \ {0}
  BY ArenaAssumption

USE Constants

-----------------------------------------------------------------------------
(* The inductive invariant. *)

\* The alignments that reach the arena: AddressSpace is a multiple of each.
Aligning == {a \in Nat \ {0} : AddressSpace % a = 0}

BlockType  == [base : Nat, capacity : Nat, used : Nat]
RegionType == [at : Nat, size : Nat \ {0}, alignment : Aligning]

ArenaTypes ==
  /\ phase \in {"ready", "retired", "aborted"}
  /\ blocks \in Seq(BlockType)
  /\ current \in 0..Len(blocks)
  /\ live \in Seq(RegionType)
  /\ scopes \in Seq(Scope)

\* A block lies behind its header in the address space and is not overfull.
BlockFits(b) ==
  /\ b.base > HeaderSize
  /\ b.base + b.capacity <= AddressSpace - 1
  /\ b.used <= b.capacity

\* Two blocks, headers included, have no byte in common.
BlocksApart(b, c) ==
  b.base + b.capacity <= c.base - HeaderSize \/ c.base + c.capacity <= b.base - HeaderSize

\* The chain of blocks: those behind the current one are empty.
ChainInOrder ==
  /\ \A k \in 1..Len(blocks) : BlockFits(blocks[k])
  /\ \A j, k \in 1..Len(blocks) : j # k => BlocksApart(blocks[j], blocks[k])
  /\ current = NoBlock => Len(blocks) = 0
  /\ \A k \in 1..Len(blocks) : k > current => blocks[k].used = 0

\* The region r lies in the first limit bytes of the block b.
Within(r, b, limit) == b.base <= r.at /\ r.at + r.size <= b.base + limit

\* What the client holds: in the used part of a block, aligned, and apart.
RegionsInOrder ==
  /\ \A i \in 1..Len(live) : \E k \in 1..Len(blocks) : Within(live[i], blocks[k], blocks[k].used)
  /\ \A i \in 1..Len(live) : live[i].at % live[i].alignment = 0
  /\ \A i, j \in 1..Len(live) : i # j => ~Overlap(live[i], live[j])

\* What is older than a scope lies below its mark, so that a rewind spares it.
BelowMark(s) ==
  \A i \in 1..s.kept : \E k \in 1..Len(blocks) :
    /\ Within(live[i], blocks[k], blocks[k].used)
    /\ k <= s.block
    /\ k = s.block => Within(live[i], blocks[k], s.used)

MarkFits(s) ==
  /\ s.block <= Len(blocks) /\ s.kept <= Len(live)
  /\ s.block # NoBlock => s.used <= blocks[s.block].capacity

MarksInOrder ==
  /\ \A n \in 1..Len(scopes) : MarkFits(scopes[n]) /\ BelowMark(scopes[n])
  /\ \A m, n \in 1..Len(scopes) : m < n => scopes[m].kept <= scopes[n].kept

\* While the arena is not reset, the blocks in front of a scope's mark are as
\* they were when it began, and those behind the mark were empty then.
Undisturbed(s) ==
  /\ s.block <= current
  /\ s.block <= Len(s.before) /\ Len(s.before) <= Len(blocks)
  /\ s.block = NoBlock => Len(s.before) = 0
  /\ s.block # NoBlock => s.before[s.block] = s.used
  /\ \A k \in 1..Len(s.before) : k < s.block => s.before[k] = blocks[k].used
  /\ \A k \in 1..Len(s.before) : k > s.block => s.before[k] = 0

ScopesNest ==
  /\ \A n \in 1..Len(scopes) : scopes[n].fresh => Undisturbed(scopes[n])
  /\ \A m, n \in 1..Len(scopes) :
       m < n /\ scopes[m].fresh => scopes[n].fresh /\ scopes[m].block <= scopes[n].block

ArenaInv == ArenaTypes /\ ChainInOrder /\ RegionsInOrder /\ MarksInOrder /\ ScopesNest /\ NothingLeaks

-----------------------------------------------------------------------------
(* Addresses. *)

LEMMA RoundDown ==
  ASSUME NEW v \in Nat, NEW a \in Nat \ {0}
  PROVE  /\ (v \div a) * a \in Nat
         /\ (v \div a) * a <= v
         /\ v < (v \div a) * a + a
         /\ ((v \div a) * a) % a = 0
  OBVIOUS

LEMMA RoundToZero == ASSUME NEW v \in Nat, NEW a \in Nat \ {0}, v < a PROVE (v \div a) * a = 0
  <1>1. v \div a = 0
    OBVIOUS
  <1> QED BY <1>1

\* coglet_rt_align_up_uintptr rounds up, unless the sum wraps; then it yields 0.
LEMMA AlignUpRounds ==
  ASSUME NEW v \in 0..(AddressSpace - 1), NEW a \in Aligning
  PROVE  /\ AlignUp(v, a) \in Nat
         /\ AlignUp(v, a) % a = 0
         /\ AlignUp(v, a) = 0 \/ (v <= AlignUp(v, a) /\ AlignUp(v, a) <= v + (a - 1))
         /\ v + (a - 1) < AddressSpace => v <= AlignUp(v, a) /\ AlignUp(v, a) <= v + (a - 1)
  <1> DEFINE sum == v + (a - 1)
  <1>1. sum \in Nat /\ sum % AddressSpace \in Nat /\ AddressSpace \in Nat \ {0} /\ a \in Nat \ {0}
    BY DEF Aligning
  <1>2. CASE sum < AddressSpace
    <2>1. sum % AddressSpace = sum
      BY <1>1, <1>2
    <2>2. AlignUp(v, a) = (sum \div a) * a
      BY <2>1 DEF AlignUp
    <2>3. /\ AlignUp(v, a) \in Nat /\ AlignUp(v, a) <= sum
          /\ sum < AlignUp(v, a) + a /\ AlignUp(v, a) % a = 0
      <3> HIDE DEF sum
      <3> QED BY <1>1, <2>2, RoundDown
    <2> QED BY <1>1, <2>3
  <1>3. CASE sum >= AddressSpace
    <2>1. AddressSpace >= a
      BY <1>1 DEF Aligning
    <2>2. sum - AddressSpace \in 0..(a - 1) /\ sum - AddressSpace < AddressSpace
      BY <1>1, <1>3, <2>1
    <2>3. sum % AddressSpace = sum - AddressSpace
      BY <1>1, <2>2, <1>3
    <2>4. AlignUp(v, a) = ((sum - AddressSpace) \div a) * a
      BY <2>3 DEF AlignUp
    <2>5. AlignUp(v, a) = 0
      <3> DEFINE rest == sum - AddressSpace
      <3>1. rest \in Nat /\ rest < a
        BY <1>1, <2>2
      <3>2. AlignUp(v, a) = (rest \div a) * a
        BY <2>4
      <3> HIDE DEF rest
      <3> QED BY <1>1, <3>1, <3>2, RoundToZero
    <2> QED BY <1>1, <1>3, <2>5
  <1> QED BY <1>1, <1>2, <1>3

LEMMA CheckedIsAligning == ASSUME NEW a \in Alignments PROVE CheckedAlignment(a) \in Aligning
  BY ArenaAssumption DEF CheckedAlignment, Aligning

\* The test of coglet_rt_mem_arena_alloc is enough: where it succeeds, the region
\* lies behind what is used and ends inside the block.
LEMMA FitsIsRoom ==
  ASSUME NEW b \in BlockType, BlockFits(b), NEW size \in Nat \ {0}, NEW a \in Aligning, Fits(b, size, a)
  PROVE  /\ Placed(b, size, a) \in RegionType
         /\ Placed(b, size, a).at % a = 0
         /\ Placed(b, size, a).at >= b.base + b.used
         /\ Bump(b, size, a) \in BlockType
         /\ Bump(b, size, a).base = b.base /\ Bump(b, size, a).capacity = b.capacity
         /\ Bump(b, size, a).used >= b.used
         /\ BlockFits(Bump(b, size, a))
         /\ Placed(b, size, a).at + size = b.base + Bump(b, size, a).used
  <1> DEFINE v == b.base + b.used  up == AlignUp(v, a)
  <1>1. v \in 0..(AddressSpace - 1) /\ b.base \in Nat /\ b.used \in Nat /\ b.capacity \in Nat /\ b.base > 0
    BY DEF BlockFits, BlockType
  <1>2. up \in Nat /\ up % a = 0 /\ (up = 0 \/ v <= up)
    BY <1>1, AlignUpRounds
  <1>3. up >= b.base /\ size <= b.capacity /\ up - b.base <= b.capacity - size
    BY DEF Fits
  <1>4. up >= v
    BY <1>1, <1>2, <1>3
  <1>5. up - b.base + size \in Nat /\ up - b.base + size <= b.capacity /\ up - b.base + size >= b.used
    BY <1>1, <1>2, <1>3, <1>4
  <1>6. Bump(b, size, a) = [base |-> b.base, capacity |-> b.capacity, used |-> up - b.base + size]
    BY DEF Bump, BlockType
  <1>7. Placed(b, size, a) = [at |-> up, size |-> size, alignment |-> a]
    BY DEF Placed
  <1> HIDE DEF up
  <1> QED BY <1>1, <1>2, <1>3, <1>4, <1>5, <1>6, <1>7 DEF BlockType, RegionType, BlockFits

\* coglet_rt_mem_arena_new_block asks for enough: the region fits whatever padding
\* the place of the block makes necessary.
LEMMA NewBlockHasRoom ==
  ASSUME NEW size \in Nat \ {0}, NEW a \in Aligning,
         NEW place \in ParentPlaces(HeaderSize + Payload(size, a)), NEW b,
         b = [base |-> place + HeaderSize, capacity |-> Payload(size, a), used |-> 0]
  PROVE  b \in BlockType /\ BlockFits(b) /\ Fits(b, size, a)
  <1>1. place \in Nat /\ place > 0 /\ place + (HeaderSize + Payload(size, a)) <= AddressSpace - 1
    BY DEF ParentPlaces
  <1>2. Payload(size, a) \in Nat /\ Payload(size, a) >= size + (a - 1) /\ a \in Nat \ {0}
    BY DEF Payload, Needed, Aligning
  <1>3. b \in BlockType /\ BlockFits(b) /\ b.base \in 0..(AddressSpace - 1)
    BY <1>1, <1>2 DEF BlockType, BlockFits
  <1>4. b.base + (a - 1) < AddressSpace
    BY <1>1, <1>2
  <1>5. b.base <= AlignUp(b.base, a) /\ AlignUp(b.base, a) <= b.base + (a - 1) /\ AlignUp(b.base, a) \in Nat
    BY <1>3, <1>4, AlignUpRounds
  <1>6. b.base + b.used = b.base
    BY <1>1
  <1>7. Fits(b, size, a)
    BY <1>1, <1>2, <1>5, <1>6 DEF Fits
  <1> QED BY <1>3, <1>7

LEMMA ElementTypes ==
  ASSUME ArenaTypes
  PROVE  /\ Len(blocks) \in Nat /\ Len(live) \in Nat /\ Len(scopes) \in Nat
         /\ \A k \in 1..Len(blocks) : /\ blocks[k] \in BlockType
                                      /\ blocks[k].base \in Nat /\ blocks[k].capacity \in Nat /\ blocks[k].used \in Nat
         /\ \A i \in 1..Len(live) : /\ live[i] \in RegionType
                                    /\ live[i].at \in Nat /\ live[i].size \in Nat \ {0} /\ live[i].alignment \in Aligning
         /\ \A n \in 1..Len(scopes) : /\ scopes[n] \in Scope
                                      /\ scopes[n].block \in Nat /\ scopes[n].used \in Nat /\ scopes[n].kept \in Nat
                                      /\ scopes[n].before \in Seq(Nat) /\ scopes[n].fresh \in BOOLEAN
  <1>1. Len(blocks) \in Nat /\ \A k \in 1..Len(blocks) : blocks[k] \in BlockType
    BY DEF ArenaTypes
  <1>2. Len(live) \in Nat /\ \A i \in 1..Len(live) : live[i] \in RegionType
    BY DEF ArenaTypes
  <1>3. Len(scopes) \in Nat /\ \A n \in 1..Len(scopes) : scopes[n] \in Scope
    BY DEF ArenaTypes
  <1>4. \A b \in BlockType : b.base \in Nat /\ b.capacity \in Nat /\ b.used \in Nat
    BY DEF BlockType
  <1>5. \A r \in RegionType : r.at \in Nat /\ r.size \in Nat \ {0} /\ r.alignment \in Aligning
    BY DEF RegionType
  <1>6. \A s \in Scope : s.block \in Nat /\ s.used \in Nat /\ s.kept \in Nat /\ s.before \in Seq(Nat) /\ s.fresh \in BOOLEAN
    BY DEF Scope
  <1> QED BY <1>1, <1>2, <1>3, <1>4, <1>5, <1>6

-----------------------------------------------------------------------------
(* What stays when an allocation goes. *)

\* Where the j-th allocation that is left was before the i-th one went.
Earlier(i, j) == IF i = 0 \/ j < i THEN j ELSE j + 1

LEMMA WithoutElements ==
  ASSUME NEW S, NEW s \in Seq(S), NEW i \in 1..Len(s)
  PROVE  /\ Without(s, i) \in Seq(S)
         /\ Len(Without(s, i)) = Len(s) - 1
         /\ \A k \in 1..(Len(s) - 1) : Without(s, i)[k] = s[IF k < i THEN k ELSE k + 1]
  <1> DEFINE f == SubSeq(s, 1, i - 1)  g == SubSeq(s, i + 1, Len(s))
  <1>1. f \in Seq(S) /\ Len(f) = i - 1 /\ \A k \in 1..(i - 1) : f[k] = s[k]
    OBVIOUS
  <1>2. g \in Seq(S) /\ Len(g) = Len(s) - i /\ \A k \in 1..(Len(s) - i) : g[k] = s[i + k]
    OBVIOUS
  <1>3. Without(s, i) = f \o g
    BY DEF Without, Prefix
  <1> HIDE DEF f, g
  <1>4. Without(s, i) \in Seq(S) /\ Len(Without(s, i)) = Len(s) - 1
    BY <1>1, <1>2, <1>3
  <1>5. ASSUME NEW k \in 1..(Len(s) - 1) PROVE Without(s, i)[k] = s[IF k < i THEN k ELSE k + 1]
    <2>1. CASE k < i
      BY <1>1, <1>2, <1>3, <2>1
    <2>2. CASE k >= i
      <3>1. Without(s, i)[k] = g[k - (i - 1)] /\ k - (i - 1) \in 1..(Len(s) - i)
        BY <1>1, <1>2, <1>3, <2>2
      <3> QED BY <1>2, <2>2, <3>1
    <2> QED BY <2>1, <2>2
  <1> QED BY <1>4, <1>5

LEMMA HeldElements ==
  ASSUME ArenaTypes, NEW i \in 0..Len(live)
  PROVE  /\ Held(i) \in Seq(RegionType)
         /\ Len(Held(i)) = IF i = 0 THEN Len(live) ELSE Len(live) - 1
         /\ Len(Held(i)) \in Nat
         /\ \A j \in 1..Len(Held(i)) : Earlier(i, j) \in 1..Len(live) /\ Held(i)[j] = live[Earlier(i, j)]
  <1>1. CASE i = 0
    BY <1>1 DEF Held, Earlier, ArenaTypes
  <1>2. CASE i # 0
    <2>1. i \in 1..Len(live) /\ live \in Seq(RegionType) /\ Len(live) \in Nat
      BY <1>2 DEF ArenaTypes
    <2>2. Held(i) = Without(live, i)
      BY <1>2 DEF Held
    <2>3. /\ Held(i) \in Seq(RegionType) /\ Len(Held(i)) = Len(live) - 1
          /\ \A k \in 1..(Len(live) - 1) : Held(i)[k] = live[IF k < i THEN k ELSE k + 1]
      BY <2>1, <2>2, WithoutElements
    <2> QED BY <1>2, <2>1, <2>3 DEF Earlier
  <1> QED BY <1>1, <1>2

LEMMA KeptElements ==
  ASSUME ArenaTypes, MarksInOrder, NEW i \in 0..Len(live)
  PROVE  /\ KeptWithout(i) \in Seq(Scope)
         /\ Len(KeptWithout(i)) = Len(scopes)
         /\ \A n \in 1..Len(scopes) :
              LET s == scopes[n]  t == KeptWithout(i)[n] IN
              /\ t.block = s.block /\ t.used = s.used /\ t.before = s.before /\ t.fresh = s.fresh
              /\ t.kept = IF i > 0 /\ i <= s.kept THEN s.kept - 1 ELSE s.kept
              /\ t.kept <= Len(Held(i))
              /\ \A j \in 1..t.kept : j \in 1..Len(Held(i)) /\ Earlier(i, j) \in 1..s.kept
  <1>1. \A n \in 1..Len(scopes) : scopes[n] \in Scope /\ scopes[n].kept \in 0..Len(live)
    BY ElementTypes DEF MarksInOrder, MarkFits
  <1> DEFINE F(n) == [scopes[n] EXCEPT !.kept = IF i > 0 /\ i <= @ THEN @ - 1 ELSE @]
  <1>2. KeptWithout(i) = [n \in 1..Len(scopes) |-> F(n)]
    BY DEF KeptWithout
  <1>3. Len(scopes) \in Nat /\ Len(live) \in Nat
    BY DEF ArenaTypes
  <1>4. ASSUME NEW n \in 1..Len(scopes)
        PROVE  /\ F(n) \in Scope
               /\ F(n).block = scopes[n].block /\ F(n).used = scopes[n].used
               /\ F(n).before = scopes[n].before /\ F(n).fresh = scopes[n].fresh
               /\ F(n).kept = IF i > 0 /\ i <= scopes[n].kept THEN scopes[n].kept - 1 ELSE scopes[n].kept
    <2> DEFINE s == scopes[n]
               m == IF i > 0 /\ i <= s.kept THEN s.kept - 1 ELSE s.kept
    <2>1. s \in Scope /\ m \in Nat
      BY <1>1, <1>3
    <2>2. F(n) = [s EXCEPT !.kept = m]
      OBVIOUS
    <2> HIDE DEF s, m, F
    <2>3. /\ F(n) \in Scope /\ F(n).kept = m
          /\ F(n).block = s.block /\ F(n).used = s.used /\ F(n).before = s.before /\ F(n).fresh = s.fresh
      BY <2>1, <2>2 DEF Scope
    <2> QED BY <2>3 DEF s, m
  <1> HIDE DEF F
  <1>5. KeptWithout(i) \in Seq(Scope) /\ Len(KeptWithout(i)) = Len(scopes)
    BY <1>2, <1>3, <1>4
  <1>6. ASSUME NEW n \in 1..Len(scopes)
        PROVE  /\ F(n).kept <= Len(Held(i))
               /\ \A j \in 1..F(n).kept : j \in 1..Len(Held(i)) /\ Earlier(i, j) \in 1..scopes[n].kept
    <2>1. Len(Held(i)) = IF i = 0 THEN Len(live) ELSE Len(live) - 1
      BY HeldElements
    <2>2. scopes[n].kept \in 0..Len(live) /\ F(n).kept = IF i > 0 /\ i <= scopes[n].kept THEN scopes[n].kept - 1 ELSE scopes[n].kept
      BY <1>1, <1>4
    <2> QED BY <1>3, <2>1, <2>2 DEF Earlier
  <1> QED BY <1>2, <1>4, <1>5, <1>6

\* The blocks only grow: what a scope keeps stays below its mark, and what the
\* client still holds stays in place.
LEMMA HeldStays ==
  ASSUME ArenaInv, NEW i \in 0..Len(live),
         Len(blocks) <= Len(blocks'), Len(blocks') \in Nat,
         \A k \in 1..Len(blocks) :
           /\ blocks'[k].base = blocks[k].base /\ blocks'[k].capacity = blocks[k].capacity
           /\ blocks'[k].used >= blocks[k].used /\ blocks'[k].used \in Nat,
         scopes' = KeptWithout(i),
         Len(live') \in Nat, Len(live') >= Len(Held(i)),
         \A j \in 1..Len(Held(i)) : live'[j] = Held(i)[j]
  PROVE  /\ MarksInOrder'
         /\ \A j \in 1..Len(Held(i)) : \E k \in 1..Len(blocks') : Within(live'[j], blocks'[k], blocks'[k].used)
         /\ \A j \in 1..Len(Held(i)) : live'[j].at % live'[j].alignment = 0
         /\ \A j, k \in 1..Len(Held(i)) : j # k => ~Overlap(live'[j], live'[k])
  <1>1. /\ ArenaTypes /\ MarksInOrder /\ RegionsInOrder
        /\ Len(blocks) \in Nat /\ Len(live) \in Nat /\ Len(scopes) \in Nat
    BY DEF ArenaInv, ArenaTypes
  <1>2. /\ Len(Held(i)) \in Nat
        /\ \A j \in 1..Len(Held(i)) : Earlier(i, j) \in 1..Len(live) /\ live'[j] = live[Earlier(i, j)]
    BY <1>1, HeldElements
  <1>3. ASSUME NEW j \in 1..Len(live), NEW k \in 1..Len(blocks), NEW limit \in Nat,
               Within(live[j], blocks[k], limit)
        PROVE  Within(live[j], blocks'[k], limit)
    BY <1>3 DEF Within
  <1>4. ASSUME NEW j \in 1..Len(live), NEW k \in 1..Len(blocks), Within(live[j], blocks[k], blocks[k].used)
        PROVE  k \in 1..Len(blocks') /\ Within(live[j], blocks'[k], blocks'[k].used)
    <2>1. /\ live[j].at \in Nat /\ live[j].size \in Nat /\ blocks[k].base \in Nat /\ blocks[k].used \in Nat
          /\ blocks'[k].base = blocks[k].base /\ blocks'[k].used >= blocks[k].used /\ blocks'[k].used \in Nat
      BY <1>1, ElementTypes
    <2>2. k \in 1..Len(blocks')
      BY <1>1
    <2>3. blocks[k].base <= live[j].at /\ live[j].at + live[j].size <= blocks[k].base + blocks[k].used
      BY <1>4 DEF Within
    <2>4. live[j].at + live[j].size <= blocks'[k].base + blocks'[k].used
      <3>1. ASSUME NEW x \in Nat, NEW y \in Nat, NEW u \in Nat, NEW v \in Nat, NEW w \in Nat,
                   x + y <= u + v, w >= v
            PROVE  x + y <= u + w
        BY ONLY <3>1
      <3> QED BY <2>1, <2>3, <3>1
    <2> QED BY <2>1, <2>2, <2>3, <2>4 DEF Within
  <1>5. \A j \in 1..Len(Held(i)) : \E k \in 1..Len(blocks') : Within(live'[j], blocks'[k], blocks'[k].used)
    BY <1>1, <1>2, <1>4 DEF RegionsInOrder
  <1>6. \A j \in 1..Len(Held(i)) : live'[j].at % live'[j].alignment = 0
    BY <1>1, <1>2 DEF RegionsInOrder
  <1>7. \A j, k \in 1..Len(Held(i)) : j # k => ~Overlap(live'[j], live'[k])
    <2>1. \A j, k \in 1..Len(Held(i)) : j # k => Earlier(i, j) # Earlier(i, k)
      BY <1>1, <1>2 DEF Earlier
    <2> QED BY <1>1, <1>2, <2>1 DEF RegionsInOrder
  <1>8. ASSUME NEW n \in 1..Len(scopes') PROVE MarkFits(scopes[n])' /\ BelowMark(scopes[n])'
    <2> DEFINE s == scopes[n]  t == scopes'[n]
    <2>0. n \in 1..Len(scopes)
      BY <1>1, KeptElements
    <2>1. /\ n \in 1..Len(scopes)
          /\ t.block = s.block /\ t.used = s.used /\ t.kept <= Len(Held(i))
          /\ \A j \in 1..t.kept : j \in 1..Len(Held(i)) /\ Earlier(i, j) \in 1..s.kept
      BY <1>1, <2>0, KeptElements
    <2>2. MarkFits(s) /\ BelowMark(s)
      BY <1>1, <2>1 DEF MarksInOrder
    <2>3. s \in Scope
      BY <1>1, <2>1 DEF ArenaTypes
    <2>4. t \in Scope
      BY <1>1, <2>1, KeptElements
    <2>5. MarkFits(scopes[n])'
      <3>1. s.block \in Nat /\ t.kept \in Nat /\ s.block <= Len(blocks)
        BY <2>2, <2>3, <2>4 DEF Scope, MarkFits
      <3>2. s.block # NoBlock => s.used <= blocks'[s.block].capacity
        BY SMTT(40), <1>1, <2>2, <3>1 DEF MarkFits, NoBlock
      <3> QED BY <1>1, <1>2, <2>1, <3>1, <3>2 DEF MarkFits
    <2>6. ASSUME NEW j \in 1..t.kept
          PROVE  \E k \in 1..Len(blocks') :
                   /\ Within(live'[j], blocks'[k], blocks'[k].used)
                   /\ k <= t.block
                   /\ k = t.block => Within(live'[j], blocks'[k], t.used)
      <3>1. j \in 1..Len(Held(i)) /\ Earlier(i, j) \in 1..s.kept /\ Earlier(i, j) \in 1..Len(live) /\ live'[j] = live[Earlier(i, j)]
        BY <1>2, <2>1
      <3>2. PICK k \in 1..Len(blocks) :
                   /\ Within(live[Earlier(i, j)], blocks[k], blocks[k].used)
                   /\ k <= s.block
                   /\ k = s.block => Within(live[Earlier(i, j)], blocks[k], s.used)
        BY <2>2, <3>1 DEF BelowMark
      <3>3. s.used \in Nat
        BY <2>3 DEF Scope
      <3> QED BY <1>3, <1>4, <2>1, <3>1, <3>2, <3>3
    <2> QED BY <2>5, <2>6 DEF BelowMark
  <1>9. \A m, n \in 1..Len(scopes') : m < n => scopes'[m].kept <= scopes'[n].kept
    <2>1. \A n \in 1..Len(scopes) : scopes[n].kept \in Nat
      BY <1>1, ElementTypes
    <2>2. /\ Len(scopes') = Len(scopes)
          /\ \A n \in 1..Len(scopes) : scopes'[n].kept = IF i > 0 /\ i <= scopes[n].kept THEN scopes[n].kept - 1 ELSE scopes[n].kept
      BY <1>1, KeptElements
    <2>3. \A m, n \in 1..Len(scopes) : m < n => scopes[m].kept <= scopes[n].kept
      BY <1>1 DEF MarksInOrder
    <2>4. ASSUME NEW m \in 1..Len(scopes), NEW n \in 1..Len(scopes), m < n PROVE scopes'[m].kept <= scopes'[n].kept
      <3> DEFINE a == scopes[m].kept  b == scopes[n].kept
      <3>1. a \in Nat /\ b \in Nat /\ a <= b
        BY <2>1, <2>3, <2>4
      <3>2. /\ scopes'[m].kept = IF i > 0 /\ i <= a THEN a - 1 ELSE a
            /\ scopes'[n].kept = IF i > 0 /\ i <= b THEN b - 1 ELSE b
        BY <2>2
      <3>3. i \in Nat
        BY <1>1
      <3> HIDE DEF a, b
      <3> QED BY ONLY <3>1, <3>2, <3>3
    <2> QED BY <2>2, <2>4
  <1>10. MarksInOrder'
    BY <1>8, <1>9 DEF MarksInOrder
  <1> QED BY <1>5, <1>6, <1>7, <1>10

\* The blocks in front of the current one are left alone: no scope is disturbed.
LEMMA ScopesStay ==
  ASSUME ArenaInv, NEW i \in 0..Len(live), scopes' = KeptWithout(i),
         Len(blocks) <= Len(blocks'), Len(blocks') \in Nat, current <= current', current' \in Nat,
         \A k \in 1..Len(blocks) : k < current => blocks'[k].used = blocks[k].used
  PROVE  ScopesNest'
  <1>1. /\ ArenaTypes /\ MarksInOrder /\ ScopesNest /\ current \in Nat
        /\ Len(blocks) \in Nat /\ Len(scopes) \in Nat
        /\ \A n \in 1..Len(scopes) : scopes[n].block \in Nat /\ Len(scopes[n].before) \in Nat
    BY ElementTypes DEF ArenaInv, ArenaTypes
  <1>2. Len(scopes') = Len(scopes)
    BY <1>1, KeptElements
  <1>3. \A n \in 1..Len(scopes) :
          /\ scopes'[n].block = scopes[n].block /\ scopes'[n].used = scopes[n].used
          /\ scopes'[n].before = scopes[n].before /\ scopes'[n].fresh = scopes[n].fresh
    BY <1>1, KeptElements
  <1>4. ASSUME NEW n \in 1..Len(scopes), scopes[n].fresh PROVE Undisturbed(scopes[n])'
    <2>1. Undisturbed(scopes[n])
      BY <1>1, <1>4 DEF ScopesNest
    <2>2. \A k \in 1..Len(scopes[n].before) : k < scopes[n].block => scopes[n].before[k] = blocks'[k].used
      BY SMTT(40), <1>1, <2>1 DEF Undisturbed
    <2>3. /\ scopes[n].block <= current /\ scopes[n].block \in Nat
          /\ scopes[n].block <= Len(scopes[n].before) /\ Len(scopes[n].before) <= Len(blocks) /\ Len(scopes[n].before) \in Nat
          /\ scopes[n].block = NoBlock => Len(scopes[n].before) = 0
          /\ scopes[n].block # NoBlock => scopes[n].before[scopes[n].block] = scopes[n].used
          /\ \A k \in 1..Len(scopes[n].before) : k > scopes[n].block => scopes[n].before[k] = 0
      BY <1>1, <2>1 DEF Undisturbed
    <2>4. scopes[n].block <= current' /\ Len(scopes[n].before) <= Len(blocks')
      BY <1>1, <2>3
    <2> QED BY <1>3, <2>2, <2>3, <2>4 DEF Undisturbed
  <1>5. \A m, n \in 1..Len(scopes) :
          m < n /\ scopes[m].fresh => scopes[n].fresh /\ scopes[m].block <= scopes[n].block
    BY <1>1 DEF ScopesNest
  <1> QED BY SMTT(40), <1>2, <1>3, <1>4, <1>5 DEF ScopesNest

\* A region behind what is used of a block touches nothing the client holds.
LEMMA RoomIsFree ==
  ASSUME ArenaInv, NEW b \in BlockType, BlockFits(b),
         \A k \in 1..Len(blocks) : blocks[k] = b \/ BlocksApart(blocks[k], b),
         NEW r \in RegionType, r.at >= b.base + b.used, r.at + r.size <= b.base + b.capacity,
         NEW i \in 1..Len(live)
  PROVE  r.at + r.size <= live[i].at \/ live[i].at + live[i].size <= r.at
  <1>1. PICK k \in 1..Len(blocks) : Within(live[i], blocks[k], blocks[k].used)
    BY DEF ArenaInv, RegionsInOrder
  <1>2. /\ blocks[k].base \in Nat /\ blocks[k].capacity \in Nat /\ blocks[k].used \in Nat
        /\ live[i].at \in Nat /\ live[i].size \in Nat /\ blocks[k].used <= blocks[k].capacity
    BY ElementTypes DEF ArenaInv, ChainInOrder, BlockFits
  <1>3. /\ b.base \in Nat /\ b.capacity \in Nat /\ b.used \in Nat /\ r.at \in Nat /\ r.size \in Nat
    BY DEF BlockType, RegionType
  <1>4. CASE blocks[k] = b
    BY SMTT(40), <1>1, <1>2, <1>3, <1>4 DEF Within
  <1>5. CASE BlocksApart(blocks[k], b)
    <2>1. /\ blocks[k].base <= live[i].at /\ live[i].at + live[i].size <= blocks[k].base + blocks[k].used
          /\ \/ blocks[k].base + blocks[k].capacity <= b.base - HeaderSize
             \/ b.base + b.capacity <= blocks[k].base - HeaderSize
          /\ r.at >= b.base + b.used /\ r.at + r.size <= b.base + b.capacity
      BY <1>1, <1>5 DEF Within, BlocksApart
    <2> DEFINE b1 == blocks[k].base  c1 == blocks[k].capacity  u1 == blocks[k].used
               b2 == b.base  c2 == b.capacity  u2 == b.used
               x == live[i].at  m == live[i].size  y == r.at  n == r.size
    <2>2. /\ b1 \in Nat /\ c1 \in Nat /\ u1 \in Nat /\ b2 \in Nat /\ c2 \in Nat /\ u2 \in Nat
          /\ x \in Nat /\ m \in Nat /\ y \in Nat /\ n \in Nat
      BY <1>2, <1>3
    <2>3. /\ u1 <= c1 /\ b1 <= x /\ x + m <= b1 + u1 /\ y >= b2 + u2 /\ y + n <= b2 + c2
          /\ b1 + c1 <= b2 - HeaderSize \/ b2 + c2 <= b1 - HeaderSize
      BY <1>2, <2>1
    <2> HIDE DEF b1, c1, u1, b2, c2, u2, x, m, y, n
    <2>4. y + n <= x \/ x + m <= y
      <3>1. CASE b1 + c1 <= b2 - HeaderSize
        BY ONLY Constants, <2>2, <2>3, <3>1
      <3>2. CASE b2 + c2 <= b1 - HeaderSize
        BY ONLY Constants, <2>2, <2>3, <3>2
      <3> QED BY <2>3, <3>1, <3>2
    <2> QED BY <2>4 DEF x, m, y, n
  <1> QED BY <1>4, <1>5

\* The client's new region is in order when it lies in the used part of a block,
\* is aligned and touches nothing that is held.
LEMMA RegionAdded ==
  ASSUME ArenaInv, NEW i \in 0..Len(live), NEW r \in RegionType,
         Len(blocks) <= Len(blocks'), Len(blocks') \in Nat,
         \A k \in 1..Len(blocks) :
           /\ blocks'[k].base = blocks[k].base /\ blocks'[k].capacity = blocks[k].capacity
           /\ blocks'[k].used >= blocks[k].used /\ blocks'[k].used \in Nat,
         scopes' = KeptWithout(i), live' = Append(Held(i), r),
         NEW b \in 1..Len(blocks'), Within(r, blocks'[b], blocks'[b].used),
         r.at % r.alignment = 0,
         \A j \in 1..Len(live) : r.at + r.size <= live[j].at \/ live[j].at + live[j].size <= r.at
  PROVE  live' \in Seq(RegionType) /\ RegionsInOrder' /\ MarksInOrder'
  <1> DEFINE h == Len(Held(i))
  <1>1. Held(i) \in Seq(RegionType) /\ h \in Nat
    BY HeldElements DEF ArenaInv
  <1>2. /\ live' \in Seq(RegionType) /\ Len(live') = h + 1 /\ live'[h + 1] = r
        /\ \A j \in 1..h : live'[j] = Held(i)[j]
    BY <1>1
  <1>3. Len(live') \in Nat /\ Len(live') >= Len(Held(i))
    BY <1>1, <1>2
  <1>4. /\ MarksInOrder'
        /\ \A j \in 1..h : \E k \in 1..Len(blocks') : Within(live'[j], blocks'[k], blocks'[k].used)
        /\ \A j \in 1..h : live'[j].at % live'[j].alignment = 0
        /\ \A j, k \in 1..h : j # k => ~Overlap(live'[j], live'[k])
    BY <1>2, <1>3, HeldStays
  <1>5. \A j \in 1..h : /\ r.at + r.size <= live'[j].at \/ live'[j].at + live'[j].size <= r.at
                        /\ live'[j].at \in Nat /\ live'[j].size \in Nat
    <2>1. ArenaTypes
      BY DEF ArenaInv
    <2>2. \A j \in 1..h : Earlier(i, j) \in 1..Len(live) /\ live'[j] = live[Earlier(i, j)]
      BY <1>2, <2>1, HeldElements
    <2> QED BY ZenonT(60), <2>1, <2>2, ElementTypes
  <1>6. \A j \in 1..h : ~Overlap(r, live'[j]) /\ ~Overlap(live'[j], r)
    <2>1. r.at \in Nat /\ r.size \in Nat
      BY DEF RegionType
    <2>2. ASSUME NEW x \in Nat, NEW y \in Nat, NEW u \in Nat, NEW v \in Nat, x + y <= u \/ u + v <= x
          PROVE  ~(x < u + v /\ u < x + y)
      BY ONLY <2>2
    <2> QED BY <1>5, <2>1, <2>2 DEF Overlap
  <1>7. \A j \in 1..Len(live') : j \in 1..h \/ j = h + 1
    BY <1>1, <1>2
  <1>8. \A j \in 1..Len(live') : \E k \in 1..Len(blocks') : Within(live'[j], blocks'[k], blocks'[k].used)
    BY <1>2, <1>4, <1>7
  <1>9. \A j \in 1..Len(live') : live'[j].at % live'[j].alignment = 0
    BY <1>2, <1>4, <1>7
  <1>10. \A j, k \in 1..Len(live') : j # k => ~Overlap(live'[j], live'[k])
    BY <1>2, <1>4, <1>6, <1>7
  <1> QED BY <1>2, <1>4, <1>8, <1>9, <1>10 DEF RegionsInOrder

-----------------------------------------------------------------------------
(* Allocation. *)

LEMMA AllocInBlockInv ==
  ASSUME ArenaInv, NEW size \in Nat \ {0}, NEW a \in Aligning, NEW i \in 0..Len(live),
         AllocInBlock(size, a, i)
  PROVE  /\ ArenaInv'
         /\ \E r \in RegionType :
              /\ live' = Append(Held(i), r) /\ r.alignment = a /\ r.at % a = 0
              /\ r.at > 0 /\ r.at + r.size <= AddressSpace - 1
              /\ \A j \in 1..Len(live) : r.at + r.size <= live[j].at \/ live[j].at + live[j].size <= r.at
  <1>1. /\ ArenaTypes /\ ChainInOrder /\ current \in 0..Len(blocks) /\ blocks \in Seq(BlockType)
        /\ Len(blocks) \in Nat
    BY DEF ArenaInv, ArenaTypes
  <1>2. PICK b \in FirstFit(size, a) :
          /\ blocks' = [blocks EXCEPT ![b] = Bump(@, size, a)]
          /\ current' = b
          /\ live' = Append(Held(i), Placed(blocks[b], size, a))
    BY DEF AllocInBlock
  <1>3. scopes' = KeptWithout(i) /\ UNCHANGED <<phase, lent>>
    BY DEF AllocInBlock
  <1> DEFINE c == blocks[b]  r == Placed(c, size, a)  d == Bump(c, size, a)
  <1>4. b \in 1..Len(blocks) /\ b >= current /\ Fits(c, size, a)
    BY <1>1 DEF FirstFit, SearchFrom, NoBlock
  <1>5. c \in BlockType /\ BlockFits(c)
    BY <1>1, <1>4, ElementTypes DEF ChainInOrder
  <1>6. /\ r \in RegionType /\ r.at % a = 0 /\ r.at >= c.base + c.used
        /\ d \in BlockType /\ d.base = c.base /\ d.capacity = c.capacity /\ d.used >= c.used
        /\ BlockFits(d) /\ r.at + size = c.base + d.used
    BY <1>4, <1>5, FitsIsRoom
  <1>7. r.size = size /\ r.alignment = a
    BY DEF Placed
  <1>8. /\ c.base \in Nat /\ c.used \in Nat /\ c.capacity \in Nat /\ d.used \in Nat /\ r.at \in Nat
    BY <1>5, <1>6 DEF BlockType, RegionType
  <1>9. /\ blocks' \in Seq(BlockType) /\ Len(blocks') = Len(blocks)
        /\ blocks'[b] = d /\ \A k \in 1..Len(blocks) : k # b => blocks'[k] = blocks[k]
    BY <1>1, <1>2, <1>4, <1>6
  <1> HIDE DEF c, d, r
  <1>10. \A k \in 1..Len(blocks) :
           /\ blocks'[k].base = blocks[k].base /\ blocks'[k].capacity = blocks[k].capacity
           /\ blocks'[k].used >= blocks[k].used /\ blocks'[k].used \in Nat
    <2>1. ASSUME NEW k \in 1..Len(blocks), k = b
          PROVE  blocks'[k] = d /\ blocks[k] = c
      BY <1>9, <2>1 DEF c
    <2>2. ASSUME NEW k \in 1..Len(blocks), k # b
          PROVE  blocks'[k] = blocks[k] /\ blocks[k].used \in Nat
      BY <1>1, <1>9, <2>2, ElementTypes
    <2>3. \A n \in Nat : n >= n
      OBVIOUS
    <2> QED BY <1>6, <1>8, <2>1, <2>2, <2>3
  <1>11. r.at + r.size <= c.base + c.capacity /\ Within(r, blocks'[b], blocks'[b].used)
    BY SMTT(40), <1>6, <1>7, <1>8, <1>9 DEF Within, BlockFits
  <1>12. \A k \in 1..Len(blocks) : blocks[k] = c \/ BlocksApart(blocks[k], c)
    BY <1>1, <1>4 DEF ChainInOrder, c
  <1>13. \A j \in 1..Len(live) : r.at + r.size <= live[j].at \/ live[j].at + live[j].size <= r.at
    BY <1>5, <1>6, <1>11, <1>12, RoomIsFree
  <1>14. live' = Append(Held(i), r)
    BY <1>2 DEF r, c
  <1>15. live' \in Seq(RegionType) /\ RegionsInOrder' /\ MarksInOrder'
    <2>1. b \in 1..Len(blocks') /\ Len(blocks) <= Len(blocks') /\ Len(blocks') \in Nat /\ r.at % r.alignment = 0
      BY <1>1, <1>4, <1>6, <1>7, <1>9
    <2> QED BY <1>3, <1>6, <1>10, <1>11, <1>13, <1>14, <2>1, RegionAdded
  <1>16. ScopesNest'
    <2>1. Len(blocks) <= Len(blocks') /\ Len(blocks') \in Nat /\ current <= current' /\ current' \in Nat
      BY <1>1, <1>2, <1>4, <1>9
    <2>2. \A k \in 1..Len(blocks) : k < current => blocks'[k].used = blocks[k].used
      BY <1>1, <1>4, <1>9
    <2> QED BY <1>3, <2>1, <2>2, ScopesStay
  <1>17. ArenaTypes'
    <2>1. scopes' \in Seq(Scope)
      BY <1>1, <1>3, KeptElements DEF ArenaInv
    <2> QED BY <1>1, <1>2, <1>3, <1>4, <1>9, <1>15, <2>1 DEF ArenaTypes
  <1>18. ChainInOrder'
    <2>1. \A k \in 1..Len(blocks') : BlockFits(blocks'[k])
      BY <1>1, <1>6, <1>9 DEF ChainInOrder
    <2>2. \A j, k \in 1..Len(blocks') : j # k => BlocksApart(blocks'[j], blocks'[k])
      BY <1>1, <1>9, <1>10 DEF ChainInOrder, BlocksApart
    <2>3. \A k \in 1..Len(blocks') : k > current' => blocks'[k].used = 0
      BY <1>1, <1>2, <1>4, <1>9 DEF ChainInOrder
    <2> QED BY <1>2, <1>4, <2>1, <2>2, <2>3 DEF ChainInOrder, NoBlock
  <1>19. NothingLeaks'
    <2>1. \A k \in 1..Len(blocks) : LentFor(blocks'[k]) = LentFor(blocks[k])
      BY <1>10 DEF LentFor
    <2>2. {LentFor(blocks'[k]) : k \in 1..Len(blocks')} = {LentFor(blocks[k]) : k \in 1..Len(blocks)}
      BY <1>9, <2>1
    <2> QED BY <1>3, <2>2 DEF NothingLeaks, ArenaInv
  <1>20. r.at > 0 /\ r.at + r.size <= AddressSpace - 1
    BY SMTT(40), <1>5, <1>6, <1>7, <1>8, <1>11 DEF BlockFits
  <1> QED BY <1>6, <1>7, <1>13, <1>14, <1>15, <1>16, <1>17, <1>18, <1>19, <1>20 DEF ArenaInv

LEMMA AllocNewBlockInv ==
  ASSUME ArenaInv, Ready, NEW size \in Nat \ {0}, NEW a \in Aligning, NEW i \in 0..Len(live),
         AllocNewBlock(size, a, i)
  PROVE  /\ ArenaInv'
         /\ \E r \in RegionType :
              /\ live' = Append(Held(i), r) /\ r.alignment = a /\ r.at % a = 0
              /\ r.at > 0 /\ r.at + r.size <= AddressSpace - 1
              /\ \A j \in 1..Len(live) : r.at + r.size <= live[j].at \/ live[j].at + live[j].size <= r.at
  <1>1. /\ ArenaTypes /\ ChainInOrder /\ current \in 0..Len(blocks) /\ blocks \in Seq(BlockType)
        /\ Len(blocks) \in Nat
    BY DEF ArenaInv, ArenaTypes
  <1> DEFINE total == HeaderSize + Payload(size, a)
             New(place) == [base |-> place + HeaderSize, capacity |-> Payload(size, a), used |-> 0]
  <1>2. PICK place \in ParentPlaces(total) :
          /\ blocks' = Append(blocks, Bump(New(place), size, a))
          /\ lent' = lent \cup {[at |-> place, size |-> total]}
          /\ live' = Append(Held(i), Placed(New(place), size, a))
    BY DEF AllocNewBlock, Linked
  <1>3. scopes' = KeptWithout(i) /\ phase' = phase /\ current' = Len(blocks')
    BY DEF AllocNewBlock
  <1> DEFINE c == New(place)  r == Placed(c, size, a)  d == Bump(c, size, a)  n == Len(blocks) + 1
  <1>4. c \in BlockType /\ BlockFits(c) /\ Fits(c, size, a)
    BY NewBlockHasRoom
  <1>5. /\ c.used = 0 /\ c.base = place + HeaderSize /\ c.capacity = Payload(size, a) /\ place \in Nat
        /\ Payload(size, a) \in Nat /\ total \in Nat
    <2>1. place \in Nat
      BY DEF ParentPlaces
    <2>2. Payload(size, a) \in Nat
      BY DEF Payload, Needed, Aligning
    <2> QED BY <2>1, <2>2
  <1>6. /\ r \in RegionType /\ r.at % a = 0 /\ r.at >= c.base + c.used
        /\ d \in BlockType /\ d.base = c.base /\ d.capacity = c.capacity /\ d.used >= c.used
        /\ BlockFits(d) /\ r.at + size = c.base + d.used
    BY <1>4, FitsIsRoom
  <1>7. r.size = size /\ r.alignment = a
    BY DEF Placed
  <1>8. /\ c.base \in Nat /\ c.used \in Nat /\ c.capacity \in Nat /\ d.used \in Nat /\ r.at \in Nat
    BY <1>4, <1>6 DEF BlockType, RegionType
  <1>9. /\ blocks' \in Seq(BlockType) /\ Len(blocks') = n
        /\ blocks'[n] = d /\ \A k \in 1..Len(blocks) : blocks'[k] = blocks[k]
    BY <1>1, <1>2, <1>6
  <1>10. \A k \in 1..Len(blocks) : BlocksApart(blocks[k], c)
    <2> SUFFICES ASSUME NEW k \in 1..Len(blocks) PROVE BlocksApart(blocks[k], c)
      OBVIOUS
    <2> DEFINE m == LentFor(blocks[k])  b1 == blocks[k].base  c1 == blocks[k].capacity
    <2>1. m \in lent
      BY DEF ArenaInv, NothingLeaks, Ready
    <2>2. ~Overlap([at |-> place, size |-> total], m)
      BY <2>1 DEF ParentPlaces
    <2>3. ~(place < (b1 - HeaderSize) + (HeaderSize + c1) /\ b1 - HeaderSize < place + total)
      BY <2>2 DEF Overlap, LentFor
    <2>4. b1 \in Nat /\ c1 \in Nat
      BY <1>1, ElementTypes
    <2> HIDE DEF b1, c1, total
    <2>5. b1 + c1 <= place \/ place + total <= b1 - HeaderSize
      BY <1>5, <2>3, <2>4
    <2>6. c.base - HeaderSize = place /\ c.base + c.capacity = place + total
      BY <1>5 DEF total
    <2> QED BY <2>5, <2>6 DEF BlocksApart, b1, c1
  <1> HIDE DEF c, d, r
  <1>11. /\ r.at + r.size <= c.base + c.capacity /\ n \in 1..Len(blocks')
         /\ Within(r, blocks'[n], blocks'[n].used)
    BY SMTT(40), <1>1, <1>6, <1>7, <1>8, <1>9 DEF Within, BlockFits
  <1>12. \A j \in 1..Len(live) : r.at + r.size <= live[j].at \/ live[j].at + live[j].size <= r.at
    BY <1>4, <1>6, <1>10, <1>11, RoomIsFree
  <1>13. live' = Append(Held(i), r)
    BY <1>2 DEF r, c
  <1>14. \A k \in 1..Len(blocks) :
           /\ blocks'[k].base = blocks[k].base /\ blocks'[k].capacity = blocks[k].capacity
           /\ blocks'[k].used >= blocks[k].used /\ blocks'[k].used \in Nat
    <2>1. \A x \in Nat : x >= x
      OBVIOUS
    <2> QED BY <1>1, <1>9, <2>1, ElementTypes
  <1>15. live' \in Seq(RegionType) /\ RegionsInOrder' /\ MarksInOrder'
    <2>1. Len(blocks) <= Len(blocks') /\ Len(blocks') \in Nat /\ r.at % r.alignment = 0
      BY <1>1, <1>6, <1>7, <1>9
    <2> QED BY <1>3, <1>6, <1>11, <1>12, <1>13, <1>14, <2>1, RegionAdded
  <1>16. ScopesNest'
    <2>1. Len(blocks) <= Len(blocks') /\ Len(blocks') \in Nat /\ current <= current' /\ current' \in Nat
      BY <1>1, <1>3, <1>9
    <2> QED BY <1>3, <1>9, <2>1, ScopesStay
  <1>17. ArenaTypes'
    <2>1. scopes' \in Seq(Scope)
      BY <1>1, <1>3, KeptElements DEF ArenaInv
    <2>2. current' \in 0..Len(blocks')
      BY <1>1, <1>3, <1>9
    <2> QED BY <1>1, <1>3, <1>9, <1>15, <2>1, <2>2 DEF ArenaTypes
  <1>18. ChainInOrder'
    <2>1. \A k \in 1..n : k \in 1..Len(blocks) \/ k = n
      BY <1>1
    <2>2. \A k \in 1..Len(blocks') : BlockFits(blocks'[k])
      BY <1>1, <1>6, <1>9, <2>1 DEF ChainInOrder
    <2>3. \A k \in 1..Len(blocks) : BlocksApart(blocks[k], d) /\ BlocksApart(d, blocks[k])
      BY <1>6, <1>10 DEF BlocksApart
    <2>4. \A j, k \in 1..Len(blocks') : j # k => BlocksApart(blocks'[j], blocks'[k])
      BY <1>1, <1>9, <2>1, <2>3 DEF ChainInOrder
    <2> QED BY <1>1, <1>3, <1>9, <2>2, <2>4 DEF ChainInOrder, NoBlock
  <1>19. NothingLeaks'
    <2>1. LentFor(d) = [at |-> place, size |-> total]
      BY <1>5, <1>6 DEF LentFor
    <2>2. \A k \in 1..n : k \in 1..Len(blocks) \/ k = n
      BY <1>1
    <2>3. n \in 1..n /\ \A k \in 1..Len(blocks) : k \in 1..n
      BY <1>1
    <2>4. {LentFor(blocks'[k]) : k \in 1..n} = {LentFor(blocks[k]) : k \in 1..Len(blocks)} \cup {LentFor(d)}
      BY <1>9, <2>2, <2>3
    <2>5. lent = {LentFor(blocks[k]) : k \in 1..Len(blocks)} \cup {ArenaState}
      BY DEF ArenaInv, NothingLeaks, Ready
    <2> QED BY <1>2, <1>3, <1>9, <2>1, <2>4, <2>5 DEF NothingLeaks, Ready
  <1>20. r.at > 0 /\ r.at + r.size <= AddressSpace - 1
    <2>1. c.base > HeaderSize /\ c.base + c.capacity <= AddressSpace - 1 /\ r.size \in Nat
      BY <1>4, <1>7 DEF BlockFits
    <2> DEFINE x == r.at  y == r.size  v == c.base  w == c.capacity  u == c.used
    <2>2. /\ x \in Nat /\ y \in Nat /\ v \in Nat /\ w \in Nat /\ u \in Nat
          /\ v > HeaderSize /\ v + w <= AddressSpace - 1 /\ x >= v + u /\ x + y <= v + w
      BY <1>6, <1>8, <1>11, <2>1
    <2> HIDE DEF x, y, v, w, u
    <2>3. x > 0 /\ x + y <= AddressSpace - 1
      BY ONLY <2>2, Constants
    <2> QED BY <2>3 DEF x, y
  <1> QED BY <1>6, <1>7, <1>12, <1>13, <1>15, <1>16, <1>17, <1>18, <1>19, <1>20 DEF ArenaInv

\* coglet_rt_mem_fail: the client holds nothing any more, the blocks stay.
LEMMA AbortInv == ASSUME ArenaInv, Ready, Abort PROVE ArenaInv'
  <1> USE DEF Abort, ArenaInv
  <1>1. ArenaTypes'
    BY DEF ArenaTypes
  <1>2. Len(live') = 0 /\ Len(scopes') = 0
    OBVIOUS
  <1>3. ChainInOrder'
    BY DEF ChainInOrder
  <1>4. RegionsInOrder' /\ MarksInOrder' /\ ScopesNest'
    BY <1>2 DEF RegionsInOrder, MarksInOrder, ScopesNest
  <1>5. NothingLeaks'
    BY DEF NothingLeaks, LentFor, Ready
  <1> QED BY <1>1, <1>3, <1>4, <1>5

\* coglet_rt_mem_arena_free
LEMMA FreeInv == ASSUME ArenaInv, NEW i \in 1..Len(live), Free(i) PROVE ArenaInv'
  <1>1. ArenaTypes /\ MarksInOrder /\ Len(blocks) \in Nat /\ i \in 0..Len(live) /\ current \in Nat
    BY ElementTypes DEF ArenaInv, ArenaTypes
  <1>2. live' = Held(i) /\ scopes' = KeptWithout(i) /\ UNCHANGED <<phase, blocks, current, lent>>
    BY DEF Free
  <1>3. Held(i) \in Seq(RegionType) /\ Len(Held(i)) \in Nat
    BY <1>1, HeldElements
  <1>4. \A x \in Nat : x >= x
    OBVIOUS
  <1>5. \A k \in 1..Len(blocks) :
           /\ blocks'[k].base = blocks[k].base /\ blocks'[k].capacity = blocks[k].capacity
           /\ blocks'[k].used >= blocks[k].used /\ blocks'[k].used \in Nat
    BY <1>1, <1>2, <1>4, ElementTypes
  <1>6. MarksInOrder' /\ RegionsInOrder'
    <2>1. /\ Len(blocks) <= Len(blocks') /\ Len(blocks') \in Nat
          /\ Len(live') \in Nat /\ Len(live') >= Len(Held(i)) /\ Len(live') = Len(Held(i))
          /\ \A j \in 1..Len(Held(i)) : live'[j] = Held(i)[j]
      BY <1>1, <1>2, <1>3
    <2>2. /\ MarksInOrder'
          /\ \A j \in 1..Len(Held(i)) : \E k \in 1..Len(blocks') : Within(live'[j], blocks'[k], blocks'[k].used)
          /\ \A j \in 1..Len(Held(i)) : live'[j].at % live'[j].alignment = 0
          /\ \A j, k \in 1..Len(Held(i)) : j # k => ~Overlap(live'[j], live'[k])
      BY <1>1, <1>2, <1>5, <2>1, HeldStays
    <2> QED BY <2>1, <2>2 DEF RegionsInOrder
  <1>7. ScopesNest'
    BY <1>1, <1>2, ScopesStay
  <1>8. ArenaTypes'
    BY <1>1, <1>2, <1>3, KeptElements DEF ArenaTypes
  <1>9. ChainInOrder' /\ NothingLeaks'
    BY <1>2 DEF ArenaInv, ChainInOrder, NothingLeaks, LentFor
  <1> QED BY <1>6, <1>7, <1>8, <1>9 DEF ArenaInv

-----------------------------------------------------------------------------
(* Reset and scratch scopes. *)

\* coglet_rt_mem_arena_reset: whatever the client holds is given up.
LEMMA EmptiedBlocks ==
  ASSUME ArenaInv, ResetBlocks
  PROVE  /\ blocks' \in Seq(BlockType) /\ Len(blocks') = Len(blocks) /\ current' \in 0..Len(blocks')
         /\ \A k \in 1..Len(blocks) :
              blocks'[k].base = blocks[k].base /\ blocks'[k].capacity = blocks[k].capacity /\ blocks'[k].used = 0
         /\ current' = IF Len(blocks) > 0 THEN 1 ELSE NoBlock
         /\ {LentFor(blocks'[k]) : k \in 1..Len(blocks')} = {LentFor(blocks[k]) : k \in 1..Len(blocks)}
         /\ ChainInOrder'
  <1>1. ArenaTypes /\ ChainInOrder /\ Len(blocks) \in Nat /\ \A k \in 1..Len(blocks) : blocks[k] \in BlockType
    BY ElementTypes DEF ArenaInv
  <1>2. \A b \in BlockType : Emptied(b) \in BlockType /\ Emptied(b).base = b.base /\ Emptied(b).capacity = b.capacity /\ Emptied(b).used = 0
    BY DEF BlockType, Emptied
  <1>3. blocks' = [k \in 1..Len(blocks) |-> Emptied(blocks[k])] /\ current' = IF Len(blocks) > 0 THEN 1 ELSE NoBlock
    BY DEF ResetBlocks
  <1>4. blocks' \in Seq(BlockType) /\ Len(blocks') = Len(blocks)
    BY <1>1, <1>2, <1>3
  <1>5. \A k \in 1..Len(blocks) :
          blocks'[k].base = blocks[k].base /\ blocks'[k].capacity = blocks[k].capacity /\ blocks'[k].used = 0
    BY <1>1, <1>2, <1>3
  <1>6. current' \in 0..Len(blocks') /\ (current' = NoBlock => Len(blocks') = 0)
    BY <1>1, <1>3, <1>4 DEF NoBlock
  <1>7. {LentFor(blocks'[k]) : k \in 1..Len(blocks')} = {LentFor(blocks[k]) : k \in 1..Len(blocks)}
    BY <1>4, <1>5 DEF LentFor
  <1>8. ChainInOrder'
    <2>1. \A k \in 1..Len(blocks) : BlockFits(blocks'[k])
      <3> SUFFICES ASSUME NEW k \in 1..Len(blocks) PROVE BlockFits(blocks'[k])
        OBVIOUS
      <3>1. BlockFits(blocks[k]) /\ blocks[k].capacity \in Nat
        BY <1>1, ElementTypes DEF ChainInOrder
      <3> QED BY <1>5, <3>1 DEF BlockFits
    <2>2. \A j, k \in 1..Len(blocks) : j # k => BlocksApart(blocks'[j], blocks'[k])
      BY <1>1, <1>5 DEF ChainInOrder, BlocksApart
    <2> QED BY <1>4, <1>5, <1>6, <2>1, <2>2 DEF ChainInOrder
  <1> QED BY <1>3, <1>4, <1>5, <1>6, <1>7, <1>8

LEMMA ResetInv == ASSUME ArenaInv, Reset PROVE ArenaInv'
  <1>1. ArenaTypes /\ MarksInOrder /\ Len(scopes) \in Nat /\ Ready
    BY ElementTypes DEF ArenaInv, Reset
  <1>2. /\ blocks' \in Seq(BlockType) /\ Len(blocks') = Len(blocks) /\ current' \in 0..Len(blocks')
        /\ \A k \in 1..Len(blocks) : blocks'[k].capacity = blocks[k].capacity
        /\ {LentFor(blocks'[k]) : k \in 1..Len(blocks')} = {LentFor(blocks[k]) : k \in 1..Len(blocks)}
        /\ ChainInOrder'
    BY EmptiedBlocks DEF Reset
  <1>3. live' = <<>> /\ Len(live') = 0 /\ UNCHANGED <<phase, lent>>
    BY DEF Reset
  <1> DEFINE F(n) == [scopes[n] EXCEPT !.kept = 0, !.fresh = FALSE]
  <1>4. ASSUME NEW n \in 1..Len(scopes)
        PROVE  F(n) \in Scope /\ F(n).block = scopes[n].block /\ F(n).used = scopes[n].used /\ F(n).kept = 0 /\ F(n).fresh = FALSE
    <2>1. scopes[n] \in Scope
      BY <1>1, ElementTypes
    <2> QED BY <2>1 DEF Scope
  <1>5. scopes' = [n \in 1..Len(scopes) |-> F(n)]
    BY DEF Reset
  <1> HIDE DEF F
  <1>6. /\ scopes' \in Seq(Scope) /\ Len(scopes') = Len(scopes)
        /\ \A n \in 1..Len(scopes) : /\ scopes'[n].block = scopes[n].block /\ scopes'[n].used = scopes[n].used
                                     /\ scopes'[n].kept = 0 /\ scopes'[n].fresh = FALSE
    <2>1. \A n \in 1..Len(scopes) : F(n) \in Scope
      BY <1>4
    <2>2. scopes' \in Seq(Scope) /\ Len(scopes') = Len(scopes)
      BY <1>1, <1>5, <2>1
    <2>3. \A n \in 1..Len(scopes) : scopes'[n] = F(n)
      BY <1>5
    <2> QED BY <1>4, <2>2, <2>3
  <1>7. ArenaTypes'
    <2>1. live' \in Seq(RegionType)
      BY <1>3
    <2> QED BY <1>1, <1>2, <1>3, <1>6, <2>1 DEF ArenaTypes
  <1>8. RegionsInOrder' /\ ScopesNest'
    BY <1>3, <1>6 DEF RegionsInOrder, ScopesNest
  <1>9. MarksInOrder'
    <2>1. ASSUME NEW n \in 1..Len(scopes') PROVE MarkFits(scopes[n])' /\ BelowMark(scopes[n])'
      <3>1. MarkFits(scopes[n]) /\ scopes[n].block \in Nat /\ n \in 1..Len(scopes) /\ Len(blocks) \in Nat
        BY <1>1, <1>6, ElementTypes DEF MarksInOrder
      <3>2. scopes[n].block # NoBlock => scopes[n].used <= blocks'[scopes[n].block].capacity
        BY <1>2, <3>1 DEF MarkFits, NoBlock
      <3>3. MarkFits(scopes[n])'
        BY <1>2, <1>3, <1>6, <3>1, <3>2 DEF MarkFits
      <3> QED BY <1>6, <3>1, <3>3 DEF BelowMark
    <2> QED BY <1>6, <2>1 DEF MarksInOrder
  <1>10. NothingLeaks'
    BY <1>1, <1>2, <1>3 DEF ArenaInv, NothingLeaks
  <1> QED BY <1>2, <1>7, <1>8, <1>9, <1>10 DEF ArenaInv

\* Scratch.begin: everything the client holds is below the mark.
LEMMA BeginInv == ASSUME ArenaInv, ScratchBegin PROVE ArenaInv'
  <1>1. /\ ArenaTypes /\ ChainInOrder /\ RegionsInOrder /\ MarksInOrder /\ ScopesNest /\ scopes \in Seq(Scope)
        /\ Len(scopes) \in Nat /\ Len(live) \in Nat /\ Len(blocks) \in Nat /\ current \in 0..Len(blocks)
    BY ElementTypes DEF ArenaInv, ArenaTypes
  <1>2. UNCHANGED <<phase, blocks, current, lent, live>>
    BY DEF ScratchBegin
  <1>3. MarkBlock = current
    BY <1>1 DEF MarkBlock, ChainInOrder
  <1> DEFINE before == [k \in 1..Len(blocks) |-> blocks[k].used]
             u == IF current = NoBlock THEN 0 ELSE blocks[current].used
             s == [block |-> current, used |-> u, kept |-> Len(live), before |-> before, fresh |-> TRUE]
             n == Len(scopes) + 1
  <1>4. scopes' = Append(scopes, s)
    BY <1>3 DEF ScratchBegin
  <1>5. before \in Seq(Nat) /\ Len(before) = Len(blocks) /\ \A k \in 1..Len(blocks) : before[k] = blocks[k].used
    BY <1>1, ElementTypes
  <1>6. u \in Nat
    BY <1>1, ElementTypes DEF NoBlock
  <1> HIDE DEF before, u
  <1>7. s \in Scope
    BY <1>1, <1>5, <1>6 DEF Scope
  <1>8. s.block = current /\ s.used = u /\ s.kept = Len(live) /\ s.before = before /\ s.fresh = TRUE
    OBVIOUS
  <1> HIDE DEF s
  <1>9. /\ scopes' \in Seq(Scope) /\ Len(scopes') = n /\ scopes'[n] = s /\ n \in Nat
        /\ \A m \in 1..Len(scopes) : scopes'[m] = scopes[m]
        /\ \A m \in 1..n : m \in 1..Len(scopes) \/ m = n
    BY <1>1, <1>4, <1>7
  <1>10. ArenaTypes' /\ ChainInOrder' /\ RegionsInOrder' /\ NothingLeaks'
    BY <1>1, <1>2, <1>9 DEF ArenaInv, ArenaTypes, ChainInOrder, RegionsInOrder, NothingLeaks, LentFor
  <1>11. MarkFits(s) /\ BelowMark(s) /\ Undisturbed(s)
    <2>1. current # NoBlock => u <= blocks[current].capacity
      BY <1>1 DEF u, ChainInOrder, BlockFits, NoBlock
    <2>2. MarkFits(s)
      BY <1>1, <1>8, <2>1 DEF MarkFits
    <2>3. ASSUME NEW i \in 1..Len(live)
          PROVE  \E k \in 1..Len(blocks) :
                   /\ Within(live[i], blocks[k], blocks[k].used)
                   /\ k <= current
                   /\ k = current => Within(live[i], blocks[k], u)
      <3>1. PICK k \in 1..Len(blocks) : Within(live[i], blocks[k], blocks[k].used)
        BY <1>1 DEF RegionsInOrder
      <3>2. /\ live[i].at \in Nat /\ live[i].size \in Nat \ {0} /\ blocks[k].base \in Nat /\ blocks[k].used \in Nat
        BY <1>1, ElementTypes
      <3>3. blocks[k].used # 0
        BY <3>1, <3>2 DEF Within
      <3>4. k <= current
        BY <1>1, <3>3 DEF ChainInOrder
      <3>5. k = current => u = blocks[k].used
        BY <1>1 DEF u, NoBlock
      <3> QED BY <3>1, <3>4, <3>5
    <2>4. BelowMark(s)
      BY <1>8, <2>3 DEF BelowMark
    <2>5. \A k \in 1..Len(blocks) : k > current => before[k] = 0
      BY <1>1, <1>5 DEF ChainInOrder
    <2>6. current = NoBlock => Len(before) = 0
      BY <1>1, <1>5 DEF ChainInOrder
    <2>7. current # NoBlock => before[current] = u
      BY <1>1, <1>5 DEF u, NoBlock
    <2>8. Undisturbed(s)
      BY <1>1, <1>5, <1>8, <2>5, <2>6, <2>7 DEF Undisturbed
    <2> QED BY <2>2, <2>4, <2>8
  <1>12. ASSUME NEW t PROVE (MarkFits(t) <=> MarkFits(t)') /\ (BelowMark(t) <=> BelowMark(t)') /\ (Undisturbed(t) <=> Undisturbed(t)')
    BY <1>2 DEF MarkFits, BelowMark, Undisturbed
  <1>13. MarksInOrder'
    <2>1. \A m \in 1..n : MarkFits(scopes'[m]) /\ BelowMark(scopes'[m])
      BY <1>1, <1>9, <1>11 DEF MarksInOrder
    <2>2. \A m \in 1..n : MarkFits(scopes[m])' /\ BelowMark(scopes[m])'
      BY <1>2, <2>1 DEF MarkFits, BelowMark
    <2>3. \A m \in 1..n : scopes'[m].kept <= Len(live) /\ scopes'[m].kept \in Nat
      BY <1>1, <1>8, <1>9, ElementTypes DEF MarksInOrder, MarkFits
    <2>4. \A l, m \in 1..n : l < m => scopes'[l].kept <= scopes'[m].kept
      <3> SUFFICES ASSUME NEW l \in 1..n, NEW m \in 1..n, l < m PROVE scopes'[l].kept <= scopes'[m].kept
        OBVIOUS
      <3>1. CASE m = n
        BY <1>8, <1>9, <2>3, <3>1
      <3>2. CASE m # n
        BY <1>1, <1>9, <3>2 DEF MarksInOrder
      <3> QED BY <3>1, <3>2
    <2> QED BY <1>9, <2>2, <2>4 DEF MarksInOrder
  <1>14. ScopesNest'
    <2>1. \A m \in 1..n : scopes'[m].fresh => Undisturbed(scopes'[m])
      BY <1>1, <1>9, <1>11 DEF ScopesNest
    <2>2. \A m \in 1..n : scopes'[m].fresh => Undisturbed(scopes[m])'
      BY <1>2, <2>1 DEF Undisturbed
    <2>3. ASSUME NEW l \in 1..n, NEW m \in 1..n, l < m, scopes'[l].fresh
          PROVE  scopes'[m].fresh /\ scopes'[l].block <= scopes'[m].block
      <3>1. l \in 1..Len(scopes) /\ scopes'[l] = scopes[l] /\ scopes[l].fresh
        BY <1>1, <1>9, <2>3
      <3>2. CASE m = n
        <4>1. Undisturbed(scopes[l])
          BY <1>1, <3>1 DEF ScopesNest
        <4> QED BY <1>8, <1>9, <3>1, <3>2, <4>1 DEF Undisturbed
      <3>3. CASE m # n
        BY <1>1, <1>9, <2>3, <3>1, <3>3 DEF ScopesNest
      <3> QED BY <3>2, <3>3
    <2> QED BY <1>9, <2>2, <2>3 DEF ScopesNest
  <1> QED BY <1>10, <1>13, <1>14 DEF ArenaInv

LEMMA PrefixElements ==
  ASSUME NEW S, NEW s \in Seq(S), NEW n \in 0..Len(s)
  PROVE  Prefix(s, n) \in Seq(S) /\ Len(Prefix(s, n)) = n /\ \A i \in 1..n : Prefix(s, n)[i] = s[i]
  BY DEF Prefix

\* coglet_rt_mem_arena_rewind: the blocks up to the mark's are as full as the mark
\* says, those behind it empty.
LEMMA RewoundBlocks ==
  ASSUME ArenaInv, NEW mark \in Scope, MarkFits(mark), mark.block # NoBlock,
         blocks' = Rewound(mark), current' = mark.block
  PROVE  /\ blocks' \in Seq(BlockType) /\ Len(blocks') = Len(blocks) /\ current' \in 1..Len(blocks')
         /\ \A k \in 1..Len(blocks) :
              /\ blocks'[k].base = blocks[k].base /\ blocks'[k].capacity = blocks[k].capacity
              /\ k < mark.block => blocks'[k].used = blocks[k].used
              /\ k = mark.block => blocks'[k].used = mark.used
              /\ k > mark.block => blocks'[k].used = 0
         /\ {LentFor(blocks'[k]) : k \in 1..Len(blocks')} = {LentFor(blocks[k]) : k \in 1..Len(blocks)}
         /\ ChainInOrder'
  <1>1. ArenaTypes /\ ChainInOrder /\ Len(blocks) \in Nat /\ \A k \in 1..Len(blocks) : blocks[k] \in BlockType
    BY ElementTypes DEF ArenaInv
  <1>2. mark.block \in Nat /\ mark.used \in Nat
    BY DEF Scope
  <1>3. mark.block \in 1..Len(blocks) /\ mark.used <= blocks[mark.block].capacity
    BY <1>1, <1>2 DEF MarkFits, NoBlock
  <1> DEFINE B(k) == CASE k < mark.block -> blocks[k]
                       [] k = mark.block -> [blocks[k] EXCEPT !.used = mark.used]
                       [] k > mark.block -> Emptied(blocks[k])
  <1>4. blocks' = [k \in 1..Len(blocks) |-> B(k)]
    BY DEF Rewound
  <1>5. ASSUME NEW k \in 1..Len(blocks)
        PROVE  /\ B(k) \in BlockType /\ B(k).base = blocks[k].base /\ B(k).capacity = blocks[k].capacity
               /\ k < mark.block => B(k).used = blocks[k].used
               /\ k = mark.block => B(k).used = mark.used
               /\ k > mark.block => B(k).used = 0
    <2>1. \A b \in BlockType, u \in Nat :
            /\ [b EXCEPT !.used = u] \in BlockType /\ [b EXCEPT !.used = u].base = b.base
            /\ [b EXCEPT !.used = u].capacity = b.capacity /\ [b EXCEPT !.used = u].used = u
      BY DEF BlockType
    <2>2. blocks[k] \in BlockType /\ k \in Nat
      BY <1>1
    <2>3. CASE k < mark.block
      <3>1. B(k) = blocks[k]
        BY <1>2, <2>2, <2>3
      <3> QED BY <1>2, <2>2, <2>3, <3>1
    <2>4. CASE k = mark.block
      <3>1. B(k) = [blocks[k] EXCEPT !.used = mark.used]
        BY <1>2, <2>2, <2>4
      <3> HIDE DEF B
      <3> QED BY <1>2, <2>1, <2>2, <2>4, <3>1
    <2>5. CASE k > mark.block
      <3>1. B(k) = [blocks[k] EXCEPT !.used = 0]
        BY <1>2, <2>2, <2>5 DEF Emptied
      <3> HIDE DEF B
      <3>2. B(k) \in BlockType /\ B(k).base = blocks[k].base /\ B(k).capacity = blocks[k].capacity /\ B(k).used = 0
        BY <2>1, <2>2, <3>1
      <3>3. ~(k < mark.block) /\ k # mark.block
        BY <1>2, <2>2, <2>5
      <3> QED BY <3>2, <3>3
    <2>6. k < mark.block \/ k = mark.block \/ k > mark.block
      BY <1>2, <2>2
    <2> HIDE DEF B
    <2> QED BY <2>3, <2>4, <2>5, <2>6
  <1> HIDE DEF B
  <1>6. blocks' \in Seq(BlockType) /\ Len(blocks') = Len(blocks)
    <2>1. \A k \in 1..Len(blocks) : B(k) \in BlockType
      BY <1>5
    <2> QED BY <1>1, <1>4, <2>1
  <1>7. \A k \in 1..Len(blocks) : blocks'[k] = B(k)
    BY <1>4
  <1>8. \A k \in 1..Len(blocks) : blocks'[k].base = blocks[k].base /\ blocks'[k].capacity = blocks[k].capacity
    BY <1>5, <1>7
  <1>9. \A k \in 1..Len(blocks) :
          /\ k < mark.block => blocks'[k].used = blocks[k].used
          /\ k = mark.block => blocks'[k].used = mark.used
          /\ k > mark.block => blocks'[k].used = 0
    BY <1>5, <1>7
  <1>10. {LentFor(blocks'[k]) : k \in 1..Len(blocks')} = {LentFor(blocks[k]) : k \in 1..Len(blocks)}
    BY <1>6, <1>8 DEF LentFor
  <1>11. ChainInOrder'
    <2>1. ASSUME NEW k \in 1..Len(blocks) PROVE BlockFits(blocks'[k])
      <3>1. BlockFits(blocks[k]) /\ blocks[k].capacity \in Nat /\ k \in Nat
        BY <1>1, ElementTypes DEF ChainInOrder
      <3>2. blocks'[k].used <= blocks'[k].capacity
        BY <1>2, <1>3, <1>8, <1>9, <3>1 DEF BlockFits
      <3> QED BY <1>8, <3>1, <3>2 DEF BlockFits
    <2>2. \A j, k \in 1..Len(blocks) : j # k => BlocksApart(blocks'[j], blocks'[k])
      BY <1>1, <1>8 DEF ChainInOrder, BlocksApart
    <2>3. current' # NoBlock /\ current' = mark.block
      OBVIOUS
    <2> QED BY <1>6, <1>9, <2>1, <2>2, <2>3 DEF ChainInOrder
  <1> QED BY <1>3, <1>6, <1>8, <1>9, <1>10, <1>11

\* A region the client holds lies in one block only.
LEMMA OneBlock ==
  ASSUME ArenaTypes, ChainInOrder, NEW i \in 1..Len(live), NEW j \in 1..Len(blocks), NEW k \in 1..Len(blocks),
         Within(live[i], blocks[j], blocks[j].used), Within(live[i], blocks[k], blocks[k].used)
  PROVE  j = k
  <1> SUFFICES ASSUME j # k PROVE FALSE
    OBVIOUS
  <1> DEFINE x == live[i].at  m == live[i].size
             b1 == blocks[j].base  c1 == blocks[j].capacity  u1 == blocks[j].used
             b2 == blocks[k].base  c2 == blocks[k].capacity  u2 == blocks[k].used
  <1>1. /\ x \in Nat /\ m \in Nat \ {0} /\ b1 \in Nat /\ c1 \in Nat /\ u1 \in Nat /\ b2 \in Nat /\ c2 \in Nat /\ u2 \in Nat
    BY ElementTypes
  <1>2. /\ b1 <= x /\ x + m <= b1 + u1 /\ b2 <= x /\ x + m <= b2 + u2
        /\ u1 <= c1 /\ u2 <= c2
    BY DEF Within, ChainInOrder, BlockFits
  <1>3. b1 + c1 <= b2 - HeaderSize \/ b2 + c2 <= b1 - HeaderSize
    BY DEF ChainInOrder, BlocksApart
  <1> HIDE DEF x, m, b1, c1, u1, b2, c2, u2
  <1>4. CASE b1 + c1 <= b2 - HeaderSize
    BY ONLY Constants, <1>1, <1>2, <1>4
  <1>5. CASE b2 + c2 <= b1 - HeaderSize
    BY ONLY Constants, <1>1, <1>2, <1>5
  <1> QED BY <1>3, <1>4, <1>5

\* Scratch.deinit keeps what is older than the scope, and every mark older than its.
LEMMA EndInv == ASSUME ArenaInv, ScratchEnd PROVE ArenaInv'
  <1> DEFINE N == Len(scopes)  mark == scopes[N]
  <1>1. /\ ArenaTypes /\ ChainInOrder /\ RegionsInOrder /\ MarksInOrder /\ ScopesNest /\ NothingLeaks
        /\ N \in Nat /\ N > 0 /\ Len(live) \in Nat /\ Len(blocks) \in Nat
        /\ live \in Seq(RegionType) /\ scopes \in Seq(Scope) /\ N - 1 \in 0..Len(scopes) /\ N \in 1..Len(scopes)
    BY ElementTypes DEF ArenaInv, ArenaTypes, ScratchEnd
  <1>2. /\ mark \in Scope /\ mark.block \in Nat /\ mark.used \in Nat /\ mark.kept \in Nat
        /\ MarkFits(mark) /\ BelowMark(mark) /\ mark.kept \in 0..Len(live)
    <2>1. mark \in Scope /\ mark.block \in Nat /\ mark.used \in Nat /\ mark.kept \in Nat
      BY <1>1, ElementTypes
    <2>2. MarkFits(mark) /\ BelowMark(mark)
      BY <1>1 DEF MarksInOrder
    <2> QED BY <1>1, <2>1, <2>2 DEF MarkFits
  <1>3. /\ IF mark.block = NoBlock THEN ResetBlocks ELSE blocks' = Rewound(mark) /\ current' = mark.block
        /\ live' = Prefix(live, mark.kept) /\ scopes' = Prefix(scopes, N - 1) /\ UNCHANGED <<phase, lent>> /\ Ready
    BY DEF ScratchEnd
  <1>4. live' \in Seq(RegionType) /\ Len(live') = mark.kept /\ \A i \in 1..mark.kept : live'[i] = live[i]
    BY ZenonT(60), <1>1, <1>2, <1>3, PrefixElements
  <1>5. scopes' \in Seq(Scope) /\ Len(scopes') = N - 1 /\ \A n \in 1..(N - 1) : scopes'[n] = scopes[n]
    BY <1>1, <1>3, PrefixElements
  <1>6. ASSUME NEW n \in 1..(N - 1)
        PROVE  /\ n \in 1..Len(scopes) /\ MarkFits(scopes[n]) /\ BelowMark(scopes[n])
               /\ scopes[n].kept <= mark.kept /\ scopes[n].kept \in Nat /\ scopes[n].block \in Nat
               /\ scopes[n].fresh => Undisturbed(scopes[n]) /\ scopes[n].block <= mark.block
    <2>1. n \in 1..Len(scopes) /\ n < N
      BY <1>1
    <2>2. MarkFits(scopes[n]) /\ BelowMark(scopes[n]) /\ scopes[n].kept <= mark.kept
      BY <1>1, <2>1 DEF MarksInOrder
    <2>3. scopes[n].fresh => Undisturbed(scopes[n]) /\ scopes[n].block <= mark.block
      BY <1>1, <2>1 DEF ScopesNest
    <2>4. scopes[n].kept \in Nat /\ scopes[n].block \in Nat
      BY <1>1, <2>1, ElementTypes
    <2> QED BY <2>1, <2>2, <2>3, <2>4
  <1> HIDE DEF N, mark
  <1>7. /\ blocks' \in Seq(BlockType) /\ Len(blocks') = Len(blocks) /\ current' \in 0..Len(blocks') /\ ChainInOrder'
        /\ \A k \in 1..Len(blocks) : blocks'[k].base = blocks[k].base /\ blocks'[k].capacity = blocks[k].capacity
        /\ {LentFor(blocks'[k]) : k \in 1..Len(blocks')} = {LentFor(blocks[k]) : k \in 1..Len(blocks)}
        /\ mark.block <= current'
        /\ \A k \in 1..Len(blocks) : k < mark.block => blocks'[k].used = blocks[k].used
        /\ \A k \in 1..Len(blocks) : k = mark.block => blocks'[k].used = mark.used
    <2>1. CASE mark.block = NoBlock
      <3>1. ResetBlocks
        BY <1>3, <2>1
      <3>2. \A k \in 1..Len(blocks) : k > mark.block
        BY <2>1 DEF NoBlock
      <3>3. mark.block <= current' /\ current' \in Nat
        BY <1>1, <2>1, <3>1, EmptiedBlocks DEF NoBlock
      <3>4. \A k \in 1..Len(blocks) : ~(k < mark.block) /\ ~(k = mark.block)
        BY <1>2, <3>2
      <3> QED BY <3>1, <3>3, <3>4, EmptiedBlocks
    <2>2. CASE mark.block # NoBlock
      <3>1. blocks' = Rewound(mark) /\ current' = mark.block
        BY <1>3, <2>2
      <3>2. /\ blocks' \in Seq(BlockType) /\ Len(blocks') = Len(blocks) /\ current' \in 1..Len(blocks')
            /\ \A k \in 1..Len(blocks) :
                 /\ blocks'[k].base = blocks[k].base /\ blocks'[k].capacity = blocks[k].capacity
                 /\ k < mark.block => blocks'[k].used = blocks[k].used
                 /\ k = mark.block => blocks'[k].used = mark.used
            /\ {LentFor(blocks'[k]) : k \in 1..Len(blocks')} = {LentFor(blocks[k]) : k \in 1..Len(blocks)}
            /\ ChainInOrder'
        BY <1>2, <2>2, <3>1, RewoundBlocks
      <3>3. current' \in 0..Len(blocks') /\ mark.block <= current'
        BY <1>1, <1>2, <3>1, <3>2
      <3> QED BY <3>2, <3>3
    <2> QED BY <2>1, <2>2
  <1>8. ASSUME NEW i \in 1..mark.kept
        PROVE  /\ i \in 1..Len(live)
               /\ \E k \in 1..Len(blocks) : /\ Within(live[i], blocks[k], blocks[k].used)
                                            /\ Within(live[i], blocks'[k], blocks'[k].used)
    <2>1. i \in 1..Len(live)
      BY <1>1, <1>2
    <2>2. PICK k \in 1..Len(blocks) : /\ Within(live[i], blocks[k], blocks[k].used)
                                      /\ k <= mark.block
                                      /\ k = mark.block => Within(live[i], blocks[k], mark.used)
      BY <1>2 DEF BelowMark
    <2>3. CASE k = mark.block
      <3>1. blocks'[k].used = mark.used /\ blocks'[k].base = blocks[k].base
        BY <1>7, <2>3
      <3> QED BY <2>1, <2>2, <2>3, <3>1 DEF Within
    <2>4. CASE k < mark.block
      <3>1. blocks'[k].used = blocks[k].used /\ blocks'[k].base = blocks[k].base
        BY <1>7, <2>4
      <3> QED BY <2>1, <2>2, <3>1 DEF Within
    <2> QED BY <1>2, <2>2, <2>3, <2>4
  <1>9. ArenaTypes'
    BY <1>1, <1>3, <1>4, <1>5, <1>7 DEF ArenaTypes
  <1>10. NothingLeaks'
    BY <1>1, <1>3, <1>7 DEF NothingLeaks
  <1>11. RegionsInOrder'
    <2>1. \A i \in 1..mark.kept : i \in 1..Len(live)
      BY <1>8
    <2>2. \A i \in 1..mark.kept : \E k \in 1..Len(blocks') : Within(live'[i], blocks'[k], blocks'[k].used)
      BY <1>4, <1>7, <1>8
    <2>3. \A i, j \in 1..mark.kept : i # j => ~Overlap(live'[i], live'[j])
      BY <1>1, <1>4, <2>1 DEF RegionsInOrder
    <2>4. \A i \in 1..mark.kept : live'[i].at % live'[i].alignment = 0
      BY <1>1, <1>4, <2>1 DEF RegionsInOrder
    <2> QED BY <1>4, <2>2, <2>3, <2>4 DEF RegionsInOrder
  <1>12. ASSUME NEW n \in 1..(N - 1) PROVE MarkFits(scopes[n])' /\ BelowMark(scopes[n])'
    <2> DEFINE s == scopes[n]
    <2>1. scopes'[n] = s /\ MarkFits(s) /\ BelowMark(s) /\ s.kept <= mark.kept /\ s.kept \in Nat /\ s.block \in Nat
      BY <1>5, <1>6
    <2>2. MarkFits(s)'
      <3>1. s.block # NoBlock => s.used <= blocks'[s.block].capacity
        BY <1>1, <1>7, <2>1 DEF MarkFits, NoBlock
      <3> QED BY <1>4, <1>7, <2>1, <3>1 DEF MarkFits
    <2>3. ASSUME NEW i \in 1..s.kept
          PROVE  \E k \in 1..Len(blocks') : /\ Within(live'[i], blocks'[k], blocks'[k].used)
                                            /\ k <= s.block
                                            /\ k = s.block => Within(live'[i], blocks'[k], s.used)
      <3>1. i \in 1..mark.kept
        BY <1>2, <2>1
      <3>2. PICK j \in 1..Len(blocks) : Within(live[i], blocks[j], blocks[j].used) /\ Within(live[i], blocks'[j], blocks'[j].used)
        BY <1>8, <3>1
      <3>3. PICK k \in 1..Len(blocks) : /\ Within(live[i], blocks[k], blocks[k].used)
                                        /\ k <= s.block
                                        /\ k = s.block => Within(live[i], blocks[k], s.used)
        BY <2>1 DEF BelowMark
      <3>4. j = k
        BY <1>1, <1>8, <3>1, <3>2, <3>3, OneBlock
      <3>5. k = s.block => Within(live[i], blocks'[k], s.used)
        BY <1>7, <3>3 DEF Within
      <3> QED BY <1>4, <1>7, <3>1, <3>2, <3>3, <3>4, <3>5
    <2>4. BelowMark(s)'
      BY <2>1, <2>3 DEF BelowMark
    <2> QED BY <2>2, <2>4
  <1>13. MarksInOrder'
    <2>1. \A m, n \in 1..(N - 1) : m < n => scopes'[m].kept <= scopes'[n].kept
      BY <1>1, <1>5, <1>6 DEF MarksInOrder
    <2> QED BY <1>5, <1>12, <2>1 DEF MarksInOrder
  <1>14. ScopesNest'
    <2>1. ASSUME NEW n \in 1..(N - 1), scopes[n].fresh PROVE Undisturbed(scopes[n])'
      <3> DEFINE s == scopes[n]
      <3>1. scopes'[n] = s /\ Undisturbed(s) /\ s.block <= mark.block /\ s.block \in Nat /\ s.before \in Seq(Nat)
        BY <1>1, <1>5, <1>6, <2>1, ElementTypes
      <3>2. s.block <= current'
        BY <1>2, <1>7, <3>1
      <3>3. Len(s.before) \in Nat /\ Len(s.before) <= Len(blocks)
        BY <3>1 DEF Undisturbed
      <3>4. \A k \in 1..Len(s.before) : k < s.block => k < mark.block /\ k \in 1..Len(blocks)
        BY SMTT(40), <1>1, <1>2, <3>1, <3>3
      <3>5. \A k \in 1..Len(s.before) : k < s.block => s.before[k] = blocks'[k].used
        BY <1>7, <3>1, <3>4 DEF Undisturbed
      <3> HIDE DEF s
      <3>6. Undisturbed(s)'
        BY <1>7, <3>1, <3>2, <3>5 DEF Undisturbed, s
      <3> QED BY <3>6 DEF s
    <2>2. \A n \in 1..(N - 1) : scopes'[n].fresh => Undisturbed(scopes[n])'
      BY <1>5, <2>1
    <2>3. \A m, n \in 1..(N - 1) : m < n /\ scopes'[m].fresh => scopes'[n].fresh /\ scopes'[m].block <= scopes'[n].block
      BY <1>1, <1>5, <1>6 DEF ScopesNest
    <2> QED BY <1>5, <2>2, <2>3 DEF ScopesNest
  <1> QED BY <1>7, <1>9, <1>10, <1>11, <1>13, <1>14 DEF ArenaInv

-----------------------------------------------------------------------------
(* The arena is safe. *)

\* coglet_rt_mem_arena_destroy
LEMMA DeinitInv == ASSUME ArenaInv, ArenaDeinit PROVE ArenaInv'
  <1>1. /\ phase' = "retired" /\ blocks' = <<>> /\ current' = NoBlock /\ live' = <<>> /\ scopes' = <<>>
        /\ lent' = lent \ ({LentFor(blocks[k]) : k \in 1..Len(blocks)} \cup {ArenaState})
    BY DEF ArenaDeinit
  <1>2. lent = {LentFor(blocks[k]) : k \in 1..Len(blocks)} \cup {ArenaState}
    BY DEF ArenaInv, NothingLeaks, ArenaDeinit, Ready
  <1>3. NothingLeaks'
    <2>1. lent' = {}
      BY <1>1, <1>2
    <2> QED BY <1>1, <2>1 DEF NothingLeaks
  <1>4. Len(blocks') = 0 /\ Len(live') = 0 /\ Len(scopes') = 0
    BY <1>1
  <1>5. ArenaTypes'
    BY <1>1 DEF ArenaTypes, NoBlock
  <1>6. ChainInOrder' /\ RegionsInOrder' /\ MarksInOrder' /\ ScopesNest'
    BY <1>1, <1>4 DEF ChainInOrder, RegionsInOrder, MarksInOrder, ScopesNest
  <1> QED BY <1>3, <1>5, <1>6 DEF ArenaInv

LEMMA InitInv == ASSUME ArenaInit PROVE ArenaInv
  <1>1. /\ phase = "ready" /\ blocks = <<>> /\ current = 0 /\ live = <<>> /\ scopes = <<>> /\ lent = {ArenaState}
    BY DEF ArenaInit, NoBlock
  <1>2. Len(blocks) = 0 /\ Len(live) = 0 /\ Len(scopes) = 0
    BY <1>1
  <1>3. ArenaTypes
    BY <1>1 DEF ArenaTypes
  <1>4. ChainInOrder /\ RegionsInOrder /\ MarksInOrder /\ ScopesNest
    BY <1>1, <1>2 DEF ChainInOrder, RegionsInOrder, MarksInOrder, ScopesNest
  <1>5. NothingLeaks
    BY <1>1, <1>2 DEF NothingLeaks
  <1> QED BY <1>3, <1>4, <1>5 DEF ArenaInv

\* What an allocation does for the client: it aborts, or there is a new region,
\* aligned, in the address space and apart from all that was held.
Served(a, i) ==
  \/ Abort
  \/ /\ scopes' = KeptWithout(i) /\ phase' = phase
     /\ \E r \in RegionType :
          /\ live' = Append(Held(i), r) /\ r.alignment = a /\ r.at % a = 0
          /\ r.at > 0 /\ r.at + r.size <= AddressSpace - 1
          /\ \A j \in 1..Len(live) : r.at + r.size <= live[j].at \/ live[j].at + live[j].size <= r.at

LEMMA AllocateInv ==
  ASSUME ArenaInv, Ready, NEW size \in Nat \ {0}, NEW a \in Aligning, NEW i \in 0..Len(live), Allocate(size, a, i)
  PROVE  ArenaInv' /\ Served(a, i)
  <1>1. CASE AllocInBlock(size, a, i)
    <2>1. scopes' = KeptWithout(i) /\ phase' = phase
      BY <1>1 DEF AllocInBlock
    <2>2. /\ ArenaInv'
          /\ \E r \in RegionType :
               /\ live' = Append(Held(i), r) /\ r.alignment = a /\ r.at % a = 0
               /\ r.at > 0 /\ r.at + r.size <= AddressSpace - 1
               /\ \A j \in 1..Len(live) : r.at + r.size <= live[j].at \/ live[j].at + live[j].size <= r.at
      BY <1>1, AllocInBlockInv
    <2> QED BY <2>1, <2>2, Zenon DEF Served
  <1>2. CASE AllocNewBlock(size, a, i)
    <2>1. scopes' = KeptWithout(i) /\ phase' = phase
      BY <1>2 DEF AllocNewBlock
    <2>2. /\ ArenaInv'
          /\ \E r \in RegionType :
               /\ live' = Append(Held(i), r) /\ r.alignment = a /\ r.at % a = 0
               /\ r.at > 0 /\ r.at + r.size <= AddressSpace - 1
               /\ \A j \in 1..Len(live) : r.at + r.size <= live[j].at \/ live[j].at + live[j].size <= r.at
      BY <1>2, AllocNewBlockInv
    <2> QED BY <2>1, <2>2, Zenon DEF Served
  <1>3. CASE AllocAborts(size, a)
    <2>1. Abort
      BY <1>3 DEF AllocAborts
    <2> QED BY <2>1, AbortInv DEF Served
  <1> QED BY <1>1, <1>2, <1>3 DEF Allocate

LEMMA AllocInv ==
  ASSUME ArenaInv, NEW size \in Sizes, NEW a \in Alignments, Alloc(size, a)
  PROVE  ArenaInv' /\ Served(CheckedAlignment(a), 0)
  <1>1. Ready /\ size \in Nat \ {0} /\ CheckedAlignment(a) \in Aligning /\ Allocate(size, CheckedAlignment(a), 0)
    BY CheckedIsAligning DEF Alloc
  <1>2. 0 \in 0..Len(live)
    BY ElementTypes DEF ArenaInv
  <1> QED BY <1>1, <1>2, AllocateInv

LEMMA ResizeInv ==
  ASSUME ArenaInv, NEW i \in 1..Len(live), NEW size \in Sizes, Resize(i, size)
  PROVE  ArenaInv' /\ Served(live[i].alignment, i)
  <1>1. Ready /\ size \in Nat \ {0} /\ Allocate(size, live[i].alignment, i)
    BY DEF Resize
  <1>2. i \in 0..Len(live) /\ live[i].alignment \in Aligning
    BY ElementTypes DEF ArenaInv
  <1> QED BY <1>1, <1>2, AllocateInv

LEMMA UnchangedInv == ASSUME ArenaInv, UNCHANGED avars PROVE ArenaInv'
  <1> USE DEF ArenaInv, avars
  <1>1. ArenaTypes'
    BY DEF ArenaTypes
  <1>2. ChainInOrder' /\ RegionsInOrder'
    BY DEF ChainInOrder, RegionsInOrder
  <1>3. MarksInOrder'
    BY DEF MarksInOrder, MarkFits, BelowMark
  <1>4. ScopesNest'
    BY DEF ScopesNest, Undisturbed
  <1>5. NothingLeaks'
    BY DEF NothingLeaks, LentFor
  <1> QED BY <1>1, <1>2, <1>3, <1>4, <1>5

LEMMA ArenaStep == ASSUME ArenaInv, [ArenaNext]_avars PROVE ArenaInv'
  <1>1. ASSUME NEW size \in Sizes, NEW a \in Alignments, Alloc(size, a) PROVE ArenaInv'
    BY <1>1, AllocInv
  <1>2. ASSUME NEW i \in 1..Len(live), Free(i) PROVE ArenaInv'
    BY <1>2, FreeInv
  <1>3. ASSUME NEW i \in 1..Len(live), NEW size \in Sizes, Resize(i, size) PROVE ArenaInv'
    BY <1>3, ResizeInv
  <1>4. CASE Over
    BY <1>4, UnchangedInv DEF Over
  <1>5. CASE UNCHANGED avars
    BY <1>5, UnchangedInv
  <1> QED BY <1>1, <1>2, <1>3, <1>4, <1>5, ResetInv, BeginInv, EndInv, DeinitInv DEF ArenaNext

(* The invariant holds in every state an arena can come to, with any number
   of allocations, resets and nested scratch scopes. *)
THEOREM ArenaInductive == ArenaSpec => []ArenaInv
  <1>1. ArenaInit => ArenaInv
    BY InitInv
  <1>2. ArenaInv /\ [ArenaNext]_avars => ArenaInv'
    BY ArenaStep
  <1> QED BY <1>1, <1>2, PTL DEF ArenaSpec

\* The arena keeps its types, no block is used beyond its capacity, and every
\* allocation the client holds lies in the used part of some block.
THEOREM ArenaSafe == ArenaSpec => []ArenaInvariant
  <1>1. ArenaInv => ArenaInvariant
    <2> SUFFICES ASSUME ArenaInv PROVE ArenaInvariant
      OBVIOUS
    <2>1. ArenaTypeOK
      BY DEF ArenaInv, ArenaTypes, ChainInOrder, BlockFits, ArenaTypeOK, BlockType
    <2>2. HeldIsUsed
      BY DEF ArenaInv, RegionsInOrder, Within, HeldIsUsed
    <2> QED BY <2>1, <2>2 DEF ArenaInvariant
  <1> QED BY <1>1, ArenaInductive, PTL

\* The parent has lent the blocks of the chain and the arena's state and nothing
\* else; when the arena is retired it has everything back.
THEOREM ArenaLeaksNothing == ArenaSpec => []NothingLeaks
  <1>1. ArenaInv => NothingLeaks
    BY DEF ArenaInv
  <1> QED BY <1>1, ArenaInductive, PTL

\* The end of a scratch scope makes every block as full as it was when the scope
\* began, unless the arena was reset meanwhile.
THEOREM RewindIsExact == ArenaSpec => RewindRestores
  <1> DEFINE mark == scopes[Len(scopes)]
  <1>1. ASSUME ArenaInv, ScratchEnd, mark.fresh, NEW k \in 1..Len(blocks')
        PROVE  blocks'[k].used = IF k <= Len(mark.before) THEN mark.before[k] ELSE 0
    <2>1. Len(scopes) \in 1..Len(scopes)
      BY <1>1, ElementTypes DEF ArenaInv, ScratchEnd
    <2>2. mark \in Scope /\ mark.block \in Nat /\ Len(mark.before) \in Nat
      BY <1>1, <2>1, ElementTypes DEF ArenaInv
    <2>3. MarkFits(mark) /\ Undisturbed(mark)
      BY <1>1, <2>1 DEF ArenaInv, MarksInOrder, ScopesNest
    <2> HIDE DEF mark
    <2>4. CASE mark.block = NoBlock
      <3>1. ResetBlocks
        BY <1>1, <2>4 DEF ScratchEnd, mark
      <3>2. Len(blocks') = Len(blocks) /\ \A j \in 1..Len(blocks) : blocks'[j].used = 0
        BY <1>1, <3>1, EmptiedBlocks
      <3>3. Len(mark.before) = 0 /\ ~(k <= Len(mark.before))
        BY <2>3, <2>4 DEF Undisturbed
      <3> QED BY <1>1, <3>2, <3>3
    <2>5. CASE mark.block # NoBlock
      <3>1. blocks' = Rewound(mark) /\ current' = mark.block
        BY <1>1, <2>5 DEF ScratchEnd, mark
      <3>2. /\ Len(blocks') = Len(blocks)
            /\ \A j \in 1..Len(blocks) : /\ j < mark.block => blocks'[j].used = blocks[j].used
                                         /\ j = mark.block => blocks'[j].used = mark.used
                                         /\ j > mark.block => blocks'[j].used = 0
        BY <1>1, <2>2, <2>3, <2>5, <3>1, RewoundBlocks
      <3>3. k \in 1..Len(blocks) /\ k \in Nat
        BY <1>1, <3>2
      <3>4. CASE k <= Len(mark.before)
        <4>1. k \in 1..Len(mark.before)
          BY <2>2, <3>3, <3>4
        <4>2. k < mark.block \/ k = mark.block \/ k > mark.block
          BY <2>2, <3>3
        <4>3. mark.before[k] = blocks'[k].used
          BY <2>3, <2>5, <3>2, <3>3, <4>1, <4>2 DEF Undisturbed
        <4> QED BY <3>4, <4>3
      <3>5. CASE ~(k <= Len(mark.before))
        <4>1. k > mark.block
          BY <2>2, <2>3, <3>3, <3>5 DEF Undisturbed
        <4> QED BY <3>2, <3>3, <3>5, <4>1
      <3> QED BY <3>4, <3>5
    <2> QED BY <2>4, <2>5
  <1> DEFINE Exact == (ScratchEnd /\ mark.fresh) =>
                        \A k \in 1..Len(blocks') : blocks'[k].used = IF k <= Len(mark.before) THEN mark.before[k] ELSE 0
  <1>2. ArenaInv /\ [ArenaNext]_avars => [Exact]_avars
    BY <1>1
  <1>3. RewindRestores <=> [][Exact]_avars
    BY DEF RewindRestores
  <1> HIDE DEF Exact
  <1> QED BY <1>2, <1>3, ArenaInductive, PTL DEF ArenaSpec

-----------------------------------------------------------------------------
(* The arena implements the contract of an allocator. *)

\* The scopes as the contract sees them: how many of the regions are older.
Kept == [k \in 1..Len(scopes) |-> scopes[k].kept]

LEMMA KeptIsSequence ==
  ASSUME ArenaTypes
  PROVE  Kept \in Seq(Nat) /\ Len(Kept) = Len(scopes) /\ \A n \in 1..Len(scopes) : Kept[n] = scopes[n].kept
  <1>1. Len(scopes) \in Nat /\ \A n \in 1..Len(scopes) : scopes[n].kept \in Nat
    BY ElementTypes
  <1> QED BY <1>1 DEF Kept

LEMMA NoneKept == ASSUME scopes = <<>> PROVE Kept = <<>>
  <1>1. Len(scopes) = 0
    OBVIOUS
  <1>2. Kept \in Seq(Nat) /\ Len(Kept) = 0
    BY <1>1 DEF Kept
  <1> QED BY <1>2

LEMMA KeptAfter ==
  ASSUME ArenaTypes, MarksInOrder, NEW i \in 0..Len(live), scopes' = KeptWithout(i)
  PROVE  Kept' = IF i = 0 THEN Kept ELSE [k \in 1..Len(Kept) |-> IF i <= Kept[k] THEN Kept[k] - 1 ELSE Kept[k]]
  <1>1. Len(scopes) \in Nat /\ \A n \in 1..Len(scopes) : scopes[n].kept \in Nat
    BY ElementTypes
  <1>2. /\ Len(scopes') = Len(scopes)
        /\ \A n \in 1..Len(scopes) : scopes'[n].kept = IF i > 0 /\ i <= scopes[n].kept THEN scopes[n].kept - 1 ELSE scopes[n].kept
    BY KeptElements
  <1>3. Kept' = [n \in 1..Len(scopes) |-> scopes'[n].kept]
    BY <1>2 DEF Kept
  <1>4. Len(Kept) = Len(scopes) /\ \A n \in 1..Len(scopes) : Kept[n] = scopes[n].kept
    BY KeptIsSequence
  <1>5. CASE i = 0
    <2>1. \A n \in 1..Len(scopes) : scopes'[n].kept = scopes[n].kept
      BY <1>2, <1>5
    <2> QED BY <1>3, <1>5, <2>1 DEF Kept
  <1>6. CASE i # 0
    <2>1. \A n \in 1..Len(scopes) : scopes'[n].kept = IF i <= Kept[n] THEN Kept[n] - 1 ELSE Kept[n]
      BY <1>2, <1>4, <1>6
    <2> QED BY <1>3, <1>4, <1>6, <2>1
  <1> QED BY <1>5, <1>6

\* An allocation or a reallocation grows what the client holds by a fresh region.
LEMMA ServedGrows ==
  ASSUME ArenaInv, Ready, NEW a, NEW i \in 0..Len(live), Served(a, i)
  PROVE  \/ ArenaContract!Close
         \/ ArenaContract!Grows(Held(i), live) /\ Ready' /\ scopes' = KeptWithout(i)
  <1>1. CASE Abort
    <2>1. ~Ready' /\ live' = <<>> /\ scopes' = <<>>
      BY <1>1 DEF Abort, Ready
    <2>2. Kept' = <<>>
      <3>1. Len(scopes') = 0
        BY <2>1
      <3>2. Kept' = [k \in 1..0 |-> scopes'[k].kept]
        BY <3>1 DEF Kept
      <3>3. Kept' \in Seq(Nat) /\ Len(Kept') = 0
        BY <3>2
      <3> QED BY <3>3
    <2>3. Ready' = FALSE
      BY <2>1 DEF Ready
    <2> QED BY <2>1, <2>2, <2>3 DEF ArenaContract!Close, Kept
  <1>2. CASE ~Abort
    <2>1. scopes' = KeptWithout(i) /\ phase' = phase
      BY <1>2 DEF Served
    <2>2. PICK r \in RegionType :
            /\ live' = Append(Held(i), r) /\ r.alignment = a /\ r.at % a = 0
            /\ r.at > 0 /\ r.at + r.size <= AddressSpace - 1
            /\ \A j \in 1..Len(live) : r.at + r.size <= live[j].at \/ live[j].at + live[j].size <= r.at
      BY <1>2 DEF Served
    <2>3. Held(i) \in Seq(RegionType) /\ Len(Held(i)) \in Nat
      BY HeldElements DEF ArenaInv
    <2>4. Len(live') = Len(Held(i)) + 1 /\ live'[Len(live')] = r
      BY <2>2, <2>3
    <2>5. SubSeq(live', 1, Len(Held(i))) = Held(i)
      BY <2>2, <2>3
    <2>6. ArenaContract!Bytes(r) \subseteq 1..(AddressSpace - 1)
      BY <2>2 DEF ArenaContract!Bytes, RegionType
    <2>7. ArenaContract!Fresh(r, live)
      BY <2>2, <2>6 DEF ArenaContract!Fresh, ArenaContract!Disjoint
    <2>8. ArenaContract!Grows(Held(i), live)
      BY <2>4, <2>5, <2>7 DEF ArenaContract!Grows, ArenaContract!Prefix
    <2> QED BY <2>1, <2>8 DEF Ready
  <1> QED BY <1>1, <1>2

LEMMA StepRefines ==
  ASSUME ArenaInv, [ArenaNext]_avars
  PROVE  [ArenaContract!Next]_<<live, Kept, Ready>>
  <1>1. /\ ArenaTypes /\ MarksInOrder /\ Len(live) \in Nat /\ Len(scopes) \in Nat /\ 0 \in 0..Len(live)
        /\ live \in Seq(RegionType) /\ scopes \in Seq(Scope)
        /\ \A i \in 1..Len(live) : i \in 0..Len(live)
    BY ElementTypes DEF ArenaInv, ArenaTypes
  <1>2. /\ Kept = [k \in 1..Len(scopes) |-> scopes[k].kept]
        /\ Kept \in Seq(Nat) /\ Len(Kept) = Len(scopes) /\ \A n \in 1..Len(scopes) : Kept[n] = scopes[n].kept
    BY <1>1, KeptIsSequence DEF Kept
  <1>3. ASSUME NEW size \in Sizes, NEW a \in Alignments, Alloc(size, a) PROVE ArenaContract!Next
    <2>1. Served(CheckedAlignment(a), 0) /\ Ready
      BY <1>3, AllocInv DEF Alloc
    <2>2. CASE ArenaContract!Close
      BY <2>2 DEF ArenaContract!Next
    <2>3. CASE ArenaContract!Grows(Held(0), live) /\ Ready' /\ scopes' = KeptWithout(0)
      <3>1. ArenaContract!Grows(live, live)
        BY <2>3 DEF Held
      <3>2. Kept' = Kept
        BY <1>1, <2>3, KeptAfter
      <3>3. ArenaContract!Allocate
        BY <2>1, <2>3, <3>1, <3>2 DEF ArenaContract!Allocate, Kept, Ready
      <3> QED BY <3>3 DEF ArenaContract!Next
    <2> QED BY <1>1, <2>1, <2>2, <2>3, ServedGrows
  <1>4. ASSUME NEW i \in 1..Len(live), NEW size \in Sizes, Resize(i, size) PROVE ArenaContract!Next
    <2>1. Served(live[i].alignment, i) /\ Ready /\ i \in 0..Len(live) /\ i # 0
      BY <1>1, <1>4, ResizeInv DEF Resize
    <2>2. CASE ArenaContract!Close
      BY <2>2 DEF ArenaContract!Next
    <2>3. CASE ArenaContract!Grows(Held(i), live) /\ Ready' /\ scopes' = KeptWithout(i)
      <3>1. Held(i) = ArenaContract!Without(live, i)
        BY <2>1 DEF Held, Without, Prefix, ArenaContract!Without, ArenaContract!Prefix
      <3>2. Kept' = ArenaContract!Older(i)
        BY <1>1, <2>1, <2>3, KeptAfter DEF ArenaContract!Older, Kept
      <3>3. ArenaContract!Resize(i)
        BY <2>1, <2>3, <3>1, <3>2 DEF ArenaContract!Resize, Kept, Ready
      <3> QED BY <3>3 DEF ArenaContract!Next
    <2> QED BY <2>1, <2>2, <2>3, ServedGrows
  <1>5. ASSUME NEW i \in 1..Len(live), Free(i) PROVE ArenaContract!Next
    <2>1. live' = Held(i) /\ scopes' = KeptWithout(i) /\ phase' = phase /\ Ready /\ i # 0
      BY <1>5 DEF Free
    <2>2. Held(i) = ArenaContract!Without(live, i)
      BY <2>1 DEF Held, Without, Prefix, ArenaContract!Without, ArenaContract!Prefix
    <2>3. Kept' = ArenaContract!Older(i)
      BY <1>1, <2>1, KeptAfter DEF ArenaContract!Older, Kept
    <2>4. ArenaContract!Free(i)
      BY <2>1, <2>2, <2>3 DEF ArenaContract!Free, Kept, Ready
    <2> QED BY <2>4 DEF ArenaContract!Next
  <1>6. CASE Reset
    <2>1. live' = <<>> /\ phase' = phase /\ Ready
      BY <1>6 DEF Reset
    <2>2. Len(scopes') = Len(scopes) /\ \A n \in 1..Len(scopes) : scopes'[n].kept = 0
      <3> DEFINE F(n) == [scopes[n] EXCEPT !.kept = 0, !.fresh = FALSE]
      <3>1. scopes' = [n \in 1..Len(scopes) |-> F(n)]
        BY <1>6 DEF Reset
      <3>2. ASSUME NEW n \in 1..Len(scopes) PROVE F(n).kept = 0
        <4>1. scopes[n] \in Scope
          BY <1>1
        <4> QED BY <4>1 DEF Scope
      <3> HIDE DEF F
      <3> QED BY <1>1, <3>1, <3>2
    <2>3. Kept' = [k \in 1..Len(Kept) |-> 0]
      BY <1>2, <2>2 DEF Kept
    <2>4. ArenaContract!Reset
      BY <2>1, <2>3 DEF ArenaContract!Reset, Kept, Ready
    <2> QED BY <2>4 DEF ArenaContract!Next
  <1>7. CASE ScratchBegin
    <2>1. live' = live /\ phase' = phase /\ Ready
      BY <1>7 DEF ScratchBegin
    <2>2. PICK s : scopes' = Append(scopes, s) /\ s.kept = Len(live)
      BY <1>7 DEF ScratchBegin
    <2>3. /\ Len(scopes') = Len(scopes) + 1 /\ scopes'[Len(scopes) + 1] = s
          /\ \A n \in 1..Len(scopes) : scopes'[n] = scopes[n]
      BY <1>1, <2>2
    <2>4. Kept' = Append(Kept, Len(live))
      <3>1. Kept' = [k \in 1..(Len(scopes) + 1) |-> scopes'[k].kept]
        BY <2>3 DEF Kept
      <3>2. \A k \in 1..(Len(scopes) + 1) : scopes'[k].kept = Append(Kept, Len(live))[k]
        BY <1>1, <1>2, <2>2, <2>3
      <3>3. Append(Kept, Len(live)) = [k \in 1..(Len(scopes) + 1) |-> Append(Kept, Len(live))[k]]
        BY <1>1, <1>2
      <3> QED BY <3>1, <3>2, <3>3
    <2>5. ArenaContract!Begin
      BY <2>1, <2>4 DEF ArenaContract!Begin, Kept, Ready
    <2> QED BY <2>5 DEF ArenaContract!Next
  <1>8. CASE ScratchEnd
    <2> DEFINE N == Len(scopes)
    <2>1. /\ live' = Prefix(live, scopes[N].kept) /\ scopes' = Prefix(scopes, N - 1) /\ phase' = phase /\ Ready /\ N > 0
          /\ N - 1 \in 0..N
      BY <1>1, <1>8 DEF ScratchEnd
    <2>2. Len(scopes') = N - 1 /\ \A n \in 1..(N - 1) : scopes'[n] = scopes[n]
      BY <1>1, <2>1, PrefixElements
    <2>3. Kept' = SubSeq(Kept, 1, N - 1)
      <3>1. Kept' = [k \in 1..(N - 1) |-> scopes[k].kept]
        BY <2>2 DEF Kept
      <3>2. SubSeq(Kept, 1, N - 1) = [k \in 1..(N - 1) |-> Kept[k]]
        BY <1>1, <1>2, <2>1
      <3> QED BY <1>1, <1>2, <2>1, <3>1, <3>2
    <2>4. Kept[Len(Kept)] = scopes[N].kept /\ Len(Kept) = N
      BY <1>1, <1>2, <2>1
    <2>5. ArenaContract!End
      BY <2>1, <2>3, <2>4 DEF ArenaContract!End, ArenaContract!Prefix, Prefix, Kept, Ready
    <2> QED BY <2>5 DEF ArenaContract!Next
  <1>9. CASE ArenaDeinit
    <2>1. live' = <<>> /\ scopes' = scopes /\ scopes = <<>> /\ Ready /\ phase' = "retired"
      BY <1>9 DEF ArenaDeinit
    <2>2. Kept' = <<>>
      <3>1. Kept = <<>>
        BY <2>1, NoneKept
      <3> QED BY <2>1, <3>1 DEF Kept
    <2>3. ArenaContract!Close
      BY <2>1, <2>2 DEF ArenaContract!Close, Kept, Ready
    <2> QED BY <2>3 DEF ArenaContract!Next
  <1>10. CASE UNCHANGED avars
    BY <1>10 DEF avars, Kept, Ready
  <1>11. CASE Over
    BY <1>10, <1>11 DEF Over
  <1> QED BY <1>3, <1>4, <1>5, <1>6, <1>7, <1>8, <1>9, <1>10, <1>11 DEF ArenaNext

\* The arena is an allocator: what a client holds is aligned and never overlaps,
\* and the end of a scratch scope gives back exactly what is younger than it.
THEOREM ArenaRefinesAllocator == ArenaSpec => ImplementsAllocator
  <1>1. ArenaInit => ArenaContract!Init
    <2> SUFFICES ASSUME ArenaInit PROVE ArenaContract!Init
      OBVIOUS
    <2>1. live = <<>> /\ Ready /\ Kept = <<>>
      BY NoneKept DEF ArenaInit, Ready
    <2> QED BY <2>1 DEF ArenaContract!Init, Kept, Ready
  <1>2. ArenaInv /\ [ArenaNext]_avars => [ArenaContract!Next]_(ArenaContract!vars)
    BY StepRefines DEF ArenaContract!vars, Kept
  <1> QED BY <1>1, <1>2, ArenaInductive, PTL DEF ArenaSpec, ImplementsAllocator, ArenaContract!Spec

=============================================================================
