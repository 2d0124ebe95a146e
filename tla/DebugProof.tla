----------------------------- MODULE DebugProof -----------------------------
(***************************************************************************)
(* Proofs about DebugAllocator, for every heap, every size of the headers  *)
(* and guards, and every set of sizes and alignments the client asks for.  *)
(***************************************************************************)
EXTENDS DebugAllocator, FiniteSetTheorems, WellFoundedInduction, TLAPS

LEMMA Constants ==
  /\ HeapSpace \in Nat \ {0} /\ HeapWord \in Nat \ {0} /\ HeapHeader \in Nat \ {0}
  /\ DebugHeader \in Nat \ {0} /\ Guard \in Nat \ {0} /\ DebugState \in Nat \ {0}
  /\ DebugSizes \subseteq Nat /\ DebugAlignments \subseteq Nat \ {0} /\ MaxTaken \in Nat /\ MaxWrongs \in Nat
  BY DebugAssumption

-----------------------------------------------------------------------------
(* Induction: a set of naturals has a least element. *)

LEMMA LeastNumber ==
  ASSUME NEW T, T \subseteq Nat, T # {}
  PROVE  \E n \in T : \A m \in T : n <= m
  <1> DEFINE R == OpToRel(<, Nat)
  <1>1. IsWellFoundedOn(R, Nat)
    BY NatLessThanWellFounded
  <1>2. R = {p \in Nat \X Nat : p[1] < p[2]}
    BY DEF OpToRel
  <1> HIDE DEF R
  <1>3. PICK n \in T : \A m \in T : ~(<<m, n>> \in R)
    BY <1>1, WFMin
  <1>4. \A m \in T : n <= m
    <2> SUFFICES ASSUME NEW m \in T, ~(n <= m) PROVE FALSE
      OBVIOUS
    <2>1. m \in Nat /\ n \in Nat /\ m < n
      OBVIOUS
    <2>2. <<m, n>> \in Nat \X Nat /\ <<m, n>>[1] = m /\ <<m, n>>[2] = n
      BY <2>1
    <2>3. <<m, n>> \in R
      BY <1>2, <2>1, <2>2
    <2> QED BY <1>3, <2>3
  <1> QED BY <1>4

LEMMA SetInduction ==
  ASSUME NEW S, 0 \in S, \A n \in Nat : n \in S => n + 1 \in S
  PROVE  Nat \subseteq S
  <1> SUFFICES ASSUME Nat \ S # {} PROVE FALSE
    OBVIOUS
  <1>1. PICK n \in Nat \ S : \A m \in Nat \ S : n <= m
    <2>1. Nat \ S \subseteq Nat
      OBVIOUS
    <2> QED BY <2>1, LeastNumber
  <1>2. n # 0 /\ n - 1 \in Nat /\ n = (n - 1) + 1
    BY <1>1
  <1>3. n - 1 \in S
    BY <1>1, <1>2
  <1> QED BY <1>2, <1>3

-----------------------------------------------------------------------------
(* Sums. *)

(* s holds the sums of the first weights.                                  *)
Adds(s, w) == s = [i \in 0 .. Len(w) |-> IF i = 0 THEN 0 ELSE s[i - 1] + w[i]]

LEMMA SumIsChoice == ASSUME NEW w PROVE SumOf(w) = (CHOOSE s : Adds(s, w))[Len(w)]
  BY DEF SumOf, Adds

LEMMA SumsAgree ==
  ASSUME NEW w \in Seq(Nat), NEW s, Adds(s, w)
  PROVE  SumOf(w) = s[Len(w)] /\ \A i \in 0 .. Len(w) : s[i] \in Nat
  <1> DEFINE t == CHOOSE u : Adds(u, w)
  <1>1. Adds(t, w)
    OBVIOUS
  <1>2. SumOf(w) = t[Len(w)]
    BY SumIsChoice
  <1> HIDE DEF t
  <1>3. Len(w) \in Nat /\ \A i \in 1 .. Len(w) : w[i] \in Nat
    OBVIOUS
  <1> DEFINE S == {i \in Nat : i <= Len(w) => s[i] = t[i] /\ s[i] \in Nat}
  <1>4. 0 \in S
    BY <1>1, <1>3 DEF Adds
  <1>5. ASSUME NEW n \in Nat, n \in S PROVE n + 1 \in S
    <2> SUFFICES ASSUME n + 1 <= Len(w) PROVE s[n + 1] = t[n + 1] /\ s[n + 1] \in Nat
      OBVIOUS
    <2>1. n + 1 \in 0 .. Len(w) /\ n + 1 # 0 /\ (n + 1) - 1 = n /\ n + 1 \in 1 .. Len(w)
      BY <1>3
    <2>2. s[n + 1] = s[n] + w[n + 1]
      BY <2>1 DEF Adds
    <2>3. t[n + 1] = t[n] + w[n + 1]
      BY <1>1, <2>1 DEF Adds
    <2>4. s[n] = t[n] /\ s[n] \in Nat
      BY <1>3, <1>5
    <2> QED BY <1>3, <2>1, <2>2, <2>3, <2>4
  <1> HIDE DEF S
  <1>6. Nat \subseteq S
    BY <1>4, <1>5, SetInduction
  <1>7. \A i \in 0 .. Len(w) : s[i] = t[i] /\ s[i] \in Nat
    BY <1>3, <1>6 DEF S
  <1> QED BY <1>2, <1>3, <1>7

(* Each sequence of weights can be summed up.                              *)
LEMMA SumsExist == ASSUME NEW w \in Seq(Nat) PROVE \E s : Adds(s, w)
  <1> DEFINE Sums(s, n) == s = [i \in 0 .. n |-> IF i = 0 THEN 0 ELSE s[i - 1] + w[i]]
             S == {n \in Nat : n <= Len(w) => \E s : Sums(s, n)}
  <1>1. Len(w) \in Nat
    OBVIOUS
  <1>2. 0 \in S
    <2> DEFINE s == [i \in 0 .. 0 |-> 0]
    <2>1. Sums(s, 0)
      OBVIOUS
    <2> QED BY <2>1
  <1>3. ASSUME NEW n \in Nat, n \in S PROVE n + 1 \in S
    <2> SUFFICES ASSUME n + 1 <= Len(w) PROVE \E s : Sums(s, n + 1)
      OBVIOUS
    <2>1. PICK s : Sums(s, n)
      BY <1>1, <1>3
    <2> DEFINE t == [i \in 0 .. n + 1 |-> IF i = n + 1 THEN s[n] + w[n + 1] ELSE s[i]]
    <2>2. ASSUME NEW i \in 0 .. n + 1 PROVE t[i] = IF i = 0 THEN 0 ELSE t[i - 1] + w[i]
      <3>1. CASE i = n + 1
        BY <3>1
      <3>2. CASE i # n + 1
        <4>1. i \in 0 .. n /\ t[i] = s[i]
          BY <3>2
        <4>2. s[i] = IF i = 0 THEN 0 ELSE s[i - 1] + w[i]
          BY <2>1, <4>1
        <4>3. i # 0 => i - 1 \in 0 .. n + 1 /\ i - 1 # n + 1
          BY <4>1
        <4> QED BY <4>1, <4>2, <4>3
      <3> QED BY <3>1, <3>2
    <2>3. Sums(t, n + 1)
      BY <2>2
    <2> QED BY <2>3
  <1> HIDE DEF S
  <1>4. Nat \subseteq S
    BY <1>2, <1>3, SetInduction
  <1> QED BY <1>1, <1>4 DEF S, Adds

(* The sum without the i-th weight.                                        *)
LEMMA SumWithout ==
  ASSUME NEW w \in Seq(Nat), NEW v \in Seq(Nat), NEW i \in 1 .. Len(w), Len(v) = Len(w) - 1,
         \A k \in 1 .. Len(v) : v[k] = IF k < i THEN w[k] ELSE w[k + 1]
  PROVE  SumOf(w) = SumOf(v) + w[i] /\ SumOf(w) \in Nat /\ SumOf(v) \in Nat /\ w[i] \in Nat
  <1>1. Len(w) \in Nat /\ i \in Nat /\ i >= 1 /\ i <= Len(w) /\ \A k \in 1 .. Len(w) : w[k] \in Nat
    OBVIOUS
  <1>2. PICK s : Adds(s, v)
    BY SumsExist
  <1>3. SumOf(v) = s[Len(v)] /\ \A k \in 0 .. Len(v) : s[k] \in Nat
    BY <1>2, SumsAgree
  <1> DEFINE t == [k \in 0 .. Len(w) |-> IF k < i THEN s[k] ELSE s[k - 1] + w[i]]
  <1>4. ASSUME NEW k \in 0 .. Len(w) PROVE t[k] = IF k = 0 THEN 0 ELSE t[k - 1] + w[k]
    <2>1. \A j \in 0 .. Len(v) : s[j] = IF j = 0 THEN 0 ELSE s[j - 1] + v[j]
      BY <1>2 DEF Adds
    <2>2. CASE k < i
      <3>1. k \in 0 .. Len(v) /\ t[k] = s[k]
        BY <1>1, <2>2
      <3>2. CASE k = 0
        BY <2>1, <3>1, <3>2
      <3>3. CASE k # 0
        <4>1. k - 1 \in 0 .. Len(w) /\ k - 1 < i /\ k \in 1 .. Len(v)
          BY <1>1, <2>2, <3>1, <3>3
        <4>2. t[k - 1] = s[k - 1]
          BY <4>1
        <4>3. s[k] = s[k - 1] + v[k] /\ v[k] = w[k]
          BY <2>1, <2>2, <3>1, <3>3, <4>1
        <4> HIDE DEF t
        <4> QED BY <3>1, <3>3, <4>2, <4>3
      <3> QED BY <3>2, <3>3
    <2>3. CASE k = i
      <3>1. k - 1 \in 0 .. Len(w) /\ k - 1 < i /\ ~(k < i) /\ k # 0
        BY <1>1, <2>3
      <3> QED BY <2>3, <3>1
    <2>4. CASE k > i
      <3>1. /\ k - 1 \in 0 .. Len(w) /\ ~(k - 1 < i) /\ ~(k < i) /\ k # 0 /\ k - 1 \in 1 .. Len(v)
            /\ k - 1 # 0 /\ (k - 1) - 1 \in 0 .. Len(v) /\ (k - 1) + 1 = k /\ k \in 1 .. Len(w) /\ k - 1 \in 0 .. Len(v)
        BY SMTT(40), <1>1, <2>4
      <3>2. t[k] = s[k - 1] + w[i] /\ t[k - 1] = s[(k - 1) - 1] + w[i]
        BY SMTT(40), <3>1
      <3>3. s[k - 1] = s[(k - 1) - 1] + v[k - 1] /\ v[k - 1] = w[k]
        BY <2>1, <3>1
      <3>4. s[(k - 1) - 1] \in Nat /\ w[i] \in Nat /\ w[k] \in Nat
        BY <1>1, <1>3, <3>1
      <3>5. \A a, b, c \in Nat : (a + c) + b = (a + b) + c
        OBVIOUS
      <3>6. (s[(k - 1) - 1] + w[k]) + w[i] = (s[(k - 1) - 1] + w[i]) + w[k]
        BY <3>4, <3>5
      <3>7. t[k] = t[k - 1] + w[k]
        BY <3>2, <3>3, <3>6
      <3> HIDE DEF t
      <3> QED BY <3>1, <3>7
    <2> QED BY <1>1, <2>2, <2>3, <2>4
  <1>5. Adds(t, w)
    <2>1. t = [k \in 0 .. Len(w) |-> IF k = 0 THEN 0 ELSE t[k - 1] + w[k]]
      BY <1>4
    <2> HIDE DEF t
    <2> QED BY <2>1 DEF Adds
  <1>6. SumOf(w) = t[Len(w)]
    <2> HIDE DEF t
    <2> QED BY <1>5, SumsAgree
  <1>7. t[Len(w)] = s[Len(v)] + w[i]
    BY <1>1
  <1> QED BY <1>1, <1>3, <1>6, <1>7

LEMMA SumOfNothing ==
  ASSUME NEW w \in Seq(Nat), \A i \in 1 .. Len(w) : w[i] = 0
  PROVE  SumOf(w) = 0
  <1> DEFINE s == [i \in 0 .. Len(w) |-> 0]
  <1>1. Adds(s, w)
    <2>1. \A i \in 0 .. Len(w) : i # 0 => i - 1 \in 0 .. Len(w) /\ i \in 1 .. Len(w)
      OBVIOUS
    <2>2. s = [i \in 0 .. Len(w) |-> IF i = 0 THEN 0 ELSE s[i - 1] + w[i]]
      BY <2>1
    <2> QED BY <2>2 DEF Adds
  <1>2. SumOf(w) = s[Len(w)]
    <2> HIDE DEF s
    <2> QED BY <1>1, SumsAgree
  <1> QED BY <1>2

LEMMA SumType == ASSUME NEW w \in Seq(Nat) PROVE SumOf(w) \in Nat
  <1>1. PICK s : Adds(s, w)
    BY SumsExist
  <1> QED BY <1>1, SumsAgree

-----------------------------------------------------------------------------
(* The inductive invariant, in terms of a chain c of blocks. *)

BlockType == [base : Nat, raw : Nat, user : Nat, size : Nat \ {0}, alignment : Nat \ {0}, total : Nat, id : Nat, intact : BOOLEAN]
CountType == [next_id : Nat, live_allocations : Nat, live_bytes : Nat, total_allocations : Nat, total_bytes : Nat, error_count : Nat]

DebugTypes ==
  /\ chain \in Seq(BlockType) /\ counts \in CountType /\ wrongs \in Nat
  /\ running \in {"created", "destroyed", "aborted"}
  /\ running # "created" => chain = << >>

(* A block, its header and its guards lie in the memory that was lent for  *)
(* it, behind the header of the heap.                                      *)
BlockFits(b) ==
  /\ b.base >= 1 /\ b.base + HeapHeader <= b.raw /\ b.raw + DebugHeader + Guard <= b.user
  /\ b.user + b.size + Guard <= b.base + Lent(b).size
  /\ b.base + Lent(b).size <= HeapSpace
  /\ b.user % b.alignment = 0

(* No two blocks of the chain share memory.                                *)
InOrder(c) ==
  /\ \A i \in 1 .. Len(c) : BlockFits(c[i]) /\ Apart(Lent(c[i]), StateMemory)
  /\ \A i, j \in 1 .. Len(c) : i # j => Apart(Lent(c[i]), Lent(c[j]))

Memories(c)  == {Lent(c[i]) : i \in 1 .. Len(c)} \cup {StateMemory}
SizesOf(c)   == [i \in 1 .. Len(c) |-> c[i].size]
DamagesOf(c) == [i \in 1 .. Len(c) |-> Damage(c[i])]

HeapAgrees ==
  /\ running = "created" => malloced = Memories(chain)
  /\ running = "destroyed" => malloced = {}
CountsAgree ==
  running = "created" =>
    /\ counts.live_allocations = Len(chain)
    /\ counts.live_bytes = SumOf(SizesOf(chain))
    /\ counts.error_count + SumOf(DamagesOf(chain)) = wrongs

DebugInv == DebugTypes /\ InOrder(chain) /\ HeapAgrees /\ CountsAgree

-----------------------------------------------------------------------------
(* Memory. *)

LEMMA RoundUp ==
  ASSUME NEW v \in Nat, NEW a \in Nat \ {0}
  PROVE  /\ Aligned(v, a) \in Nat /\ v <= Aligned(v, a) /\ Aligned(v, a) <= v + (a - 1)
         /\ Aligned(v, a) % a = 0
  <1>1. \A n \in Nat : /\ (n \div a) * a \in Nat /\ (n \div a) * a <= n /\ n < (n \div a) * a + a
                       /\ ((n \div a) * a) % a = 0
    OBVIOUS
  <1>2. v + a - 1 \in Nat /\ v + a - 1 = v + (a - 1)
    OBVIOUS
  <1> DEFINE n == v + a - 1  r == (n \div a) * a
  <1>3. Aligned(v, a) = r
    BY DEF Aligned
  <1>4. r \in Nat /\ r <= n /\ n < r + a /\ r % a = 0
    BY <1>1, <1>2
  <1> HIDE DEF r
  <1>5. v <= r
    BY <1>2, <1>4
  <1> QED BY <1>2, <1>3, <1>4, <1>5

LEMMA ApartIsDistinct ==
  ASSUME NEW b \in BlockType, NEW c \in BlockType, Apart(Lent(b), Lent(c))
  PROVE  Lent(b) # Lent(c) /\ Apart(Lent(c), Lent(b))
  <1>1. b.base \in Nat /\ c.base \in Nat /\ b.total \in Nat /\ c.total \in Nat
    BY DEF BlockType
  <1>2. heap_total(b.total, HeapWord) \in Nat \ {0} /\ heap_total(c.total, HeapWord) \in Nat \ {0}
    BY <1>1, Constants DEF heap_total
  <1>3. /\ Lent(b).at = b.base /\ Lent(b).size = heap_total(b.total, HeapWord)
        /\ Lent(c).at = c.base /\ Lent(c).size = heap_total(c.total, HeapWord)
    BY DEF Lent
  <1>4. Apart(Lent(c), Lent(b))
    BY DEF Apart
  <1>5. Lent(b).at # Lent(c).at
    <2>1. b.base + heap_total(b.total, HeapWord) <= c.base \/ c.base + heap_total(c.total, HeapWord) <= b.base
      BY <1>3 DEF Apart
    <2> QED BY <1>1, <1>2, <1>3, <2>1
  <1> QED BY <1>4, <1>5

(* A new block, over the heap as it was.                                   *)
New(block) ==
  /\ block \in BlockType /\ BlockFits(block) /\ block.intact = TRUE
  /\ \A m \in malloced : Apart(m, Lent(block))

(* What coglet_rt_mem_debug_allocate_internal makes of the memory malloc   *)
(* lends it.                                                               *)
LEMMA NewBlock ==
  ASSUME counts \in CountType, NEW size \in Nat \ {0}, NEW alignment \in Nat \ {0},
         NEW base \in malloc(Memory(size, alignment))
  PROVE  New(Block(base, size, alignment)) /\ Block(base, size, alignment).size = size
  <1> DEFINE block == Block(base, size, alignment)
             raw == heap_pointer(base, HeapWord)
             user == user_address(raw, alignment)
             total == debug_total(size, alignment)
             lent == heap_total(total, HeapWord)
  <1>1. block = [base |-> base, raw |-> raw, user |-> user, size |-> size, alignment |-> alignment,
                 total |-> total, id |-> counts.next_id, intact |-> TRUE]
    BY DEF Block
  <1>2. /\ base \in Nat /\ base >= 1 /\ base + Memory(size, alignment) <= HeapSpace
        /\ \A m \in malloced : Apart(m, [at |-> base, size |-> Memory(size, alignment)])
    BY Constants DEF malloc
  <1>3. lent = Memory(size, alignment)
    BY DEF Memory
  <1>4. total \in Nat /\ total = DebugHeader + Guard + (alignment - 1) + size + Guard
    BY Constants DEF debug_total
  <1>5. lent \in Nat /\ lent = total + HeapHeader + (HeapWord - 1)
    BY Constants, <1>4 DEF heap_total
  <1>6. raw \in Nat /\ base + HeapHeader <= raw /\ raw <= base + HeapHeader + (HeapWord - 1)
    <2>1. base + HeapHeader \in Nat /\ HeapWord \in Nat \ {0}
      BY Constants, <1>2
    <2>2. raw = Aligned(base + HeapHeader, HeapWord)
      BY DEF heap_pointer
    <2> QED BY <2>1, <2>2, RoundUp
  <1>7. /\ user \in Nat /\ raw + DebugHeader + Guard <= user
        /\ user <= raw + DebugHeader + Guard + (alignment - 1) /\ user % alignment = 0
    <2> HIDE DEF raw
    <2>1. raw + DebugHeader + Guard \in Nat
      BY Constants, <1>6
    <2> QED BY <2>1, RoundUp DEF user_address
  <1> HIDE DEF block, raw, user, total, lent
  <1>8. user + size + Guard <= base + lent
    BY Constants, <1>2, <1>4, <1>5, <1>6, <1>7
  <1>9. counts.next_id \in Nat
    BY DEF CountType
  <1>10. block \in BlockType
    BY <1>1, <1>2, <1>4, <1>6, <1>7, <1>9 DEF BlockType
  <1>11. /\ block.base = base /\ block.raw = raw /\ block.user = user /\ block.size = size
         /\ block.alignment = alignment /\ block.total = total /\ block.intact = TRUE
    BY <1>1
  <1>12. Lent(block) = [at |-> base, size |-> lent] /\ Lent(block).size = lent
    BY <1>11 DEF Lent, lent
  <1>13. BlockFits(block)
    BY <1>2, <1>3, <1>6, <1>7, <1>8, <1>11, <1>12 DEF BlockFits
  <1>14. New(block) /\ block.size = size
    BY <1>2, <1>3, <1>10, <1>11, <1>12, <1>13 DEF New
  <1> QED BY <1>14 DEF block

-----------------------------------------------------------------------------
(* The chain. *)

LEMMA RemoveElements ==
  ASSUME NEW S, NEW s \in Seq(S), NEW i \in 1 .. Len(s)
  PROVE  /\ SE!RemoveAt(s, i) \in Seq(S) /\ Len(SE!RemoveAt(s, i)) = Len(s) - 1
         /\ \A k \in 1 .. Len(s) - 1 : SE!RemoveAt(s, i)[k] = IF k < i THEN s[k] ELSE s[k + 1]
  <1> DEFINE f == SubSeq(s, 1, i - 1)  g == SubSeq(s, i + 1, Len(s))
  <1>1. f \in Seq(S) /\ Len(f) = i - 1 /\ \A k \in 1 .. (i - 1) : f[k] = s[k]
    OBVIOUS
  <1>2. g \in Seq(S) /\ Len(g) = Len(s) - i /\ \A k \in 1 .. (Len(s) - i) : g[k] = s[i + k]
    OBVIOUS
  <1>3. SE!RemoveAt(s, i) = f \o g
    BY DEF SE!RemoveAt
  <1> HIDE DEF f, g
  <1>4. SE!RemoveAt(s, i) \in Seq(S) /\ Len(SE!RemoveAt(s, i)) = Len(s) - 1
    BY <1>1, <1>2, <1>3
  <1>5. ASSUME NEW k \in 1 .. Len(s) - 1 PROVE SE!RemoveAt(s, i)[k] = IF k < i THEN s[k] ELSE s[k + 1]
    <2>1. CASE k < i
      BY <1>1, <1>2, <1>3, <2>1
    <2>2. CASE k >= i
      <3>1. SE!RemoveAt(s, i)[k] = g[k - (i - 1)] /\ k - (i - 1) \in 1 .. (Len(s) - i)
        BY <1>1, <1>2, <1>3, <2>2
      <3>2. i + (k - (i - 1)) = k + 1 /\ ~(k < i)
        BY <2>2
      <3> QED BY <1>2, <3>1, <3>2
    <2> QED BY <2>1, <2>2
  <1> QED BY <1>4, <1>5

LEMMA WeightTypes ==
  ASSUME NEW c \in Seq(BlockType)
  PROVE  /\ SizesOf(c) \in Seq(Nat) /\ Len(SizesOf(c)) = Len(c) /\ \A i \in 1 .. Len(c) : SizesOf(c)[i] = c[i].size
         /\ DamagesOf(c) \in Seq(Nat) /\ Len(DamagesOf(c)) = Len(c) /\ \A i \in 1 .. Len(c) : DamagesOf(c)[i] = Damage(c[i])
         /\ Len(c) \in Nat /\ \A i \in 1 .. Len(c) : c[i] \in BlockType /\ c[i].size \in Nat /\ Damage(c[i]) \in {0, 1}
  <1>1. Len(c) \in Nat /\ \A i \in 1 .. Len(c) : c[i] \in BlockType
    OBVIOUS
  <1>2. \A b \in BlockType : b.size \in Nat /\ Damage(b) \in {0, 1}
    BY DEF BlockType, Damage
  <1> QED BY <1>1, <1>2 DEF SizesOf, DamagesOf

(* The chain c with the i-th block gone is d, whichever way it came.       *)
LEMMA Shortened ==
  ASSUME NEW c \in Seq(BlockType), NEW d \in Seq(BlockType), NEW i \in 1 .. Len(c), Len(d) = Len(c) - 1,
         \A k \in 1 .. Len(d) : d[k] = IF k < i THEN c[k] ELSE c[k + 1]
  PROVE  /\ SumOf(SizesOf(c)) = SumOf(SizesOf(d)) + c[i].size
         /\ SumOf(DamagesOf(c)) = SumOf(DamagesOf(d)) + Damage(c[i])
         /\ Memories(c) = Memories(d) \cup {Lent(c[i])}
  <1>1. Len(c) \in Nat /\ Len(d) \in Nat
    OBVIOUS
  <1>2. \A k \in 1 .. Len(d) : (k < i /\ d[k] = c[k] /\ k \in 1 .. Len(c)) \/ (~(k < i) /\ d[k] = c[k + 1] /\ k + 1 \in 1 .. Len(c))
    BY <1>1
  <1>3. /\ SizesOf(c) \in Seq(Nat) /\ Len(SizesOf(c)) = Len(c) /\ \A k \in 1 .. Len(c) : SizesOf(c)[k] = c[k].size
        /\ DamagesOf(c) \in Seq(Nat) /\ Len(DamagesOf(c)) = Len(c) /\ \A k \in 1 .. Len(c) : DamagesOf(c)[k] = Damage(c[k])
    BY WeightTypes
  <1>4. /\ SizesOf(d) \in Seq(Nat) /\ Len(SizesOf(d)) = Len(d) /\ \A k \in 1 .. Len(d) : SizesOf(d)[k] = d[k].size
        /\ DamagesOf(d) \in Seq(Nat) /\ Len(DamagesOf(d)) = Len(d) /\ \A k \in 1 .. Len(d) : DamagesOf(d)[k] = Damage(d[k])
    BY WeightTypes
  <1>5. SumOf(SizesOf(c)) = SumOf(SizesOf(d)) + c[i].size
    <2>1. \A k \in 1 .. Len(SizesOf(d)) : SizesOf(d)[k] = IF k < i THEN SizesOf(c)[k] ELSE SizesOf(c)[k + 1]
      BY ZenonT(60), <1>2, <1>3, <1>4
    <2>2. Len(SizesOf(d)) = Len(SizesOf(c)) - 1 /\ i \in 1 .. Len(SizesOf(c))
      BY <1>3, <1>4
    <2>3. SizesOf(c) \in Seq(Nat) /\ SizesOf(d) \in Seq(Nat)
      BY <1>3, <1>4
    <2>4. SumOf(SizesOf(c)) = SumOf(SizesOf(d)) + SizesOf(c)[i]
      BY <2>1, <2>2, <2>3, SumWithout
    <2> QED BY <1>3, <2>4
  <1>6. SumOf(DamagesOf(c)) = SumOf(DamagesOf(d)) + Damage(c[i])
    <2>1. \A k \in 1 .. Len(DamagesOf(d)) : DamagesOf(d)[k] = IF k < i THEN DamagesOf(c)[k] ELSE DamagesOf(c)[k + 1]
      BY ZenonT(60), <1>2, <1>3, <1>4
    <2>2. Len(DamagesOf(d)) = Len(DamagesOf(c)) - 1 /\ i \in 1 .. Len(DamagesOf(c))
      BY <1>3, <1>4
    <2>3. DamagesOf(c) \in Seq(Nat) /\ DamagesOf(d) \in Seq(Nat)
      BY <1>3, <1>4
    <2>4. SumOf(DamagesOf(c)) = SumOf(DamagesOf(d)) + DamagesOf(c)[i]
      BY <2>1, <2>2, <2>3, SumWithout
    <2> QED BY <1>3, <2>4
  <1>7. ASSUME NEW k \in 1 .. Len(c), k # i PROVE \E j \in 1 .. Len(d) : d[j] = c[k]
    <2>1. CASE k < i
      <3>1. k \in 1 .. Len(d)
        BY <1>1, <2>1
      <3> QED BY <2>1, <3>1
    <2>2. CASE k > i
      <3>1. k - 1 \in 1 .. Len(d) /\ ~(k - 1 < i) /\ (k - 1) + 1 = k
        BY <1>1, <2>2
      <3> QED BY <3>1
    <2> QED BY <1>1, <1>7, <2>1, <2>2
  <1>8. \A k \in 1 .. Len(d) : \E j \in 1 .. Len(c) : d[k] = c[j]
    BY <1>2
  <1>9. Memories(c) = Memories(d) \cup {Lent(c[i])}
    BY <1>7, <1>8 DEF Memories
  <1> QED BY <1>5, <1>6, <1>9

LEMMA Removed ==
  ASSUME NEW c \in Seq(BlockType), InOrder(c), NEW i \in 1 .. Len(c), NEW d, d = SE!RemoveAt(c, i)
  PROVE  /\ d \in Seq(BlockType) /\ InOrder(d) /\ Len(d) = Len(c) - 1
         /\ SumOf(SizesOf(c)) = SumOf(SizesOf(d)) + c[i].size
         /\ SumOf(DamagesOf(c)) = SumOf(DamagesOf(d)) + Damage(c[i])
         /\ Memories(d) = Memories(c) \ {Lent(c[i])}
  <1>1. /\ d \in Seq(BlockType) /\ Len(d) = Len(c) - 1 /\ Len(c) \in Nat /\ Len(d) \in Nat
        /\ \A k \in 1 .. Len(d) : d[k] = IF k < i THEN c[k] ELSE c[k + 1]
    <2>1. /\ SE!RemoveAt(c, i) \in Seq(BlockType) /\ Len(SE!RemoveAt(c, i)) = Len(c) - 1
          /\ \A k \in 1 .. Len(c) - 1 : SE!RemoveAt(c, i)[k] = IF k < i THEN c[k] ELSE c[k + 1]
      BY RemoveElements
    <2>2. Len(c) \in Nat /\ Len(c) - 1 \in Nat
      OBVIOUS
    <2> QED BY <2>1, <2>2
  <1>2. /\ SumOf(SizesOf(c)) = SumOf(SizesOf(d)) + c[i].size
        /\ SumOf(DamagesOf(c)) = SumOf(DamagesOf(d)) + Damage(c[i])
        /\ Memories(c) = Memories(d) \cup {Lent(c[i])}
    BY SMTT(40), <1>1, Shortened
  <1> DEFINE at(k) == IF k < i THEN k ELSE k + 1
  <1>3. ASSUME NEW k \in 1 .. Len(d) PROVE at(k) \in 1 .. Len(c) /\ at(k) # i /\ d[k] = c[at(k)]
    BY <1>1
  <1>4. \A j, k \in 1 .. Len(d) : j # k => at(j) # at(k)
    BY <1>1
  <1> HIDE DEF at
  <1>5. InOrder(d)
    BY <1>3, <1>4 DEF InOrder
  <1>6. ASSUME NEW k \in 1 .. Len(d) PROVE Lent(d[k]) # Lent(c[i])
    <2>1. c[at(k)] \in BlockType /\ c[i] \in BlockType /\ Apart(Lent(c[at(k)]), Lent(c[i]))
      BY <1>3 DEF InOrder
    <2>2. Lent(c[at(k)]) # Lent(c[i])
      BY <2>1, ApartIsDistinct
    <2> QED BY <1>3, <2>2
  <1>7. Lent(c[i]) # StateMemory
    <2>1. c[i] \in BlockType /\ Apart(Lent(c[i]), StateMemory)
      BY DEF InOrder
    <2>2. c[i].base \in Nat /\ c[i].total \in Nat
      BY <2>1 DEF BlockType
    <2>3. heap_total(c[i].total, HeapWord) \in Nat \ {0} /\ heap_total(DebugState, HeapWord) \in Nat \ {0} /\ HeapWord \in Nat
      BY <2>2, Constants DEF heap_total
    <2>4. /\ Lent(c[i]).at = c[i].base /\ Lent(c[i]).size = heap_total(c[i].total, HeapWord)
          /\ StateMemory.at = HeapWord /\ StateMemory.size = heap_total(DebugState, HeapWord)
      BY DEF Lent, StateMemory
    <2>5. Lent(c[i]).at # StateMemory.at
      <3>1. c[i].base + heap_total(c[i].total, HeapWord) <= HeapWord \/ HeapWord + heap_total(DebugState, HeapWord) <= c[i].base
        BY <2>1, <2>4 DEF Apart
      <3> QED BY <2>2, <2>3, <2>4, <3>1
    <2> QED BY <2>5
  <1>8. Lent(c[i]) \notin Memories(d)
    BY <1>6, <1>7 DEF Memories
  <1> QED BY <1>1, <1>2, <1>5, <1>8

LEMMA Pushed ==
  ASSUME NEW c \in Seq(BlockType), InOrder(c), NEW b \in BlockType, BlockFits(b),
         \A m \in Memories(c) : Apart(m, Lent(b)), NEW d, d = <<b>> \o c
  PROVE  /\ d \in Seq(BlockType) /\ InOrder(d) /\ Len(d) = Len(c) + 1
         /\ SumOf(SizesOf(d)) = SumOf(SizesOf(c)) + b.size
         /\ SumOf(DamagesOf(d)) = SumOf(DamagesOf(c)) + Damage(b)
         /\ Memories(d) = Memories(c) \cup {Lent(b)}
  <1>1. /\ d \in Seq(BlockType) /\ Len(d) = Len(c) + 1 /\ Len(c) \in Nat /\ d[1] = b
        /\ \A k \in 1 .. Len(c) : d[k + 1] = c[k]
    OBVIOUS
  <1>2. 1 \in 1 .. Len(d) /\ Len(c) = Len(d) - 1 /\ \A k \in 1 .. Len(c) : c[k] = IF k < 1 THEN d[k] ELSE d[k + 1]
    BY <1>1
  <1>3. /\ SumOf(SizesOf(d)) = SumOf(SizesOf(c)) + b.size
        /\ SumOf(DamagesOf(d)) = SumOf(DamagesOf(c)) + Damage(b)
        /\ Memories(d) = Memories(c) \cup {Lent(b)}
    <2>1. /\ SumOf(SizesOf(d)) = SumOf(SizesOf(c)) + d[1].size
          /\ SumOf(DamagesOf(d)) = SumOf(DamagesOf(c)) + Damage(d[1])
          /\ Memories(d) = Memories(c) \cup {Lent(d[1])}
      <3>1. d \in Seq(BlockType)
        BY <1>1
      <3> QED BY ZenonT(60), <1>2, <3>1, Shortened
    <2> QED BY <1>1, <2>1
  <1>4. \A k \in 1 .. Len(d) : k = 1 \/ (k - 1 \in 1 .. Len(c) /\ d[k] = c[k - 1])
    <2> SUFFICES ASSUME NEW k \in 1 .. Len(d), k # 1 PROVE k - 1 \in 1 .. Len(c) /\ d[k] = c[k - 1]
      OBVIOUS
    <2>1. k - 1 \in 1 .. Len(c) /\ (k - 1) + 1 = k
      BY <1>1
    <2> QED BY <1>1, <2>1
  <1>5. \A m \in Memories(c) : Apart(Lent(b), m)
    BY DEF Apart
  <1>6. StateMemory \in Memories(c) /\ \A k \in 1 .. Len(c) : Lent(c[k]) \in Memories(c)
    BY DEF Memories
  <1>7. \A k \in 1 .. Len(d) : BlockFits(d[k]) /\ Apart(Lent(d[k]), StateMemory)
    BY <1>1, <1>4, <1>5, <1>6 DEF InOrder
  <1>8. ASSUME NEW j \in 1 .. Len(d), NEW k \in 1 .. Len(d), j # k PROVE Apart(Lent(d[j]), Lent(d[k]))
    <2>1. CASE j = 1
      BY <1>1, <1>4, <1>5, <1>6, <1>8, <2>1
    <2>2. CASE k = 1
      BY <1>1, <1>4, <1>6, <1>8, <2>2
    <2>3. CASE j # 1 /\ k # 1
      <3>1. j - 1 \in 1 .. Len(c) /\ k - 1 \in 1 .. Len(c) /\ j - 1 # k - 1
        BY <1>4, <1>8, <2>3
      <3> QED BY <1>4, <2>3, <3>1 DEF InOrder
    <2> QED BY <2>1, <2>2, <2>3
  <1>9. InOrder(d)
    BY <1>7, <1>8 DEF InOrder
  <1> QED BY <1>1, <1>3, <1>9

Overwritten(c, i) == [c EXCEPT ![i].intact = FALSE]

LEMMA Damaged ==
  ASSUME NEW c \in Seq(BlockType), InOrder(c), NEW i \in 1 .. Len(c), c[i].intact = TRUE,
         NEW d, d = Overwritten(c, i)
  PROVE  /\ d \in Seq(BlockType) /\ InOrder(d) /\ Len(d) = Len(c) /\ Memories(d) = Memories(c)
         /\ SumOf(SizesOf(d)) = SumOf(SizesOf(c))
         /\ SumOf(DamagesOf(d)) = SumOf(DamagesOf(c)) + 1
         /\ \A k \in 1 .. Len(c) : d[k].user = c[k].user /\ d[k].size = c[k].size /\ d[k].alignment = c[k].alignment
  <1> DEFINE b == [c[i] EXCEPT !.intact = FALSE]
  <1>1. c[i] \in BlockType /\ Len(c) \in Nat
    OBVIOUS
  <1>2. /\ b \in BlockType /\ b.base = c[i].base /\ b.raw = c[i].raw /\ b.user = c[i].user /\ b.size = c[i].size
        /\ b.alignment = c[i].alignment /\ b.total = c[i].total /\ b.intact = FALSE
    BY <1>1 DEF BlockType
  <1>3. d = [c EXCEPT ![i] = b]
    BY DEF Overwritten
  <1> HIDE DEF b
  <1>4. d \in Seq(BlockType) /\ Len(d) = Len(c) /\ d[i] = b /\ \A k \in 1 .. Len(c) : k # i => d[k] = c[k]
    <2>1. DOMAIN c = 1 .. Len(c) /\ DOMAIN d = 1 .. Len(c)
      BY <1>3
    <2>2. d[i] = b /\ \A k \in 1 .. Len(c) : k # i => d[k] = c[k]
      BY <1>3, <2>1
    <2>4. c \in [1 .. Len(c) -> BlockType]
      OBVIOUS
    <2>5. d \in [1 .. Len(c) -> BlockType]
      BY <1>2, <1>3, <2>4
    <2>6. d \in Seq(BlockType) /\ Len(d) = Len(c)
      BY <1>1, <2>5
    <2> QED BY <2>2, <2>6
  <1>5. Lent(b) = Lent(c[i])
    BY <1>2 DEF Lent
  <1>6. BlockFits(c[i]) => BlockFits(b)
    BY <1>2, <1>5 DEF BlockFits
  <1>7. \A k \in 1 .. Len(c) : Lent(d[k]) = Lent(c[k]) /\ (BlockFits(c[k]) => BlockFits(d[k]))
    BY <1>4, <1>5, <1>6
  <1>8. InOrder(d) /\ Memories(d) = Memories(c)
    BY <1>4, <1>7 DEF InOrder, Memories
  <1> DEFINE e == SE!RemoveAt(c, i)
  <1>9. /\ e \in Seq(BlockType) /\ Len(e) = Len(c) - 1
        /\ \A k \in 1 .. Len(e) : e[k] = IF k < i THEN c[k] ELSE c[k + 1]
    BY RemoveElements
  <1> HIDE DEF e
  <1>10. i \in 1 .. Len(d) /\ Len(e) = Len(d) - 1 /\ \A k \in 1 .. Len(e) : e[k] = IF k < i THEN d[k] ELSE d[k + 1]
    <2>1. \A k \in 1 .. Len(e) : (k < i => k \in 1 .. Len(c) /\ k # i) /\ (~(k < i) => k + 1 \in 1 .. Len(c) /\ k + 1 # i)
      BY <1>1, <1>9
    <2> QED BY <1>4, <1>9, <2>1
  <1>11. SumOf(SizesOf(c)) = SumOf(SizesOf(e)) + c[i].size /\ SumOf(DamagesOf(c)) = SumOf(DamagesOf(e)) + Damage(c[i])
    BY <1>9, Shortened
  <1>12. SumOf(SizesOf(d)) = SumOf(SizesOf(e)) + d[i].size /\ SumOf(DamagesOf(d)) = SumOf(DamagesOf(e)) + Damage(d[i])
    BY <1>4, <1>9, <1>10, Shortened
  <1>13. Damage(c[i]) = 0 /\ Damage(d[i]) = 1
    BY <1>2, <1>4 DEF Damage
  <1>14. SumOf(DamagesOf(e)) \in Nat
    BY <1>9, WeightTypes, SumType
  <1>15. \A k \in 1 .. Len(c) : d[k].user = c[k].user /\ d[k].size = c[k].size /\ d[k].alignment = c[k].alignment
    BY <1>2, <1>4
  <1> QED BY <1>2, <1>4, <1>8, <1>11, <1>12, <1>13, <1>14, <1>15

LEMMA EmptyChain ==
  /\ << >> \in Seq(BlockType) /\ InOrder(<< >>) /\ Len(<< >>) = 0 /\ Memories(<< >>) = {StateMemory}
  /\ SumOf(SizesOf(<< >>)) = 0 /\ SumOf(DamagesOf(<< >>)) = 0
  <1>1. << >> \in Seq(BlockType) /\ Len(<< >>) = 0
    OBVIOUS
  <1>2. InOrder(<< >>) /\ Memories(<< >>) = {StateMemory}
    BY <1>1 DEF InOrder, Memories
  <1>3. /\ SizesOf(<< >>) \in Seq(Nat) /\ DamagesOf(<< >>) \in Seq(Nat)
        /\ Len(SizesOf(<< >>)) = 0 /\ Len(DamagesOf(<< >>)) = 0
    BY <1>1, WeightTypes
  <1>4. SumOf(SizesOf(<< >>)) = 0 /\ SumOf(DamagesOf(<< >>)) = 0
    BY <1>3, SumOfNothing
  <1> QED BY <1>1, <1>2, <1>4

(* coglet_rt_mem_debug_find finds a block of the chain, or nothing.        *)
LEMMA FindInChain == ASSUME chain \in Seq(BlockType), NEW p PROVE debug_find(p) \in 0 .. Len(chain)
  <1> DEFINE at == {i \in DOMAIN chain : chain[i].user = p}
  <1>1. at \subseteq 1 .. Len(chain) /\ at \subseteq Nat /\ Len(chain) \in Nat
    OBVIOUS
  <1>2. debug_find(p) = IF at = {} THEN 0 ELSE Min(at)
    BY DEF debug_find
  <1> HIDE DEF at
  <1>3. at # {} => Min(at) \in at
    <2> SUFFICES ASSUME at # {} PROVE Min(at) \in at
      OBVIOUS
    <2>1. \E n \in at : \A m \in at : n <= m
      BY <1>1, LeastNumber
    <2> QED BY <2>1 DEF Min
  <1>4. CASE at = {}
    BY <1>1, <1>2, <1>4
  <1>5. CASE at # {}
    <2>1. debug_find(p) \in 1 .. Len(chain)
      BY <1>1, <1>2, <1>3, <1>5
    <2> QED BY <1>1, <2>1
  <1> QED BY <1>4, <1>5

-----------------------------------------------------------------------------
(* The steps. *)

LEMMA CountedFields ==
  ASSUME NEW c \in CountType, NEW size \in Nat, NEW d, d = Counted(c, size)
  PROVE  /\ d \in CountType /\ d.live_allocations = c.live_allocations + 1
         /\ d.live_bytes = c.live_bytes + size /\ d.error_count = c.error_count
  <1>1. /\ c.next_id + 1 \in Nat /\ c.live_allocations + 1 \in Nat /\ c.live_bytes + size \in Nat
        /\ c.total_allocations + 1 \in Nat /\ c.total_bytes + size \in Nat
    BY DEF CountType
  <1>2. d \in CountType
    BY <1>1 DEF Counted, CountType
  <1> QED BY <1>2 DEF Counted, CountType

LEMMA FreedFields ==
  ASSUME NEW c \in CountType, NEW block, block.size \in Nat, NEW size, NEW faults \in Nat,
         c.live_allocations >= 1, c.live_bytes >= block.size, NEW d, d = Freed(c, block, size, faults)
  PROVE  /\ d \in CountType /\ d.live_allocations = c.live_allocations - 1
         /\ d.live_bytes = c.live_bytes - block.size /\ d.error_count = c.error_count + faults
  <1>1. c.live_allocations - 1 \in Nat /\ c.live_bytes - block.size \in Nat /\ c.error_count + faults \in Nat
    BY DEF CountType
  <1> QED BY <1>1 DEF Freed, freed_size, CountType

LEMMA FaultyFields ==
  ASSUME NEW c \in CountType, NEW faults \in Nat, NEW d, d = [c EXCEPT !.error_count = @ + faults]
  PROVE  /\ d \in CountType /\ d.live_allocations = c.live_allocations
         /\ d.live_bytes = c.live_bytes /\ d.error_count = c.error_count + faults
  BY DEF CountType

LEMMA InvFacts ==
  ASSUME DebugInv
  PROVE  /\ chain \in Seq(BlockType) /\ counts \in CountType /\ wrongs \in Nat /\ InOrder(chain) /\ Len(chain) \in Nat
         /\ counts.live_allocations \in Nat /\ counts.live_bytes \in Nat /\ counts.error_count \in Nat
         /\ running \in {"created", "destroyed", "aborted"}
         /\ SumOf(SizesOf(chain)) \in Nat /\ SumOf(DamagesOf(chain)) \in Nat
         /\ \A i \in 1 .. Len(chain) : chain[i] \in BlockType /\ chain[i].size \in Nat /\ Damage(chain[i]) \in {0, 1}
         /\ running = "created" => /\ malloced = Memories(chain) /\ counts.live_allocations = Len(chain)
                                   /\ counts.live_bytes = SumOf(SizesOf(chain))
                                   /\ counts.error_count + SumOf(DamagesOf(chain)) = wrongs
  <1>1. chain \in Seq(BlockType) /\ counts \in CountType /\ wrongs \in Nat /\ running \in {"created", "destroyed", "aborted"}
    BY DEF DebugInv, DebugTypes
  <1>2. counts.live_allocations \in Nat /\ counts.live_bytes \in Nat /\ counts.error_count \in Nat
    BY <1>1 DEF CountType
  <1>3. SizesOf(chain) \in Seq(Nat) /\ DamagesOf(chain) \in Seq(Nat)
    BY <1>1, WeightTypes
  <1>4. SumOf(SizesOf(chain)) \in Nat /\ SumOf(DamagesOf(chain)) \in Nat
    BY <1>3, SumType
  <1>5. Len(chain) \in Nat /\ \A i \in 1 .. Len(chain) : chain[i] \in BlockType /\ chain[i].size \in Nat /\ Damage(chain[i]) \in {0, 1}
    BY <1>1, WeightTypes
  <1>6. InOrder(chain) /\ (running = "created" => /\ malloced = Memories(chain) /\ counts.live_allocations = Len(chain)
                                                  /\ counts.live_bytes = SumOf(SizesOf(chain))
                                                  /\ counts.error_count + SumOf(DamagesOf(chain)) = wrongs)
    BY DEF DebugInv, HeapAgrees, CountsAgree
  <1> QED BY <1>1, <1>2, <1>4, <1>5, <1>6

LEMMA FailsInv == ASSUME DebugInv, DebugFails PROVE DebugInv' /\ chain' = << >> /\ running' = "aborted"
  <1>1. running' = "aborted" /\ chain' = << >> /\ UNCHANGED <<counts, malloced, returned, wrongs>>
    BY DEF DebugFails
  <1>2. DebugTypes'
    BY <1>1, InvFacts, EmptyChain DEF DebugTypes
  <1>3. InOrder(chain')
    BY <1>1, EmptyChain
  <1> QED BY <1>1, <1>2, <1>3 DEF DebugInv, HeapAgrees, CountsAgree

LEMMA AllocInv ==
  ASSUME DebugInv, NEW size \in Nat, NEW alignment \in Nat \ {0}, DebugAlloc(size, alignment)
  PROVE  /\ DebugInv' /\ running = "created"
         /\ \/ running' = "aborted" /\ chain' = << >>
            \/ running' = "created" /\ \E block : New(block) /\ chain' = <<block>> \o chain
  <1>1. running = "created" /\ size \in Nat \ {0}
    BY DEF DebugAlloc
  <1>2. CASE DebugFails
    BY <1>1, <1>2, FailsInv
  <1>3. CASE ~ DebugFails
    <2>1. PICK base \in malloc(Memory(size, alignment)) :
            LET block == Block(base, size, alignment) IN
            /\ chain' = <<block>> \o chain
            /\ malloced' = malloced \cup {Lent(block)}
            /\ counts' = Counted(counts, size)
            /\ UNCHANGED <<wrongs, running>>
      BY <1>3 DEF DebugAlloc
    <2> DEFINE block == Block(base, size, alignment)
    <2>2. /\ chain' = <<block>> \o chain /\ malloced' = malloced \cup {Lent(block)} /\ counts' = Counted(counts, size)
          /\ wrongs' = wrongs /\ running' = running
      BY <2>1
    <2>3. malloced = Memories(chain)
      BY <1>1, InvFacts
    <2>4. /\ block \in BlockType /\ BlockFits(block) /\ \A m \in malloced : Apart(m, Lent(block))
          /\ block.size = size /\ block.intact = TRUE
      <3>1. counts \in CountType /\ size \in Nat \ {0}
        BY <1>1, InvFacts
      <3>2. New(block) /\ block.size = size
        BY <3>1, NewBlock
      <3> QED BY <3>2 DEF New
    <2> HIDE DEF block
    <2>5. New(block)
      BY <2>4 DEF New
    <2>6. /\ chain' \in Seq(BlockType) /\ InOrder(chain') /\ Len(chain') = Len(chain) + 1
          /\ SumOf(SizesOf(chain')) = SumOf(SizesOf(chain)) + block.size
          /\ SumOf(DamagesOf(chain')) = SumOf(DamagesOf(chain)) + Damage(block)
          /\ Memories(chain') = Memories(chain) \cup {Lent(block)}
      BY ZenonT(60), <2>2, <2>3, <2>4, InvFacts, Pushed
    <2>7. Damage(block) = 0
      BY <2>4 DEF Damage
    <2>8. /\ counts' \in CountType /\ counts'.live_allocations = counts.live_allocations + 1
          /\ counts'.live_bytes = counts.live_bytes + size /\ counts'.error_count = counts.error_count
      <3>1. counts \in CountType
        BY InvFacts
      <3> QED BY <2>2, <3>1, CountedFields
    <2>9. DebugTypes'
      BY <1>1, <2>2, <2>6, <2>8, InvFacts DEF DebugTypes
    <2>10. HeapAgrees'
      BY <1>1, <2>2, <2>3, <2>6 DEF HeapAgrees
    <2>11. CountsAgree'
      <3>1. /\ counts'.live_allocations = Len(chain') /\ counts'.live_bytes = SumOf(SizesOf(chain'))
            /\ counts'.error_count + SumOf(DamagesOf(chain')) = wrongs'
        BY <1>1, <2>2, <2>4, <2>6, <2>7, <2>8, InvFacts
      <3> QED BY <3>1 DEF CountsAgree
    <2> QED BY <1>1, <2>2, <2>5, <2>6, <2>9, <2>10, <2>11 DEF DebugInv
  <1> QED BY <1>2, <1>3

LEMMA FreeInv ==
  ASSUME DebugInv, NEW p, NEW size, NEW alignment, DebugFree(p, size, alignment)
  PROVE  /\ DebugInv' /\ running = "created" /\ running' = "created"
         /\ chain' = chain \/ \E i \in 1 .. Len(chain) : chain' = SE!RemoveAt(chain, i)
  <1> DEFINE i == debug_find(p)
  <1>1. running = "created" /\ running' = running
    BY DEF DebugFree
  <1>2. i \in 0 .. Len(chain)
    BY InvFacts, FindInChain
  <1>3. CASE i = 0
    <2>1. counts' = [counts EXCEPT !.error_count = @ + 1] /\ wrongs' = wrongs + 1 /\ UNCHANGED <<chain, malloced>>
      BY <1>3 DEF DebugFree
    <2>2. /\ counts' \in CountType /\ counts'.live_allocations = counts.live_allocations
          /\ counts'.live_bytes = counts.live_bytes /\ counts'.error_count = counts.error_count + 1
      BY ZenonT(60), <2>1, InvFacts, FaultyFields
    <2>3. DebugTypes' /\ HeapAgrees'
      BY <1>1, <2>1, <2>2, InvFacts DEF DebugInv, DebugTypes, HeapAgrees
    <2>4. CountsAgree'
      <3>1. counts'.error_count + SumOf(DamagesOf(chain)) = wrongs'
        BY <1>1, <2>1, <2>2, InvFacts
      <3> QED BY <1>1, <2>1, <2>2, <3>1, InvFacts DEF CountsAgree
    <2> QED BY <1>1, <2>1, <2>3, <2>4 DEF DebugInv
  <1>4. CASE i # 0
    <2> DEFINE block == chain[i]  misfit == Misfit(block, size, alignment)
    <2>1. /\ chain' = SE!RemoveAt(chain, i) /\ malloced' = malloced \ {Lent(block)}
          /\ counts' = Freed(counts, block, size, misfit + Damage(block)) /\ wrongs' = wrongs + misfit
      BY <1>4 DEF DebugFree
    <2>2. i \in 1 .. Len(chain) /\ block \in BlockType /\ block.size \in Nat /\ Damage(block) \in {0, 1} /\ misfit \in {0, 1}
      BY <1>2, <1>4, InvFacts DEF Misfit
    <2> HIDE DEF i, misfit
    <2>3. /\ chain' \in Seq(BlockType) /\ InOrder(chain') /\ Len(chain') = Len(chain) - 1
          /\ SumOf(SizesOf(chain)) = SumOf(SizesOf(chain')) + block.size
          /\ SumOf(DamagesOf(chain)) = SumOf(DamagesOf(chain')) + Damage(block)
          /\ Memories(chain') = Memories(chain) \ {Lent(block)}
      BY <2>1, <2>2, InvFacts, Removed
    <2>4. SumOf(SizesOf(chain')) \in Nat /\ SumOf(DamagesOf(chain')) \in Nat
      BY <2>3, WeightTypes, SumType
    <2> HIDE DEF block
    <2>5. counts.live_allocations >= 1 /\ counts.live_bytes >= block.size /\ misfit + Damage(block) \in Nat
      BY SMTT(40), <1>1, <2>2, <2>3, <2>4, InvFacts
    <2>6. /\ counts' \in CountType /\ counts'.live_allocations = counts.live_allocations - 1
          /\ counts'.live_bytes = counts.live_bytes - block.size
          /\ counts'.error_count = counts.error_count + (misfit + Damage(block))
      BY SMTT(40), <2>1, <2>2, <2>5, InvFacts, FreedFields
    <2>7. DebugTypes'
      BY SMTT(40), <1>1, <2>1, <2>2, <2>3, <2>6, InvFacts DEF DebugTypes
    <2>8. HeapAgrees'
      BY <1>1, <2>1, <2>3, InvFacts DEF HeapAgrees
    <2>9. CountsAgree'
      <3>1. counts'.live_allocations = Len(chain') /\ counts'.live_bytes = SumOf(SizesOf(chain'))
        BY SMTT(40), <1>1, <2>2, <2>3, <2>4, <2>6, InvFacts
      <3>2. counts'.error_count + SumOf(DamagesOf(chain')) = wrongs'
        <4>1. \A e, m, g, f \in Nat : (e + (m + g)) + f = (e + (f + g)) + m
          OBVIOUS
        <4>2. /\ counts.error_count \in Nat /\ misfit \in Nat /\ Damage(block) \in Nat
              /\ counts.error_count + SumOf(DamagesOf(chain)) = wrongs
          BY <1>1, <2>2, InvFacts
        <4>3. (counts.error_count + (misfit + Damage(block))) + SumOf(DamagesOf(chain'))
                = (counts.error_count + (SumOf(DamagesOf(chain')) + Damage(block))) + misfit
          BY <2>4, <4>1, <4>2
        <4> QED BY <2>1, <2>3, <2>6, <4>2, <4>3
      <3> QED BY <3>1, <3>2 DEF CountsAgree
    <2> QED BY <1>1, <2>1, <2>2, <2>3, <2>7, <2>8, <2>9 DEF DebugInv
  <1> QED BY <1>3, <1>4

LEMMA ResizeInv ==
  ASSUME DebugInv, NEW p, NEW old, NEW size \in Nat, NEW alignment \in Nat \ {0}, DebugResize(p, old, size, alignment)
  PROVE  /\ DebugInv' /\ running = "created"
         /\ \/ running' = "aborted" /\ chain' = << >>
            \/ running' = "created" /\ chain' = chain
            \/ /\ running' = "created"
               /\ \E i \in 1 .. Len(chain) : \E block : New(block) /\ chain' = <<block>> \o SE!RemoveAt(chain, i)
  <1> DEFINE i == debug_find(p)
             misfit == IF i > 0 /\ old # chain[i].size THEN 1 ELSE 0
  <1>1. running = "created" /\ size \in Nat \ {0}
    BY DEF DebugResize
  <1>2. i \in 0 .. Len(chain) /\ Len(chain) \in Nat
    BY InvFacts, FindInChain
  <1>3. CASE i = 0
    <2>1. counts' = [counts EXCEPT !.error_count = @ + 1] /\ wrongs' = wrongs + 1 /\ UNCHANGED <<chain, malloced, running>>
      BY <1>3 DEF DebugResize
    <2>2. /\ counts' \in CountType /\ counts'.live_allocations = counts.live_allocations
          /\ counts'.live_bytes = counts.live_bytes /\ counts'.error_count = counts.error_count + 1
      <3>1. counts \in CountType /\ 1 \in Nat
        BY InvFacts
      <3> QED BY <2>1, <3>1, FaultyFields
    <2>3. DebugTypes' /\ HeapAgrees'
      BY <1>1, <2>1, <2>2, InvFacts DEF DebugInv, DebugTypes, HeapAgrees
    <2>4. CountsAgree'
      <3>1. counts'.error_count + SumOf(DamagesOf(chain)) = wrongs'
        BY <1>1, <2>1, <2>2, InvFacts
      <3> QED BY <1>1, <2>1, <2>2, <3>1, InvFacts DEF CountsAgree
    <2> QED BY <1>1, <2>1, <2>3, <2>4 DEF DebugInv
  <1>4. CASE i # 0 /\ DebugFails
    BY <1>1, <1>4, FailsInv
  <1>5. CASE i # 0 /\ ~ DebugFails
    <2> DEFINE gone == chain[i]
    <2>1. PICK base \in malloc(Memory(size, alignment)) :
            LET block == Block(base, size, alignment) IN
            /\ chain' = <<block>> \o SE!RemoveAt(chain, i)
            /\ malloced' = (malloced \cup {Lent(block)}) \ {Lent(gone)}
            /\ counts' = Freed(Counted(counts, size), gone, gone.size, misfit + Damage(gone))
            /\ wrongs' = wrongs + misfit
            /\ UNCHANGED running
      <3>1. i > 0
        BY <1>2, <1>5
      <3> QED BY <1>5, <3>1 DEF DebugResize
    <2> DEFINE block == Block(base, size, alignment)
    <2>2. /\ chain' = <<block>> \o SE!RemoveAt(chain, i) /\ malloced' = (malloced \cup {Lent(block)}) \ {Lent(gone)}
          /\ counts' = Freed(Counted(counts, size), gone, gone.size, misfit + Damage(gone))
          /\ wrongs' = wrongs + misfit /\ running' = running
      BY <2>1
    <2>3. malloced = Memories(chain) /\ counts \in CountType
      BY <1>1, InvFacts
    <2>4. /\ block \in BlockType /\ BlockFits(block) /\ \A m \in malloced : Apart(m, Lent(block))
          /\ block.size = size /\ block.intact = TRUE
      <3>1. New(block) /\ block.size = size
        BY <1>1, <2>3, NewBlock
      <3> QED BY <3>1 DEF New
    <2> HIDE DEF block
    <2>5. New(block)
      BY <2>4 DEF New
    <2>6. i \in 1 .. Len(chain) /\ gone \in BlockType /\ gone.size \in Nat /\ Damage(gone) \in {0, 1} /\ misfit \in {0, 1}
      <3>1. i \in 1 .. Len(chain) /\ misfit \in {0, 1}
        BY <1>2, <1>5
      <3> QED BY <3>1, InvFacts
    <2> HIDE DEF i, misfit
    <2> DEFINE rest == SE!RemoveAt(chain, i)
    <2>7. /\ rest \in Seq(BlockType) /\ InOrder(rest) /\ Len(rest) = Len(chain) - 1
          /\ SumOf(SizesOf(chain)) = SumOf(SizesOf(rest)) + gone.size
          /\ SumOf(DamagesOf(chain)) = SumOf(DamagesOf(rest)) + Damage(gone)
          /\ Memories(rest) = Memories(chain) \ {Lent(gone)}
      BY <2>6, InvFacts, Removed
    <2>8. chain' = <<block>> \o rest
      BY <2>2
    <2> HIDE DEF rest
    <2>9. /\ chain' \in Seq(BlockType) /\ InOrder(chain') /\ Len(chain') = Len(rest) + 1
          /\ SumOf(SizesOf(chain')) = SumOf(SizesOf(rest)) + block.size
          /\ SumOf(DamagesOf(chain')) = SumOf(DamagesOf(rest)) + Damage(block)
          /\ Memories(chain') = Memories(rest) \cup {Lent(block)}
      <3>1. \A m \in Memories(rest) : Apart(m, Lent(block))
        BY <2>3, <2>4, <2>7
      <3> QED BY ZenonT(60), <2>4, <2>7, <2>8, <3>1, Pushed
    <2>10. Damage(block) = 0 /\ SumOf(SizesOf(rest)) \in Nat /\ SumOf(DamagesOf(rest)) \in Nat
      <3>1. Damage(block) = 0
        BY <2>4 DEF Damage
      <3> QED BY <2>7, <3>1, WeightTypes, SumType
    <2>11. Lent(block) # Lent(gone)
      <3>1. Lent(gone) \in malloced
        BY <2>3, <2>6 DEF Memories
      <3> QED BY <2>4, <2>6, <3>1, ApartIsDistinct
    <2> HIDE DEF gone
    <2> DEFINE counted == Counted(counts, size)
    <2>12. /\ counted \in CountType /\ counted.live_allocations = counts.live_allocations + 1
           /\ counted.live_bytes = counts.live_bytes + size /\ counted.error_count = counts.error_count
      BY <2>3, CountedFields
    <2>13. counts' = Freed(counted, gone, gone.size, misfit + Damage(gone))
      BY <2>2
    <2> HIDE DEF counted
    <2>14. counted.live_allocations >= 1 /\ counted.live_bytes >= gone.size /\ misfit + Damage(gone) \in Nat
      <3>1. /\ counts.live_allocations \in Nat /\ counts.live_bytes = SumOf(SizesOf(chain)) /\ size \in Nat
            /\ misfit \in Nat /\ Damage(gone) \in Nat /\ gone.size \in Nat
        BY <1>1, <2>6, InvFacts
      <3>2. \A s, g, z \in Nat : (s + g) + z >= g
        OBVIOUS
      <3>3. counted.live_bytes >= gone.size
        BY <2>7, <2>10, <2>12, <3>1, <3>2
      <3> QED BY <2>12, <3>1, <3>3
    <2>15. /\ counts' \in CountType /\ counts'.live_allocations = counted.live_allocations - 1
           /\ counts'.live_bytes = counted.live_bytes - gone.size
           /\ counts'.error_count = counted.error_count + (misfit + Damage(gone))
      BY <2>6, <2>12, <2>13, <2>14, FreedFields
    <2>16. DebugTypes'
      BY SMTT(40), <1>1, <2>2, <2>6, <2>9, <2>15, InvFacts DEF DebugTypes
    <2>17. HeapAgrees'
      BY <1>1, <2>2, <2>3, <2>7, <2>9, <2>11 DEF HeapAgrees
    <2>18. CountsAgree'
      <3>1. counts'.live_allocations = Len(chain')
        BY <1>1, <2>7, <2>9, <2>12, <2>15, InvFacts
      <3>2. counts'.live_bytes = SumOf(SizesOf(chain'))
        <4>1. \A s, g, z \in Nat : ((s + g) + z) - g = s + z
          OBVIOUS
        <4>2. counts.live_bytes = SumOf(SizesOf(chain)) /\ size \in Nat /\ gone.size \in Nat
          BY <1>1, <2>6, InvFacts
        <4>3. ((SumOf(SizesOf(rest)) + gone.size) + size) - gone.size = SumOf(SizesOf(rest)) + size
          BY <2>10, <4>1, <4>2
        <4> QED BY <2>4, <2>7, <2>9, <2>12, <2>15, <4>2, <4>3
      <3>3. counts'.error_count + SumOf(DamagesOf(chain')) = wrongs'
        <4>1. \A e, m, g, f \in Nat : (e + (m + g)) + (f + 0) = (e + (f + g)) + m
          OBVIOUS
        <4>2. /\ counts.error_count \in Nat /\ misfit \in Nat /\ Damage(gone) \in Nat
              /\ counts.error_count + SumOf(DamagesOf(chain)) = wrongs
          BY <1>1, <2>6, InvFacts
        <4>3. (counts.error_count + (misfit + Damage(gone))) + (SumOf(DamagesOf(rest)) + 0)
                = (counts.error_count + (SumOf(DamagesOf(rest)) + Damage(gone))) + misfit
          BY <2>10, <4>1, <4>2
        <4> QED BY <2>2, <2>7, <2>9, <2>10, <2>12, <2>15, <4>2, <4>3
      <3> QED BY <3>1, <3>2, <3>3 DEF CountsAgree
    <2>19. DebugInv'
      BY <2>9, <2>16, <2>17, <2>18 DEF DebugInv
    <2> QED BY <1>1, <2>2, <2>5, <2>6, <2>19
  <1> QED BY <1>3, <1>4, <1>5

LEMMA WriteInv ==
  ASSUME DebugInv, NEW i \in 1 .. Len(chain), WriteOutside(i)
  PROVE  /\ DebugInv' /\ running' = running /\ Len(chain') = Len(chain) /\ chain' \in Seq(BlockType)
         /\ \A k \in 1 .. Len(chain) : /\ chain'[k].user = chain[k].user /\ chain'[k].size = chain[k].size
                                       /\ chain'[k].alignment = chain[k].alignment
  <1>1. /\ running = "created" /\ chain[i].intact /\ chain' = [chain EXCEPT ![i].intact = FALSE]
        /\ wrongs' = wrongs + 1 /\ UNCHANGED <<counts, malloced, returned, running>>
    BY DEF WriteOutside
  <1>2. chain[i] \in BlockType
    BY InvFacts
  <1>3. chain[i].intact = TRUE
    <2>1. chain[i].intact \in BOOLEAN
      BY <1>2 DEF BlockType
    <2> QED BY <1>1, <2>1
  <1>4. /\ chain' \in Seq(BlockType) /\ InOrder(chain') /\ Len(chain') = Len(chain) /\ Memories(chain') = Memories(chain)
        /\ SumOf(SizesOf(chain')) = SumOf(SizesOf(chain))
        /\ SumOf(DamagesOf(chain')) = SumOf(DamagesOf(chain)) + 1
        /\ \A k \in 1 .. Len(chain) : /\ chain'[k].user = chain[k].user /\ chain'[k].size = chain[k].size
                                      /\ chain'[k].alignment = chain[k].alignment
    <2>1. chain \in Seq(BlockType) /\ InOrder(chain)
      BY InvFacts
    <2> DEFINE d == chain'
    <2>2. d = Overwritten(chain, i)
      BY <1>1 DEF Overwritten
    <2> HIDE DEF d
    <2>3. /\ d \in Seq(BlockType) /\ InOrder(d) /\ Len(d) = Len(chain) /\ Memories(d) = Memories(chain)
          /\ SumOf(SizesOf(d)) = SumOf(SizesOf(chain))
          /\ SumOf(DamagesOf(d)) = SumOf(DamagesOf(chain)) + 1
          /\ \A k \in 1 .. Len(chain) : d[k].user = chain[k].user /\ d[k].size = chain[k].size /\ d[k].alignment = chain[k].alignment
      BY ZenonT(60), <1>3, <2>1, <2>2, Damaged
    <2> QED BY <2>3 DEF d
  <1>5. DebugTypes' /\ HeapAgrees'
    BY <1>1, <1>4, InvFacts DEF DebugTypes, HeapAgrees
  <1>6. CountsAgree'
    <2>1. counts.error_count + SumOf(DamagesOf(chain')) = wrongs'
      BY SMTT(40), <1>1, <1>4, InvFacts
    <2> QED BY <1>1, <1>4, <2>1, InvFacts DEF CountsAgree
  <1> QED BY <1>1, <1>4, <1>5, <1>6 DEF DebugInv

LEMMA DestroyInv == ASSUME DebugInv, DebugDestroy PROVE DebugInv' /\ running = "created" /\ running' = "destroyed" /\ chain' = << >>
  <1> DEFINE faulty == {i \in DOMAIN chain : ~ chain[i].intact}
  <1>1. /\ running = "created" /\ running' = "destroyed" /\ malloced' = malloced \ memory_returned
        /\ counts' = [counts EXCEPT !.error_count = @ + Cardinality(faulty)] /\ chain' = << >> /\ wrongs' = wrongs
    BY DEF DebugDestroy
  <1>2. DOMAIN chain = 1 .. Len(chain) /\ Len(chain) \in Nat
    BY InvFacts
  <1>3. Cardinality(faulty) \in Nat
    <2>1. IsFiniteSet(1 .. Len(chain)) /\ faulty \subseteq 1 .. Len(chain)
      BY <1>2, FS_Interval
    <2> HIDE DEF faulty
    <2> QED BY <2>1, FS_Subset, FS_CardinalityType
  <1> HIDE DEF faulty
  <1>4. counts' \in CountType
    BY <1>1, <1>3, InvFacts, FaultyFields
  <1>5. malloced' = {}
    BY <1>1, <1>2, InvFacts DEF memory_returned, Memories
  <1>6. DebugTypes'
    BY <1>1, <1>4, InvFacts, EmptyChain DEF DebugTypes
  <1>7. InOrder(chain')
    BY <1>1, EmptyChain
  <1> QED BY <1>1, <1>5, <1>6, <1>7 DEF DebugInv, HeapAgrees, CountsAgree

LEMMA InitInv == ASSUME DebugInit PROVE DebugInv
  <1>1. chain = << >> /\ malloced = {StateMemory} /\ wrongs = 0 /\ running = "created"
    BY DEF DebugInit
  <1>2. counts \in CountType /\ counts.live_allocations = 0 /\ counts.live_bytes = 0 /\ counts.error_count = 0
    BY DEF DebugInit, CountType
  <1>3. DebugTypes /\ InOrder(chain) /\ HeapAgrees
    BY <1>1, <1>2, EmptyChain DEF DebugTypes, HeapAgrees
  <1>4. CountsAgree
    BY <1>1, <1>2, EmptyChain DEF CountsAgree
  <1> QED BY <1>3, <1>4 DEF DebugInv

LEMMA CheckedAlignmentType == ASSUME NEW a \in DebugAlignments PROVE checked_alignment(a) \in Nat \ {0}
  BY Constants DEF checked_alignment

LEMMA DebugStep == ASSUME DebugInv, [DebugNext]_hvars PROVE DebugInv'
  <1>1. ASSUME NEW size \in DebugSizes, NEW a \in DebugAlignments, DebugAlloc(size, checked_alignment(a)) PROVE DebugInv'
    <2>1. size \in Nat /\ checked_alignment(a) \in Nat \ {0}
      BY Constants, CheckedAlignmentType
    <2> QED BY <1>1, <2>1, AllocInv
  <1>2. ASSUME NEW p \in returned, NEW size \in DebugSizes, NEW a \in DebugAlignments, DebugFree(p, size, checked_alignment(a)) PROVE DebugInv'
    BY <1>2, FreeInv
  <1>3. ASSUME NEW p \in returned, NEW size \in DebugSizes, NEW a \in DebugAlignments, NEW old \in DebugSizes,
               DebugResize(p, old, size, checked_alignment(a))
        PROVE  DebugInv'
    <2>1. size \in Nat /\ checked_alignment(a) \in Nat \ {0}
      BY Constants, CheckedAlignmentType
    <2> QED BY <1>3, <2>1, ResizeInv
  <1>4. ASSUME NEW i \in DOMAIN chain, WriteOutside(i) PROVE DebugInv'
    <2>1. i \in 1 .. Len(chain)
      BY InvFacts
    <2> QED BY <1>4, <2>1, WriteInv
  <1>5. CASE DebugDestroy
    BY <1>5, DestroyInv
  <1>6. CASE UNCHANGED hvars
    BY <1>6 DEF hvars, DebugInv, DebugTypes, HeapAgrees, CountsAgree
  <1> QED BY <1>1, <1>2, <1>3, <1>4, <1>5, <1>6 DEF DebugNext

-----------------------------------------------------------------------------
(* What it means. *)

(* The chain, the counters and the heap agree in every state, whatever the *)
(* client does to the allocator.                                           *)
THEOREM DebugInductive == DebugSpec => []DebugInv
  <1>1. DebugInit => DebugInv
    BY InitInv
  <1>2. DebugInv /\ [DebugNext]_hvars => DebugInv'
    BY DebugStep
  <1> QED BY <1>1, <1>2, PTL DEF DebugSpec

(* The guards, the headers and the user's bytes of every block stay in the *)
(* memory malloc lent for it, and all that was lent is in the chain until  *)
(* coglet_rt_mem_debug_destroy returns it.                                 *)
THEOREM HeapIsKeptTo == DebugSpec => []HeapIsRespected
  <1>1. DebugInv => HeapIsRespected
    <2> SUFFICES ASSUME DebugInv PROVE HeapIsRespected
      OBVIOUS
    <2>1. DOMAIN chain = 1 .. Len(chain)
      BY InvFacts
    <2>2. ASSUME NEW i \in 1 .. Len(chain)
          PROVE  /\ chain[i].raw - HeapHeader >= chain[i].base /\ chain[i].user - Guard >= chain[i].raw + DebugHeader
                 /\ chain[i].user + chain[i].size + Guard <= chain[i].base + Lent(chain[i]).size
      <3>1. BlockFits(chain[i]) /\ chain[i] \in BlockType
        BY InvFacts DEF InOrder
      <3>2. chain[i].raw \in Nat /\ chain[i].base \in Nat /\ chain[i].user \in Nat
        BY <3>1 DEF BlockType
      <3> DEFINE raw == chain[i].raw  base == chain[i].base  user == chain[i].user
      <3>3. /\ base + HeapHeader <= raw /\ raw + DebugHeader + Guard <= user
            /\ raw \in Nat /\ base \in Nat /\ user \in Nat
        BY <3>1, <3>2 DEF BlockFits
      <3>4. chain[i].user + chain[i].size + Guard <= chain[i].base + Lent(chain[i]).size
        BY <3>1 DEF BlockFits
      <3> HIDE DEF raw, base, user
      <3>5. raw - HeapHeader >= base /\ user - Guard >= raw + DebugHeader
        BY <3>3, Constants
      <3> QED BY <3>4, <3>5 DEF raw, base, user
    <2>3. GuardsFit
      BY <2>1, <2>2 DEF GuardsFit
    <2>4. HeapIsReturned
      BY <2>1 DEF DebugInv, DebugTypes, HeapAgrees, HeapIsReturned, Memories
    <2> QED BY <2>3, <2>4 DEF HeapIsRespected
  <1> QED BY <1>1, DebugInductive, PTL

(* What the allocator reports is true after any misuse: no wrong call and  *)
(* no damaged block is missed or counted twice.                            *)
THEOREM ReportsAreRight == DebugSpec => []ReportsAreTrue
  <1>1. DebugInv => ReportsAreTrue
    <2> SUFFICES ASSUME DebugInv, running = "created" PROVE ReportsAreTrue
      BY DEF ReportsAreTrue
    <2> DEFINE faults == SumOf(DamagesOf(chain))
    <2>1. held_bytes = SumOf(SizesOf(chain)) /\ held_damage = faults
      BY DEF held_bytes, held_damage, SizesOf, DamagesOf
    <2>2. /\ counts.live_allocations = Len(chain) /\ counts.live_bytes = SumOf(SizesOf(chain))
          /\ counts.error_count + faults = wrongs /\ counts.error_count \in Nat /\ faults \in Nat
      BY InvFacts
    <2>3. debug_check => faults = 0
      <3> SUFFICES ASSUME debug_check PROVE faults = 0
        OBVIOUS
      <3>1. DOMAIN chain = 1 .. Len(chain) /\ chain \in Seq(BlockType)
        BY InvFacts
      <3>2. \A i \in 1 .. Len(chain) : Damage(chain[i]) = 0
        BY <3>1 DEF debug_check, Damage
      <3>3. DamagesOf(chain) \in Seq(Nat) /\ \A i \in 1 .. Len(DamagesOf(chain)) : DamagesOf(chain)[i] = 0
        BY <3>1, <3>2, WeightTypes
      <3> QED BY <3>3, SumOfNothing
    <2>4. faults = 0 => debug_check
      <3> SUFFICES ASSUME faults = 0, NEW i \in 1 .. Len(chain) PROVE chain[i].intact
        BY InvFacts DEF debug_check
      <3> DEFINE rest == SE!RemoveAt(chain, i)
      <3>1. rest \in Seq(BlockType) /\ faults = SumOf(DamagesOf(rest)) + Damage(chain[i])
        BY InvFacts, Removed
      <3> HIDE DEF rest
      <3>2. DamagesOf(rest) \in Seq(Nat)
        BY <3>1, WeightTypes
      <3>3. SumOf(DamagesOf(rest)) \in Nat /\ Damage(chain[i]) \in {0, 1}
        BY <3>2, SumType, InvFacts
      <3>4. Damage(chain[i]) = 0
        BY <3>1, <3>3
      <3> QED BY <3>4 DEF Damage
    <2>5. faults = 0 <=> counts.error_count = wrongs
      BY <2>2
    <2> HIDE DEF faults
    <2> QED BY <2>1, <2>2, <2>3, <2>4, <2>5 DEF ReportsAreTrue
  <1> QED BY <1>1, DebugInductive, PTL

-----------------------------------------------------------------------------
(* The debug allocator implements the contract of an allocator. *)

Region(b) == [at |-> b.user, size |-> b.size, alignment |-> b.alignment]
RegionType == [at : Nat, size : Nat \ {0}, alignment : Nat \ {0}]
Regions(c) == [i \in 1 .. Len(c) |-> Region(c[Len(c) - i + 1])]
Held == Regions(chain)
(* The same, as DebugContract maps it.                                     *)
Mapped(c) == [i \in DOMAIN c |-> LET block == SE!Reverse(c)[i] IN [at |-> block.user, size |-> block.size, alignment |-> block.alignment]]

LEMMA MappedIsRegions == ASSUME NEW c \in Seq(BlockType) PROVE Mapped(c) = Regions(c)
  <1>1. DOMAIN c = 1 .. Len(c) /\ Len(c) \in Nat
    OBVIOUS
  <1>2. \A i \in 1 .. Len(c) : SE!Reverse(c)[i] = c[(Len(c) - i) + 1]
    BY <1>1 DEF SE!Reverse
  <1> QED BY <1>1, <1>2 DEF Mapped, Regions, Region

LEMMA RegionTypes ==
  ASSUME NEW c \in Seq(BlockType)
  PROVE  /\ Regions(c) \in Seq(RegionType) /\ Len(Regions(c)) = Len(c) /\ Len(c) \in Nat
         /\ \A i \in 1 .. Len(c) : Regions(c)[i] = Region(c[Len(c) - i + 1]) /\ Len(c) - i + 1 \in 1 .. Len(c)
  <1>1. Len(c) \in Nat /\ \A i \in 1 .. Len(c) : Len(c) - i + 1 \in 1 .. Len(c)
    OBVIOUS
  <1>2. \A b \in BlockType : Region(b) \in RegionType
    BY DEF BlockType, Region, RegionType
  <1>3. \A i \in 1 .. Len(c) : Region(c[Len(c) - i + 1]) \in RegionType
    BY <1>1, <1>2
  <1> QED BY <1>1, <1>3 DEF Regions

LEMMA SameSequence ==
  ASSUME NEW S, NEW s \in Seq(S), NEW t \in Seq(S), Len(s) = Len(t), \A i \in 1 .. Len(s) : s[i] = t[i]
  PROVE  s = t
  OBVIOUS

LEMMA RegionsPushed ==
  ASSUME NEW c \in Seq(BlockType), NEW b \in BlockType
  PROVE  /\ Len(Regions(<<b>> \o c)) = Len(Regions(c)) + 1
         /\ SubSeq(Regions(<<b>> \o c), 1, Len(Regions(c))) = Regions(c)
         /\ Regions(<<b>> \o c)[Len(Regions(<<b>> \o c))] = Region(b)
  <1> DEFINE d == <<b>> \o c
  <1>1. /\ d \in Seq(BlockType) /\ Len(d) = Len(c) + 1 /\ Len(c) \in Nat /\ d[1] = b
        /\ \A k \in 1 .. Len(c) : d[k + 1] = c[k]
    OBVIOUS
  <1> HIDE DEF d
  <1>2. /\ Regions(d) \in Seq(RegionType) /\ Len(Regions(d)) = Len(c) + 1
        /\ \A i \in 1 .. Len(c) + 1 : Regions(d)[i] = Region(d[Len(c) + 1 - i + 1])
    <2>1. /\ Regions(d) \in Seq(RegionType) /\ Len(Regions(d)) = Len(d)
          /\ \A i \in 1 .. Len(d) : Regions(d)[i] = Region(d[Len(d) - i + 1])
      BY <1>1, RegionTypes
    <2> QED BY <1>1, <2>1
  <1>3. /\ Regions(c) \in Seq(RegionType) /\ Len(Regions(c)) = Len(c)
        /\ \A i \in 1 .. Len(c) : Regions(c)[i] = Region(c[Len(c) - i + 1]) /\ Len(c) - i + 1 \in 1 .. Len(c)
    BY RegionTypes
  <1>4. ASSUME NEW i \in 1 .. Len(c) PROVE Regions(d)[i] = Regions(c)[i]
    <2>1. i \in 1 .. Len(c) + 1 /\ Len(c) + 1 - i + 1 = (Len(c) - i + 1) + 1
      BY <1>1
    <2>2. d[(Len(c) - i + 1) + 1] = c[Len(c) - i + 1]
      BY <1>1, <1>3
    <2> QED BY <1>2, <1>3, <2>1, <2>2
  <1> DEFINE p == SubSeq(Regions(d), 1, Len(c))
  <1>5. p \in Seq(RegionType) /\ Len(p) = Len(c) /\ \A i \in 1 .. Len(c) : p[i] = Regions(d)[i]
    BY <1>1, <1>2
  <1> HIDE DEF p
  <1>6. p = Regions(c)
    BY <1>3, <1>4, <1>5, SameSequence
  <1>7. Regions(d)[Len(c) + 1] = Region(b)
    <2>1. Len(c) + 1 \in 1 .. Len(c) + 1 /\ Len(c) + 1 - (Len(c) + 1) + 1 = 1
      BY <1>1
    <2> QED BY <1>1, <1>2, <2>1
  <1> QED BY <1>2, <1>3, <1>6, <1>7 DEF d, p

LEMMA RegionsRemoved ==
  ASSUME NEW c \in Seq(BlockType), NEW i \in 1 .. Len(c)
  PROVE  Regions(SE!RemoveAt(c, i)) = SE!RemoveAt(Regions(c), Len(c) - i + 1)
  <1> DEFINE d == SE!RemoveAt(c, i)  n == Len(c) - i + 1  r == SE!RemoveAt(Regions(c), n)
  <1>1. /\ d \in Seq(BlockType) /\ Len(d) = Len(c) - 1 /\ Len(c) \in Nat
        /\ \A k \in 1 .. Len(c) - 1 : d[k] = IF k < i THEN c[k] ELSE c[k + 1]
    BY RemoveElements
  <1> HIDE DEF d
  <1>2. /\ Regions(c) \in Seq(RegionType) /\ Len(Regions(c)) = Len(c)
        /\ \A k \in 1 .. Len(c) : Regions(c)[k] = Region(c[Len(c) - k + 1])
    BY RegionTypes
  <1>3. n \in 1 .. Len(Regions(c))
    BY <1>1, <1>2
  <1>4. /\ r \in Seq(RegionType) /\ Len(r) = Len(c) - 1
        /\ \A k \in 1 .. Len(c) - 1 : r[k] = IF k < n THEN Regions(c)[k] ELSE Regions(c)[k + 1]
    <2> HIDE DEF n
    <2> QED BY <1>2, <1>3, RemoveElements
  <1> HIDE DEF r
  <1>5. /\ Regions(d) \in Seq(RegionType) /\ Len(Regions(d)) = Len(d)
        /\ \A k \in 1 .. Len(d) : Regions(d)[k] = Region(d[Len(d) - k + 1]) /\ Len(d) - k + 1 \in 1 .. Len(d)
    BY <1>1, RegionTypes
  <1>6. ASSUME NEW k \in 1 .. Len(c) - 1 PROVE Regions(d)[k] = r[k]
    <2> DEFINE j == Len(d) - k + 1
    <2>1. j \in 1 .. Len(c) - 1 /\ Regions(d)[k] = Region(d[j])
      BY <1>1, <1>5
    <2>2. CASE k < n
      <3>1. ~(j < i) /\ j + 1 = Len(c) - k + 1 /\ k \in 1 .. Len(c)
        BY <1>1, <2>2
      <3>2. d[j] = c[Len(c) - k + 1]
        BY <1>1, <2>1, <3>1
      <3> QED BY <1>2, <1>4, <2>1, <2>2, <3>1, <3>2
    <2>3. CASE ~(k < n)
      <3>1. j < i /\ j = Len(c) - (k + 1) + 1 /\ k + 1 \in 1 .. Len(c)
        BY <1>1, <2>3
      <3>2. d[j] = c[Len(c) - (k + 1) + 1]
        BY <1>1, <2>1, <3>1
      <3> QED BY <1>2, <1>4, <2>1, <2>3, <3>1, <3>2
    <2> QED BY <2>2, <2>3
  <1>7. Regions(d) = r
    <2>1. Len(Regions(d)) = Len(r) /\ \A k \in 1 .. Len(Regions(d)) : Regions(d)[k] = r[k]
      BY <1>1, <1>4, <1>5, <1>6
    <2> QED BY <1>4, <1>5, <2>1, SameSequence
  <1> QED BY <1>7 DEF d, r

(* A new block is a region apart from all the client holds.                *)
LEMMA NewIsFresh ==
  ASSUME DebugInv, running = "created", NEW block, New(block)
  PROVE  DebugContract!Fresh(Region(block), Held)
  <1> DEFINE user == block.user  size == block.size  base == block.base  lent == Lent(block).size
  <1>1. /\ block \in BlockType /\ BlockFits(block) /\ \A m \in malloced : Apart(m, Lent(block))
    BY DEF New
  <1>2. user \in Nat /\ size \in Nat \ {0} /\ base \in Nat /\ block.raw \in Nat /\ lent \in Nat /\ Lent(block).at = base
    BY <1>1, Constants DEF BlockType, Lent, heap_total
  <1>3. /\ user >= base /\ user >= 1 /\ user + size <= base + lent /\ user + size <= HeapSpace
        /\ user % block.alignment = 0
    <2> DEFINE raw == block.raw
    <2>1. /\ base >= 1 /\ base + HeapHeader <= raw /\ raw + DebugHeader + Guard <= user
          /\ user + size + Guard <= base + lent /\ base + lent <= HeapSpace /\ user % block.alignment = 0
          /\ raw \in Nat
      BY <1>1, <1>2 DEF BlockFits
    <2> HIDE DEF user, size, base, lent, raw
    <2>2. user >= base /\ user >= 1 /\ user + size <= base + lent /\ user + size <= HeapSpace
      BY ONLY <1>2, <2>1, Constants
    <2> QED BY <2>1, <2>2
  <1>4. Region(block).at = user /\ Region(block).size = size /\ Region(block).alignment = block.alignment
    BY DEF Region
  <1>5. DebugContract!Bytes(Region(block)) \subseteq 1 .. HeapSpace
    <2> HIDE DEF user, size
    <2> QED BY <1>2, <1>3, <1>4, Constants DEF DebugContract!Bytes
  <1>6. ASSUME NEW k \in 1 .. Len(Held) PROVE DebugContract!Disjoint(Region(block), Held[k])
    <2>1. /\ Len(Held) = Len(chain) /\ chain \in Seq(BlockType) /\ Len(chain) \in Nat
          /\ Held[k] = Region(chain[Len(chain) - k + 1]) /\ Len(chain) - k + 1 \in 1 .. Len(chain)
      <3>1. Len(Held) = Len(chain) /\ chain \in Seq(BlockType) /\ Len(chain) \in Nat
        BY InvFacts, RegionTypes DEF Held
      <3> QED BY <3>1, RegionTypes DEF Held
    <2> DEFINE c == chain[Len(chain) - k + 1]
    <2>2. c \in BlockType /\ BlockFits(c) /\ Lent(c) \in Memories(chain) /\ malloced = Memories(chain)
      BY <2>1, InvFacts DEF InOrder, Memories
    <2>3. Held[k].at = c.user /\ Held[k].size = c.size
      BY <2>1 DEF Region
    <2> HIDE DEF c
    <2>4. c.user \in Nat /\ c.size \in Nat \ {0} /\ c.base \in Nat /\ c.raw \in Nat /\ Lent(c).size \in Nat /\ Lent(c).at = c.base
      BY <2>2, Constants DEF BlockType, Lent, heap_total
    <2> DEFINE u == c.user  s == c.size  b == c.base  l == Lent(c).size  r == c.raw
    <2>5. /\ u \in Nat /\ s \in Nat /\ b \in Nat /\ l \in Nat /\ r \in Nat
          /\ b + HeapHeader <= r /\ r + DebugHeader + Guard <= u /\ u + s + Guard <= b + l
      BY <2>2, <2>4 DEF BlockFits
    <2>6. b + l <= base \/ base + lent <= b
      BY <1>1, <1>2, <2>2, <2>4 DEF Apart
    <2> HIDE DEF u, s, b, l, r, user, size, base, lent
    <2>7. u >= b /\ u + s <= b + l
      BY ONLY <2>5, Constants
    <2>8. u + s <= user \/ user + size <= u
      BY ONLY <1>2, <1>3, <2>5, <2>6, <2>7
    <2> QED BY <1>4, <2>3, <2>8 DEF DebugContract!Disjoint, u, s
  <1> QED BY <1>3, <1>4, <1>5, <1>6 DEF DebugContract!Fresh

LEMMA ClosesContract ==
  ASSUME DebugInv, running = "created", running' # "created", chain' = << >>
  PROVE  DebugContract!Next
  <1>1. Mapped(chain') = << >>
    <2>1. DOMAIN chain' = {}
      OBVIOUS
    <2> QED BY <2>1 DEF Mapped
  <1>2. (running = "created") = TRUE /\ (running' = "created") = FALSE
    OBVIOUS
  <1>3. DebugContract!Close
    BY <1>1, <1>2 DEF DebugContract!Close, Mapped
  <1> QED BY <1>3 DEF DebugContract!Next

LEMMA NoScopes == \A i : DebugContract!Older(i) = << >>
  <1>1. Len(<< >>) = 0 /\ 1 .. 0 = {}
    OBVIOUS
  <1> QED BY <1>1 DEF DebugContract!Older

LEMMA StepRefines ==
  ASSUME DebugInv, [DebugNext]_hvars
  PROVE  [DebugContract!Next]_<<Mapped(chain), << >>, running = "created">>
  <1>1. /\ chain \in Seq(BlockType) /\ Mapped(chain) = Held /\ Len(chain) \in Nat /\ Len(Held) = Len(chain)
        /\ Held \in Seq(RegionType)
    <2>1. chain \in Seq(BlockType)
      BY InvFacts
    <2> QED BY <2>1, MappedIsRegions, RegionTypes DEF Held
  <1>2. chain' \in Seq(BlockType) /\ Mapped(chain') = Regions(chain')
    <2>1. chain' \in Seq(BlockType)
      BY DebugStep DEF DebugInv, DebugTypes
    <2> QED BY <2>1, MappedIsRegions
  <1>3. CASE running = "created" /\ running' \in {"aborted", "destroyed"} /\ chain' = << >>
    BY <1>3, ClosesContract
  <1>4. CASE chain' = chain /\ running' = running
    BY <1>4
  <1>5. ASSUME running = "created", running' = "created", NEW block, New(block), chain' = <<block>> \o chain
        PROVE  DebugContract!Next
    <2>1. block \in BlockType /\ DebugContract!Fresh(Region(block), Held)
      BY <1>5, NewIsFresh DEF New
    <2>2. /\ Len(Mapped(chain')) = Len(Mapped(chain)) + 1
          /\ SubSeq(Mapped(chain'), 1, Len(Mapped(chain))) = Mapped(chain)
          /\ DebugContract!Fresh(Mapped(chain')[Len(Mapped(chain'))], Mapped(chain))
      BY <1>1, <1>2, <1>5, <2>1, RegionsPushed DEF Held
    <2>3. DebugContract!Grows(Mapped(chain), Mapped(chain))
      BY <2>2 DEF DebugContract!Grows, DebugContract!Prefix, Mapped
    <2>4. DebugContract!Allocate
      BY <1>5, <2>3 DEF DebugContract!Allocate, Mapped
    <2> QED BY <2>4 DEF DebugContract!Next
  <1>6. ASSUME running = "created", running' = "created", NEW i \in 1 .. Len(chain), chain' = SE!RemoveAt(chain, i)
        PROVE  DebugContract!Next
    <2>1. PICK n \in 1 .. Len(Mapped(chain)) : n = Len(chain) - i + 1
      BY <1>1
    <2>2. Mapped(chain') = DebugContract!Without(Mapped(chain), n)
      <3>1. Regions(chain') = SE!RemoveAt(Held, n)
        BY <1>1, <1>6, <2>1, RegionsRemoved DEF Held
      <3> QED BY <1>1, <1>2, <3>1 DEF SE!RemoveAt, DebugContract!Without, DebugContract!Prefix
    <2>3. DebugContract!Free(n)
      BY <1>6, <2>2, NoScopes DEF DebugContract!Free, Mapped
    <2> QED BY <2>3 DEF DebugContract!Next, Mapped
  <1>7. ASSUME running = "created", running' = "created", NEW i \in 1 .. Len(chain), NEW block, New(block),
               chain' = <<block>> \o SE!RemoveAt(chain, i)
        PROVE  DebugContract!Next
    <2> DEFINE rest == SE!RemoveAt(chain, i)
    <2>1. PICK n \in 1 .. Len(Mapped(chain)) : n = Len(chain) - i + 1
      BY <1>1
    <2>2. Regions(rest) = DebugContract!Without(Mapped(chain), n) /\ rest \in Seq(BlockType)
      <3>1. Regions(rest) = SE!RemoveAt(Held, n) /\ rest \in Seq(BlockType)
        BY <1>1, <2>1, RegionsRemoved, RemoveElements DEF Held
      <3> QED BY <1>1, <3>1 DEF SE!RemoveAt, DebugContract!Without, DebugContract!Prefix
    <2>3. chain' = <<block>> \o rest
      BY <1>7
    <2> HIDE DEF rest
    <2>4. block \in BlockType /\ DebugContract!Fresh(Region(block), Held)
      BY <1>7, NewIsFresh DEF New
    <2>5. /\ Len(Mapped(chain')) = Len(Regions(rest)) + 1
          /\ SubSeq(Mapped(chain'), 1, Len(Regions(rest))) = Regions(rest)
          /\ DebugContract!Fresh(Mapped(chain')[Len(Mapped(chain'))], Mapped(chain))
      BY <1>1, <1>2, <2>2, <2>3, <2>4, RegionsPushed
    <2>6. DebugContract!Grows(DebugContract!Without(Mapped(chain), n), Mapped(chain))
      BY <2>2, <2>5 DEF DebugContract!Grows, DebugContract!Prefix, Mapped
    <2>7. DebugContract!Resize(n)
      BY <1>7, <2>6, NoScopes DEF DebugContract!Resize, Mapped
    <2> QED BY <2>7 DEF DebugContract!Next, Mapped
  <1>8. ASSUME NEW size \in DebugSizes, NEW a \in DebugAlignments, DebugAlloc(size, checked_alignment(a)) PROVE DebugContract!Next
    <2>1. size \in Nat /\ checked_alignment(a) \in Nat \ {0}
      BY Constants, CheckedAlignmentType
    <2>2. /\ running = "created"
          /\ \/ running' = "aborted" /\ chain' = << >>
             \/ running' = "created" /\ \E block : New(block) /\ chain' = <<block>> \o chain
      BY <1>8, <2>1, AllocInv
    <2> QED BY <1>3, <1>5, <2>2
  <1>9. ASSUME NEW p \in returned, NEW size \in DebugSizes, NEW a \in DebugAlignments, DebugFree(p, size, checked_alignment(a))
        PROVE  [DebugContract!Next]_<<Mapped(chain), << >>, running = "created">>
    <2>1. /\ running = "created" /\ running' = "created"
          /\ chain' = chain \/ \E i \in 1 .. Len(chain) : chain' = SE!RemoveAt(chain, i)
      BY <1>9, FreeInv
    <2> QED BY <1>4, <1>6, <2>1
  <1>10. ASSUME NEW p \in returned, NEW size \in DebugSizes, NEW a \in DebugAlignments, NEW old \in DebugSizes,
                DebugResize(p, old, size, checked_alignment(a))
         PROVE  [DebugContract!Next]_<<Mapped(chain), << >>, running = "created">>
    <2>1. size \in Nat /\ checked_alignment(a) \in Nat \ {0}
      BY Constants, CheckedAlignmentType
    <2>2. /\ running = "created"
          /\ \/ running' = "aborted" /\ chain' = << >>
             \/ running' = "created" /\ chain' = chain
             \/ /\ running' = "created"
                /\ \E i \in 1 .. Len(chain) : \E block : New(block) /\ chain' = <<block>> \o SE!RemoveAt(chain, i)
      BY <1>10, <2>1, ResizeInv
    <2> QED BY <1>3, <1>4, <1>7, <2>2
  <1>11. ASSUME NEW i \in DOMAIN chain, WriteOutside(i)
         PROVE  Mapped(chain') = Mapped(chain) /\ running' = running
    <2>1. i \in 1 .. Len(chain)
      BY <1>1
    <2>2. /\ running' = running /\ Len(chain') = Len(chain)
          /\ \A k \in 1 .. Len(chain) : /\ chain'[k].user = chain[k].user /\ chain'[k].size = chain[k].size
                                        /\ chain'[k].alignment = chain[k].alignment
      BY <1>11, <2>1, WriteInv
    <2>3. \A k \in 1 .. Len(chain) : Region(chain'[k]) = Region(chain[k])
      BY <2>2 DEF Region
    <2>4. \A k \in 1 .. Len(chain) : Len(chain) - k + 1 \in 1 .. Len(chain)
      BY <1>1
    <2>5. Regions(chain') = Regions(chain)
      BY <2>2, <2>3, <2>4 DEF Regions
    <2> QED BY <1>1, <1>2, <2>2, <2>5 DEF Held
  <1>12. CASE DebugDestroy
    BY <1>3, <1>12, DestroyInv
  <1>13. CASE UNCHANGED hvars
    BY <1>4, <1>13 DEF hvars
  <1> QED BY <1>8, <1>9, <1>10, <1>11, <1>12, <1>13 DEF DebugNext

(* The debug allocator over the heap is an allocator, with any number of   *)
(* stale pointers, wrong layouts and damaged blocks.                       *)
THEOREM DebugRefinesAllocator == DebugSpec => DebugImplements
  <1>1. DebugInit => DebugContract!Init
    <2> SUFFICES ASSUME DebugInit PROVE DebugContract!Init
      OBVIOUS
    <2>1. chain = << >> /\ running = "created"
      BY DEF DebugInit
    <2>2. Mapped(chain) = << >>
      <3>1. DOMAIN chain = {}
        BY <2>1
      <3> QED BY <3>1 DEF Mapped
    <2> QED BY <2>1, <2>2 DEF DebugContract!Init, Mapped
  <1>2. DebugInv /\ [DebugNext]_hvars => [DebugContract!Next]_(DebugContract!vars)
    BY StepRefines DEF DebugContract!vars, Mapped
  <1> QED BY <1>1, <1>2, DebugInductive, PTL DEF DebugSpec, DebugImplements, DebugContract!Spec

=============================================================================
