------------------------------ MODULE PoolProof ------------------------------
(***************************************************************************)
(* Proofs about Pool, for every capacity, generation width and value type. *)
(***************************************************************************)
EXTENDS Pool, FiniteSetTheorems, TLAPS

USE PoolAssumption

-----------------------------------------------------------------------------
(* The free list. *)

Structure == PoolTypeOK /\ FreeListExact

\* with_capacity, clear: the chain 0, 1, ..., c - 1 is an exact free list of c slots.
LEMMA ChainIsExact ==
  ASSUME NEW c \in Nat, c <= Capacity
  PROVE  /\ Chain(c) \in [0..(c - 1) -> 0..(c - 1) \cup {InvalidIndex, LiveIndex}]
         /\ ChainList(c) \in Seq(0..(c - 1))
         /\ Len(ChainList(c)) = c
         /\ \A k \in 1..c : ChainList(c)[k] = k - 1
         /\ \A i \in 0..(c - 1) : Chain(c)[i] # LiveIndex
         /\ ChainHead(c) \in 0..(c - 1) \cup {InvalidIndex}
  BY DEF Chain, ChainList, ChainHead, InvalidIndex, LiveIndex

\* The links nf from head fh visit exactly the slots, in the order fl, each once.
Threaded(nf, fl, fh, slots) ==
  /\ fh = IF Len(fl) = 0 THEN InvalidIndex ELSE fl[1]
  /\ \A k \in 1..Len(fl) : nf[fl[k]] = IF k < Len(fl) THEN fl[k + 1] ELSE InvalidIndex
  /\ \A j, k \in 1..Len(fl) : fl[j] = fl[k] => j = k
  /\ \A i \in slots : \E k \in 1..Len(fl) : fl[k] = i
  /\ \A i \in slots : nf[i] # LiveIndex

LEMMA ChainLinks ==
  ASSUME NEW c \in Nat, c <= Capacity
  PROVE  Threaded(Chain(c), ChainList(c), ChainHead(c), 0..(c - 1))
  <1>1. /\ Len(ChainList(c)) = c
        /\ \A k \in 1..c : ChainList(c)[k] = k - 1
    BY ChainIsExact
  <1>2. ASSUME NEW i \in 0..(c - 1)
        PROVE  i + 1 \in 1..c /\ ChainList(c)[i + 1] = i
    BY <1>1
  <1>3. ASSUME NEW k \in 1..c
        PROVE  Chain(c)[ChainList(c)[k]] = IF k < c THEN ChainList(c)[k + 1] ELSE InvalidIndex
    BY <1>1 DEF Chain
  <1>4. ASSUME NEW j \in 1..c, NEW k \in 1..c, ChainList(c)[j] = ChainList(c)[k]
        PROVE  j = k
    BY <1>1, <1>4
  <1>5. ChainHead(c) = IF c = 0 THEN InvalidIndex ELSE ChainList(c)[1]
    BY <1>1 DEF ChainHead
  <1>6. \A i \in 0..(c - 1) : Chain(c)[i] # LiveIndex
    BY ChainIsExact
  <1>7. Len(ChainList(c)) = c
    BY <1>1
  <1> QED BY <1>2, <1>3, <1>4, <1>5, <1>6, <1>7 DEF Threaded

\* The first slot of a non-empty free list is a slot, not marked live, and its
\* link is the head of the rest.
LEMMA HeadIsFree ==
  ASSUME Structure, freeHead # InvalidIndex
  PROVE  /\ Len(freeList) > 0 /\ freeHead = freeList[1] /\ freeHead \in Slots
         /\ nextFree[freeHead] # LiveIndex
         /\ nextFree[freeHead] = IF Len(freeList) = 1 THEN InvalidIndex ELSE freeList[2]
         /\ Tail(freeList) \in Seq(Slots)
         /\ Len(Tail(freeList)) = Len(freeList) - 1
         /\ \A k \in 1..(Len(freeList) - 1) : Tail(freeList)[k] = freeList[k + 1]
  <1>1. Len(freeList) \in Nat /\ Len(freeList) > 0 /\ freeHead = freeList[1] /\ 1 \in 1..Len(freeList)
    BY DEF Structure, PoolTypeOK, FreeListExact
  <1>2. freeList \in Seq(Slots) /\ freeHead \in Slots
    BY <1>1 DEF Structure, PoolTypeOK
  <1>3. nextFree[freeHead] # LiveIndex
    BY <1>1, <1>2 DEF Structure, FreeListExact
  <1>4. nextFree[freeHead] = IF 1 < Len(freeList) THEN freeList[2] ELSE InvalidIndex
    BY <1>1 DEF Structure, FreeListExact
  <1> QED BY <1>1, <1>2, <1>3, <1>4

LEMMA StructureInit == Init => Structure
  <1> SUFFICES ASSUME Init PROVE Structure
    OBVIOUS
  <1>1. Slots = Slots0 /\ capacity = Capacity
    BY DEF Init, Slots, Slots0
  <1>2. PoolTypeOK
    BY <1>1, ChainIsExact DEF Init, PoolTypeOK, Slots, Slots0, Generations
  <1>3. FreeListExact
    <2>1. Threaded(nextFree, freeList, freeHead, Slots)
      <3>1. Threaded(Chain(Capacity), ChainList(Capacity), ChainHead(Capacity), 0..(Capacity - 1))
        BY ChainLinks
      <3> QED BY <1>1, <3>1 DEF Init, Slots0
    <2>2. Len(freeList) = Capacity
      <3>1. Len(ChainList(Capacity)) = Capacity
        BY ChainIsExact
      <3> QED BY <3>1 DEF Init
    <2>3. liveCount + Len(freeList) = capacity
      BY <1>1, <2>2 DEF Init
    <2> QED BY <2>1, <2>2, <2>3 DEF FreeListExact, Threaded
  <1> QED BY <1>2, <1>3 DEF Structure

LEMMA StructureInsert ==
  ASSUME Structure, NEW v \in Values, InsertFree(v)
  PROVE  Structure'
  <1>1. /\ Len(freeList) \in Nat /\ Len(freeList) > 0 /\ freeHead = freeList[1] /\ freeHead \in Slots
        /\ nextFree[freeHead] # LiveIndex
        /\ nextFree[freeHead] = IF Len(freeList) = 1 THEN InvalidIndex ELSE freeList[2]
        /\ freeList' \in Seq(Slots)
        /\ Len(freeList') = Len(freeList) - 1
        /\ \A k \in 1..(Len(freeList) - 1) : freeList'[k] = freeList[k + 1]
    BY HeadIsFree DEF InsertFree, Structure, PoolTypeOK
  <1>2. /\ capacity' = capacity /\ Slots' = Slots /\ capacity \in Nat
        /\ nextFree \in [Slots -> Slots \cup {InvalidIndex, LiveIndex}]
        /\ nextFree' = [nextFree EXCEPT ![freeHead] = LiveIndex]
        /\ freeHead' = nextFree[freeHead]
        /\ liveCount' = liveCount + 1 /\ liveCount \in Nat
    BY DEF InsertFree, Slots, Structure, PoolTypeOK
  <1>3. liveCount + Len(freeList) = capacity
    BY DEF Structure, FreeListExact
  <1>4. [index |-> freeHead, generation |-> generations[freeHead]] \in Handles
    <2>1. freeHead \in 0..InvalidIndex
      BY <1>1 DEF Structure, PoolTypeOK, Slots, InvalidIndex
    <2>2. generations[freeHead] \in 0..MaxGeneration
      BY <1>1 DEF Structure, PoolTypeOK, Generations
    <2> QED BY <2>1, <2>2 DEF Handles
  <1>5. PoolTypeOK'
    <2>1. liveCount' \in 0..capacity'
      BY <1>1, <1>2, <1>3
    <2>2. data' \in [Slots' -> Values \cup {NoValue}] /\ generations' \in [Slots' -> Generations]
      BY <1>2 DEF InsertFree, Structure, PoolTypeOK
    <2>3. nextFree' \in [Slots' -> Slots' \cup {InvalidIndex, LiveIndex}]
      BY <1>2
    <2>4. freeHead' \in Slots' \cup {InvalidIndex}
      BY <1>1, <1>2
    <2>5. issued' \subseteq Handles /\ releases' \in 0..MaxReleases
      BY <1>4 DEF InsertFree, Structure, PoolTypeOK
    <2> QED BY <1>1, <1>2, <2>1, <2>2, <2>3, <2>4, <2>5 DEF PoolTypeOK, Structure
  <1>6. \A j, k \in 1..Len(freeList) : freeList[j] = freeList[k] => j = k
    BY DEF Structure, FreeListExact
  <1>7. \A k \in 1..Len(freeList) :
          nextFree[freeList[k]] = IF k < Len(freeList) THEN freeList[k + 1] ELSE InvalidIndex
    BY DEF Structure, FreeListExact
  <1>8. \A k \in 1..Len(freeList') : k + 1 \in 1..Len(freeList) /\ freeList'[k] # freeHead /\ freeList'[k] \in Slots
    BY <1>1, <1>6
  <1>9. FreeListExact'
    <2>1. freeHead' = IF Len(freeList') = 0 THEN InvalidIndex ELSE freeList'[1]
      BY <1>1, <1>2
    <2>2. ASSUME NEW k \in 1..Len(freeList')
          PROVE  nextFree'[freeList'[k]] = IF k < Len(freeList') THEN freeList'[k + 1] ELSE InvalidIndex
      <3>1. nextFree'[freeList'[k]] = nextFree[freeList[k + 1]]
        BY <1>1, <1>2, <1>8
      <3>2. nextFree[freeList[k + 1]] = IF k + 1 < Len(freeList) THEN freeList[k + 2] ELSE InvalidIndex
        BY <1>7, <1>8
      <3> QED BY <1>1, <3>1, <3>2
    <2>3. \A j, k \in 1..Len(freeList') : freeList'[j] = freeList'[k] => j = k
      BY <1>1, <1>6, <1>8
    <2>4. ASSUME NEW i \in Slots
          PROVE  nextFree'[i] = LiveIndex <=> \A k \in 1..Len(freeList') : freeList'[k] # i
      <3>1. CASE i = freeHead
        BY <1>2, <1>8, <3>1
      <3>2. CASE i # freeHead
        <4>1. nextFree'[i] = nextFree[i]
          BY <1>2, <3>2
        <4>2. nextFree[i] = LiveIndex <=> \A k \in 1..Len(freeList) : freeList[k] # i
          BY DEF Structure, FreeListExact
        <4>3. (\A k \in 1..Len(freeList) : freeList[k] # i) => \A k \in 1..Len(freeList') : freeList'[k] # i
          BY <1>1, <1>8
        <4>4. ASSUME \A k \in 1..Len(freeList') : freeList'[k] # i, NEW k \in 1..Len(freeList)
              PROVE  freeList[k] # i
          <5>1. CASE k = 1
            BY <5>1, <1>1, <3>2
          <5>2. CASE k # 1
            <6>1. k - 1 \in 1..Len(freeList') /\ freeList'[k - 1] = freeList[k]
              BY <5>2, <1>1
            <6> QED BY <6>1, <4>4
          <5> QED BY <5>1, <5>2
        <4> QED BY <4>1, <4>2, <4>3, <4>4
      <3> QED BY <3>1, <3>2
    <2>5. liveCount' + Len(freeList') = capacity'
      <3>1. Len(freeList') = Len(freeList) - 1
        BY <1>1
      <3>2. Len(freeList) \in Nat /\ liveCount \in Nat /\ liveCount' = liveCount + 1 /\ capacity' = capacity
        BY <1>1, <1>2
      <3> QED BY <1>3, <3>1, <3>2
    <2> QED BY <1>2, <2>1, <2>2, <2>3, <2>4, <2>5 DEF FreeListExact
  <1> QED BY <1>5, <1>9 DEF Structure

LEMMA StructureRemove ==
  ASSUME Structure, NEW h \in Handles, RemoveLive(h)
  PROVE  Structure'
  <1>1. /\ capacity \in Nat /\ capacity' = capacity /\ Slots' = Slots
        /\ nextFree \in [Slots -> Slots \cup {InvalidIndex, LiveIndex}]
        /\ nextFree' = [nextFree EXCEPT ![h.index] = freeHead]
        /\ freeHead \in Slots \cup {InvalidIndex} /\ freeHead' = h.index
        /\ liveCount' = liveCount - 1 /\ liveCount \in Nat
        /\ freeList \in Seq(Slots) /\ Len(freeList) \in Nat
    BY DEF RemoveLive, Slots, Structure, PoolTypeOK
  <1>2. h.index \in Slots /\ nextFree[h.index] = LiveIndex
    <2>1. h.index < capacity /\ nextFree[h.index] = LiveIndex
      BY DEF RemoveLive, Contains
    <2>2. h.index \in Nat
      BY DEF Handles, InvalidIndex
    <2> QED BY <1>1, <2>1, <2>2 DEF Slots
  <1>3. \A k \in 1..Len(freeList) : freeList[k] # h.index /\ freeList[k] \in Slots
    BY <1>1, <1>2 DEF Structure, FreeListExact
  <1>4. liveCount + Len(freeList) = capacity
    BY DEF Structure, FreeListExact
  <1>5. liveCount > 0
    <2>1. ASSUME liveCount = 0 PROVE FALSE
      <3>1. Len(freeList) = capacity
        BY <1>1, <1>4, <2>1
      <3>2. DEFINE f == [k \in 1..capacity |-> freeList[k]]
      <3>3. f \in Injection(1..capacity, Slots \ {h.index})
        BY <1>1, <1>3, <3>1 DEF Structure, FreeListExact, Injection, IsInjective
      <3>4. IsFiniteSet(1..capacity) /\ Cardinality(1..capacity) = capacity
        BY SMTT(40), <1>1, FS_Interval
      <3>5. IsFiniteSet(Slots) /\ Cardinality(Slots) = capacity
        BY <1>1, FS_Interval DEF Slots
      <3>6. IsFiniteSet(Slots \ {h.index}) /\ Cardinality(Slots \ {h.index}) = capacity - 1
        BY <3>5, <1>2, FS_RemoveElement
      <3>7. Cardinality(1..capacity) <= Cardinality(Slots \ {h.index})
        BY <3>3, <3>6, FS_Injection
      <3> QED BY <1>1, <3>4, <3>6, <3>7
    <2> QED BY <1>1, <2>1
  <1>6. /\ freeList' \in Seq(Slots)
        /\ Len(freeList') = Len(freeList) + 1
        /\ freeList'[1] = h.index
        /\ \A k \in 1..Len(freeList) : freeList'[k + 1] = freeList[k]
    BY <1>1, <1>2 DEF RemoveLive
  <1>7. \A k \in 1..Len(freeList') :
          \/ k = 1
          \/ k - 1 \in 1..Len(freeList) /\ freeList'[k] = freeList[k - 1] /\ freeList'[k] # h.index
    <2> SUFFICES ASSUME NEW k \in 1..Len(freeList'), k # 1
                 PROVE  k - 1 \in 1..Len(freeList) /\ freeList'[k] = freeList[k - 1] /\ freeList'[k] # h.index
      OBVIOUS
    <2>1. k - 1 \in 1..Len(freeList) /\ (k - 1) + 1 = k
      BY <1>1, <1>6
    <2>2. freeList'[k] = freeList[k - 1]
      BY <1>6, <2>1
    <2> QED BY <1>3, <2>1, <2>2
  <1>8. PoolTypeOK'
    <2>1. liveCount' \in 0..capacity'
      BY <1>1, <1>4, <1>5
    <2>2. generations' \in [Slots' -> Generations]
      <3>1. \A g \in Generations : NextGeneration(g) \in Generations
        BY DEF Generations, NextGeneration
      <3> QED BY <1>1, <1>2, <3>1 DEF RemoveLive, Structure, PoolTypeOK
    <2>3. nextFree' \in [Slots' -> Slots' \cup {InvalidIndex, LiveIndex}]
      BY <1>1
    <2>4. data' \in [Slots' -> Values \cup {NoValue}] /\ capacity' \in {0, Capacity} /\ issued' \subseteq Handles
      BY <1>1 DEF RemoveLive, Structure, PoolTypeOK
    <2>5. releases' \in 0..MaxReleases
      BY DEF RemoveLive, Structure, PoolTypeOK
    <2> QED BY <1>1, <1>2, <1>6, <2>1, <2>2, <2>3, <2>4, <2>5 DEF PoolTypeOK
  <1>9. FreeListExact'
    <2>1. freeHead' = IF Len(freeList') = 0 THEN InvalidIndex ELSE freeList'[1]
      BY <1>1, <1>6
    <2>2. ASSUME NEW k \in 1..Len(freeList')
          PROVE  nextFree'[freeList'[k]] = IF k < Len(freeList') THEN freeList'[k + 1] ELSE InvalidIndex
      <3>1. CASE k = 1
        <4>1. nextFree'[freeList'[k]] = freeHead
          BY <1>1, <1>2, <1>6, <3>1
        <4>2. freeHead = IF Len(freeList) = 0 THEN InvalidIndex ELSE freeList[1]
          BY DEF Structure, FreeListExact
        <4> QED BY <1>1, <1>6, <3>1, <4>1, <4>2
      <3>2. CASE k # 1
        <4>1. k - 1 \in 1..Len(freeList) /\ freeList'[k] = freeList[k - 1] /\ freeList'[k] # h.index
          BY <1>7, <3>2
        <4>2. nextFree'[freeList'[k]] = nextFree[freeList[k - 1]]
          BY <1>1, <1>3, <4>1
        <4>3. nextFree[freeList[k - 1]] = IF k - 1 < Len(freeList) THEN freeList[(k - 1) + 1] ELSE InvalidIndex
          BY <4>1 DEF Structure, FreeListExact
        <4>4. k < Len(freeList') => freeList'[k + 1] = freeList[k] /\ k - 1 < Len(freeList)
          BY <1>1, <1>6
        <4>5. ~(k < Len(freeList')) => ~(k - 1 < Len(freeList))
          BY <1>1, <1>6
        <4>6. (k - 1) + 1 = k
          OBVIOUS
        <4> QED BY <4>2, <4>3, <4>4, <4>5, <4>6
      <3> QED BY <3>1, <3>2
    <2>3. ASSUME NEW j \in 1..Len(freeList'), NEW k \in 1..Len(freeList'), freeList'[j] = freeList'[k]
          PROVE  j = k
      <3>1. CASE j = 1 \/ k = 1
        BY <1>6, <1>7, <2>3, <3>1
      <3>2. CASE j # 1 /\ k # 1
        <4>1. /\ j - 1 \in 1..Len(freeList) /\ k - 1 \in 1..Len(freeList)
              /\ freeList[j - 1] = freeList[k - 1]
          BY <1>7, <2>3, <3>2
        <4>2. j - 1 = k - 1
          BY <4>1 DEF Structure, FreeListExact
        <4> QED BY <4>2
      <3> QED BY <3>1, <3>2
    <2>4. ASSUME NEW i \in Slots
          PROVE  nextFree'[i] = LiveIndex <=> \A k \in 1..Len(freeList') : freeList'[k] # i
      <3>1. CASE i = h.index
        <4>1. nextFree'[i] = freeHead /\ freeHead # LiveIndex
          BY <1>1, <1>2, <3>1 DEF Structure, PoolTypeOK, Slots, InvalidIndex, LiveIndex
        <4>2. 1 \in 1..Len(freeList') /\ freeList'[1] = i
          BY <1>1, <1>6, <3>1
        <4> QED BY <4>1, <4>2
      <3>2. CASE i # h.index
        <4>1. nextFree'[i] = nextFree[i]
          BY <1>1, <3>2
        <4>2. nextFree[i] = LiveIndex <=> \A k \in 1..Len(freeList) : freeList[k] # i
          BY DEF Structure, FreeListExact
        <4>3. (\A k \in 1..Len(freeList) : freeList[k] # i) => \A k \in 1..Len(freeList') : freeList'[k] # i
          BY <1>6, <1>7, <3>2
        <4>4. ASSUME \A k \in 1..Len(freeList') : freeList'[k] # i, NEW k \in 1..Len(freeList)
              PROVE  freeList[k] # i
          <5>1. k + 1 \in 1..Len(freeList') /\ freeList'[k + 1] = freeList[k]
            BY <1>1, <1>6
          <5> QED BY <5>1, <4>4
        <4> QED BY <4>1, <4>2, <4>3, <4>4
      <3> QED BY <3>1, <3>2
    <2>5. liveCount' + Len(freeList') = capacity'
      <3>1. Len(freeList') = Len(freeList) + 1
        BY <1>6
      <3>2. Len(freeList) \in Nat /\ liveCount \in Nat /\ liveCount' = liveCount - 1 /\ capacity' = capacity
        BY <1>1
      <3> QED BY <1>4, <3>1, <3>2
    <2> QED BY <1>1, <2>1, <2>2, <2>3, <2>4, <2>5 DEF FreeListExact
  <1> QED BY <1>8, <1>9 DEF Structure

LEMMA StructureClear ==
  ASSUME Structure, Clear
  PROVE  Structure'
  <1>1. /\ capacity \in Nat /\ capacity <= Capacity /\ capacity' = capacity /\ Slots' = 0..(capacity - 1)
        /\ Slots = 0..(capacity - 1)
        /\ nextFree' = Chain(capacity) /\ freeHead' = ChainHead(capacity)
        /\ freeList' = ChainList(capacity) /\ liveCount' = 0
    BY DEF Clear, Slots, Structure, PoolTypeOK
  <1>2. /\ nextFree' \in [Slots' -> Slots' \cup {InvalidIndex, LiveIndex}]
        /\ freeList' \in Seq(Slots') /\ Len(freeList') = capacity
        /\ \A i \in Slots' : nextFree'[i] # LiveIndex
        /\ freeHead' \in Slots' \cup {InvalidIndex}
    BY <1>1, ChainIsExact
  <1>3. PoolTypeOK'
    <2>1. generations' \in [Slots' -> Generations]
      <3>1. \A g \in Generations : NextGeneration(g) \in Generations
        BY DEF Generations, NextGeneration
      <3> QED BY <1>1, <3>1 DEF Clear, ClearedGenerations, Structure, PoolTypeOK
    <2>2. data' \in [Slots' -> Values \cup {NoValue}] /\ capacity' \in {0, Capacity} /\ issued' \subseteq Handles
      BY <1>1 DEF Clear, Structure, PoolTypeOK
    <2>3. releases' \in 0..MaxReleases /\ liveCount' \in 0..capacity'
      BY <1>1 DEF Clear, Structure, PoolTypeOK
    <2> QED BY <1>2, <2>1, <2>2, <2>3 DEF PoolTypeOK
  <1>4. FreeListExact'
    <2>1. Threaded(nextFree', freeList', freeHead', Slots')
      BY <1>1, ChainLinks
    <2>2. liveCount' + Len(freeList') = capacity'
      BY <1>1, <1>2
    <2> QED BY <2>1, <2>2 DEF FreeListExact, Threaded
  <1> QED BY <1>3, <1>4 DEF Structure

LEMMA StructureDeinit ==
  ASSUME Structure, Deinit
  PROVE  Structure'
  <1>1. capacity' = 0 /\ Slots' = {} /\ freeList' = <<>> /\ Len(freeList') = 0
    BY DEF Deinit, Slots
  <1>2. PoolTypeOK'
    BY <1>1 DEF Deinit, Structure, PoolTypeOK
  <1>3. FreeListExact'
    BY <1>1 DEF Deinit, FreeListExact
  <1> QED BY <1>2, <1>3 DEF Structure

\* Calls that touch no slot, and stores to an element.
LEMMA StructureQuiet ==
  ASSUME Structure,
         UNCHANGED <<nextFree, generations, capacity, freeHead, liveCount, freeList, issued, releases>>,
         data' \in [Slots -> Values \cup {NoValue}]
  PROVE  Structure'
  <1>1. Slots' = Slots
    BY DEF Slots
  <1>2. PoolTypeOK'
    BY <1>1 DEF Structure, PoolTypeOK
  <1>3. FreeListExact'
    BY <1>1 DEF Structure, FreeListExact
  <1> QED BY <1>2, <1>3 DEF Structure

LEMMA StructureStep == Structure /\ [Next]_vars => Structure'
  <1> SUFFICES ASSUME Structure, [Next]_vars PROVE Structure'
    OBVIOUS
  <1>1. data \in [Slots -> Values \cup {NoValue}]
    BY DEF Structure, PoolTypeOK
  <1>2. ASSUME NEW v \in Values, InsertFull(v) PROVE Structure'
    BY <1>1, <1>2, StructureQuiet DEF InsertFull
  <1>3. ASSUME NEW v \in Values, InsertFree(v) PROVE Structure'
    BY <1>3, StructureInsert
  <1>4. ASSUME NEW h \in Handles, Get(h) PROVE Structure'
    BY <1>1, <1>4, StructureQuiet DEF Get
  <1>5. ASSUME NEW h \in Handles, RemoveStale(h) PROVE Structure'
    BY <1>1, <1>5, StructureQuiet DEF RemoveStale
  <1>6. ASSUME NEW h \in Handles, RemoveLive(h) PROVE Structure'
    BY <1>6, StructureRemove
  <1>7. ASSUME NEW h \in Handles, NEW v \in Values, Write(h, v) PROVE Structure'
    <2>1. data' \in [Slots -> Values \cup {NoValue}]
      BY <1>1, <1>7 DEF Write
    <2> QED BY <1>7, <2>1, StructureQuiet DEF Write
  <1>8. CASE Clear
    BY <1>8, StructureClear
  <1>9. CASE Deinit
    BY <1>9, StructureDeinit
  <1>10. CASE UNCHANGED vars
    BY <1>1, <1>10, StructureQuiet DEF vars
  <1> QED BY <1>2, <1>3, <1>4, <1>5, <1>6, <1>7, <1>8, <1>9, <1>10 DEF Next

\* Pool.insert, remove, clear, deinit: for every capacity and every generation
\* width, wrapping included, the free list is exact after any sequence of calls.
THEOREM PoolStructure == Spec => [](PoolTypeOK /\ FreeListExact)
  <1>1. Init => Structure
    BY StructureInit
  <1>2. Structure /\ [Next]_vars => Structure'
    BY StructureStep
  <1>3. Structure => PoolTypeOK /\ FreeListExact
    BY DEF Structure
  <1> QED BY <1>1, <1>2, <1>3, PTL DEF Spec
-----------------------------------------------------------------------------
(* Handles.  A handle issued for a slot never carries a later generation   *)
(* than the slot, and an earlier one once the slot is free: this is what   *)
(* makes the next handle of the slot fresh.  It needs generations that do  *)
(* not wrap within the calls considered.                                   *)

\* The handle insert() returns for slot i, and the only valid one while it is live.
Current(i) == [index |-> i, generation |-> generations[i]]

Aged ==
  /\ \A i \in Slots : generations[i] <= releases + 1
  /\ \A h \in issued : h.index < capacity => h.generation <= generations[h.index]
  /\ \A h \in issued : h.index < capacity /\ nextFree[h.index] # LiveIndex =>
       h.generation < generations[h.index]
  /\ \A i \in Slots : nextFree[i] = LiveIndex => Current(i) \in issued

Counted == IsFiniteSet(LiveHandles) /\ Cardinality(LiveHandles) = liveCount

LEMMA HandleParts ==
  ASSUME NEW h \in Handles
  PROVE  h.index \in Nat /\ h.generation \in Nat /\ h = [index |-> h.index, generation |-> h.generation]
  BY DEF Handles, InvalidIndex

LEMMA TypeFacts ==
  ASSUME Structure
  PROVE  /\ capacity \in Nat /\ capacity <= Capacity
         /\ generations \in [Slots -> Generations]
         /\ \A i \in Slots : generations[i] \in Nat
         /\ nextFree \in [Slots -> Slots \cup {InvalidIndex, LiveIndex}]
         /\ data \in [Slots -> Values \cup {NoValue}]
         /\ issued \subseteq Handles
         /\ releases \in Nat /\ releases <= MaxReleases
         /\ liveCount \in Nat
         /\ \A h \in Handles : h.index < capacity => h.index \in Slots
  <1>1. \A h \in Handles : h.index < capacity => h.index \in Slots
    BY HandleParts DEF Structure, PoolTypeOK, Slots
  <1>2. \A i \in Slots : generations[i] \in Nat
    BY DEF Structure, PoolTypeOK, Generations
  <1> QED BY <1>1, <1>2 DEF Structure, PoolTypeOK

\* The client's made-up handles are harmless: a valid handle is one insert() returned.
LEMMA ValidWasIssued ==
  ASSUME Structure, Aged, NEW h \in Handles
  PROVE  /\ Contains(h) => h.index \in Slots /\ h = Current(h.index)
         /\ Contains(h) <=> h \in LiveHandles
  <1>1. ASSUME Contains(h)
        PROVE  h.index \in Slots /\ h = Current(h.index) /\ h \in issued
    <2>1. h.index \in Slots /\ nextFree[h.index] = LiveIndex /\ generations[h.index] = h.generation
      BY <1>1, TypeFacts DEF Contains
    <2>2. h = Current(h.index)
      BY <2>1, HandleParts DEF Current
    <2> QED BY <2>1, <2>2 DEF Aged
  <1> QED BY <1>1 DEF LiveHandles

LEMMA AgedInit == Init => Aged /\ Counted
  <1> SUFFICES ASSUME Init PROVE Aged /\ Counted
    OBVIOUS
  <1>1. Slots = Slots0 /\ issued = {} /\ LiveHandles = {}
    BY DEF Init, Slots, Slots0, LiveHandles
  <1>2. \A i \in Slots : nextFree[i] # LiveIndex
    <2>1. \A i \in 0..(Capacity - 1) : Chain(Capacity)[i] # LiveIndex
      BY ChainIsExact
    <2> QED BY <1>1, <2>1 DEF Init, Slots0
  <1>3. \A i \in Slots : generations[i] <= releases + 1
    BY <1>1 DEF Init
  <1> QED BY <1>1, <1>2, <1>3, FS_EmptySet DEF Aged, Counted, Init

\* insert() returns a handle it has not returned before, and validates it alone.
LEMMA InsertIsFresh ==
  ASSUME Structure, Aged, NEW v \in Values, InsertFree(v)
  PROVE  /\ freeHead \in Slots /\ Current(freeHead) \in Handles \ issued
         /\ issued' = issued \cup {Current(freeHead)}
         /\ reply' = Issued(Current(freeHead))
         /\ Aged'
         /\ LiveHandles' = LiveHandles \cup {Current(freeHead)}
         /\ \A h \in LiveHandles : h.index \in Slots /\ h.index # freeHead
  <1>1. freeHead \in Slots /\ nextFree[freeHead] # LiveIndex
    BY HeadIsFree DEF InsertFree
  <1>2. /\ issued' = issued \cup {Current(freeHead)} /\ reply' = Issued(Current(freeHead))
        /\ nextFree' = [nextFree EXCEPT ![freeHead] = LiveIndex]
        /\ capacity' = capacity /\ Slots' = Slots /\ generations' = generations /\ releases' = releases
    BY DEF InsertFree, Current, Slots
  <1>3. Current(freeHead).index = freeHead /\ Current(freeHead).generation = generations[freeHead]
    BY DEF Current
  <1>4. freeHead < capacity /\ freeHead \in Nat
    BY <1>1, TypeFacts DEF Slots
  <1>5. Current(freeHead) \notin issued
    <2> SUFFICES ASSUME Current(freeHead) \in issued PROVE FALSE
      OBVIOUS
    <2>1. generations[freeHead] < generations[freeHead]
      BY <1>1, <1>3, <1>4 DEF Aged
    <2> QED BY <1>1, <2>1, TypeFacts
  <1>6. Current(freeHead) \in Handles
    BY <1>2, StructureInsert DEF Structure, PoolTypeOK
  <1>7. \A i \in Slots : nextFree'[i] = IF i = freeHead THEN LiveIndex ELSE nextFree[i]
    BY <1>1, <1>2, TypeFacts
  <1>8. \A h \in issued : h \in Handles /\ (h.index < capacity => h.index \in Slots)
    BY TypeFacts
  <1>9. Aged'
    <2>1. \A h \in issued' : h.index < capacity' => h.generation <= generations'[h.index]
      <3>1. generations[freeHead] <= generations[freeHead]
        BY <1>1, TypeFacts
      <3> QED BY <1>2, <1>3, <3>1 DEF Aged
    <2>2. \A h \in issued' : h.index < capacity' /\ nextFree'[h.index] # LiveIndex =>
            h.generation < generations'[h.index]
      BY <1>1, <1>2, <1>3, <1>7, <1>8 DEF Aged
    <2>3. \A i \in Slots' : nextFree'[i] = LiveIndex => Current(i)' \in issued'
      BY <1>2, <1>7 DEF Aged, Current
    <2>4. \A i \in Slots' : generations'[i] <= releases' + 1
      BY <1>2 DEF Aged
    <2> QED BY <2>1, <2>2, <2>3, <2>4 DEF Aged
  <1>10. ASSUME NEW h \in LiveHandles PROVE h.index \in Slots /\ h.index # freeHead
    BY <1>1, <1>8 DEF LiveHandles, Contains
  <1>11. LiveHandles' = LiveHandles \cup {Current(freeHead)}
    <2> PICK new : new = Current(freeHead)
      OBVIOUS
    <2>1. Contains(new)'
      BY <1>1, <1>2, <1>3, <1>4, <1>7 DEF Contains
    <2>2. ASSUME NEW h \in issued PROVE Contains(h)' <=> Contains(h)
      <3>1. CASE h.index = freeHead
        <4>1. h.generation < generations[freeHead]
          BY <1>1, <1>4, <3>1 DEF Aged
        <4>2. h.generation # generations[freeHead]
          BY <4>1, <1>1, <1>8, HandleParts, TypeFacts
        <4> QED BY <1>2, <3>1, <4>2 DEF Contains
      <3>2. CASE h.index # freeHead
        BY <1>2, <1>7, <1>8, <3>2 DEF Contains
      <3> QED BY <3>1, <3>2
    <2> QED BY <1>2, <2>1, <2>2 DEF LiveHandles
  <1> QED BY <1>1, <1>2, <1>5, <1>6, <1>9, <1>10, <1>11

\* While the generations do not wrap, releasing a slot advances its generation.
LEMMA ReleaseAdvances ==
  ASSUME MaxReleases < MaxGeneration, Structure, Aged, releases < MaxReleases, NEW i \in Slots
  PROVE  NextGeneration(generations[i]) = generations[i] + 1
  <1>1. generations[i] <= releases + 1 /\ generations[i] \in Nat /\ releases \in Nat
    BY TypeFacts DEF Aged
  <1> QED BY <1>1 DEF NextGeneration

\* remove() invalidates the handle it was given, and that one alone.
LEMMA RemoveInvalidates ==
  ASSUME MaxReleases < MaxGeneration, Structure, Aged, NEW h \in Handles, RemoveLive(h)
  PROVE  /\ h \in LiveHandles
         /\ Aged'
         /\ LiveHandles' = LiveHandles \ {h}
  <1>1. h \in LiveHandles /\ h.index \in Slots /\ h = Current(h.index)
    BY ValidWasIssued DEF RemoveLive
  <1>2. /\ issued' = issued /\ capacity' = capacity /\ Slots' = Slots
        /\ releases' = releases + 1 /\ releases < MaxReleases
        /\ nextFree' = [nextFree EXCEPT ![h.index] = freeHead]
        /\ generations' = [generations EXCEPT ![h.index] = NextGeneration(generations[h.index])]
    BY DEF RemoveLive, Slots
  <1>3. /\ \A i \in Slots : generations'[i] = IF i = h.index THEN generations[i] + 1 ELSE generations[i]
        /\ \A i \in Slots : nextFree'[i] = IF i = h.index THEN freeHead ELSE nextFree[i]
    <2>1. NextGeneration(generations[h.index]) = generations[h.index] + 1
      BY <1>1, <1>2, ReleaseAdvances
    <2> QED BY <1>1, <1>2, <2>1, TypeFacts
  <1>4. freeHead # LiveIndex
    BY DEF Structure, PoolTypeOK, Slots, InvalidIndex, LiveIndex
  <1>5. \A k \in issued : k \in Handles /\ k.generation \in Nat /\ (k.index < capacity => k.index \in Slots)
    BY TypeFacts, HandleParts
  <1>6. \A i \in Slots : generations[i] \in Nat
    BY TypeFacts
  <1>7. Aged'
    <2>1. ASSUME NEW k \in issued', k.index < capacity'
          PROVE  k.generation <= generations'[k.index]
      <3>1. k.generation <= generations[k.index] /\ k.index \in Slots /\ k.generation \in Nat
        BY <1>2, <1>5, <2>1 DEF Aged
      <3> QED BY <1>3, <1>6, <3>1
    <2>2. ASSUME NEW k \in issued', k.index < capacity', nextFree'[k.index] # LiveIndex
          PROVE  k.generation < generations'[k.index]
      <3>1. k.generation <= generations[k.index] /\ k.index \in Slots /\ k.generation \in Nat
        BY <1>2, <1>5, <2>2 DEF Aged
      <3>2. CASE k.index = h.index
        BY <1>3, <1>6, <3>1, <3>2
      <3>3. CASE k.index # h.index
        <4>1. nextFree[k.index] # LiveIndex /\ k.index < capacity /\ k \in issued
          BY <1>2, <1>3, <2>2, <3>1, <3>3
        <4>2. k.generation < generations[k.index]
          BY <4>1 DEF Aged
        <4> QED BY <1>3, <3>1, <3>3, <4>2
      <3> QED BY <3>2, <3>3
    <2>3. ASSUME NEW i \in Slots', nextFree'[i] = LiveIndex
          PROVE  Current(i)' \in issued'
      BY <1>2, <1>3, <1>4, <2>3 DEF Aged, Current
    <2>4. ASSUME NEW i \in Slots'
          PROVE  generations'[i] <= releases' + 1
      <3>1. generations[i] <= releases + 1 /\ generations[i] \in Nat /\ releases \in Nat /\ i \in Slots
        BY <1>2, <1>6, TypeFacts DEF Aged
      <3> QED BY <1>2, <1>3, <3>1
    <2> QED BY <2>1, <2>2, <2>3, <2>4 DEF Aged
  <1>8. ASSUME NEW k \in issued PROVE Contains(k)' <=> Contains(k) /\ k # h
    <2>1. CASE k.index = h.index
      <3>1. ~Contains(k)'
        BY <1>1, <1>3, <1>4, <2>1 DEF Contains
      <3>2. Contains(k) => k = h
        BY <1>1, <1>5, <2>1, ValidWasIssued
      <3> QED BY <3>1, <3>2
    <2>2. CASE k.index # h.index
      BY <1>2, <1>3, <1>5, <2>2 DEF Contains
    <2> QED BY <2>1, <2>2
  <1>9. LiveHandles' = LiveHandles \ {h}
    BY <1>2, <1>8 DEF LiveHandles
  <1> QED BY <1>1, <1>7, <1>9

\* clear() invalidates every handle.
LEMMA ClearInvalidates ==
  ASSUME MaxReleases < MaxGeneration, Structure, Aged, Clear
  PROVE  Aged' /\ LiveHandles' = {}
  <1>1. /\ issued' = issued /\ capacity' = capacity /\ Slots' = Slots
        /\ releases' = releases + 1 /\ releases < MaxReleases
        /\ nextFree' = Chain(capacity)
        /\ \A i \in Slots : generations'[i] = NextGeneration(generations[i])
    BY DEF Clear, ClearedGenerations, Slots
  <1>2. /\ \A i \in Slots : generations'[i] = generations[i] + 1
        /\ \A i \in Slots : nextFree'[i] # LiveIndex
    <2>1. ASSUME NEW i \in Slots PROVE generations'[i] = generations[i] + 1
      BY <1>1, ReleaseAdvances
    <2>2. \A i \in Slots : Chain(capacity)[i] # LiveIndex
      BY TypeFacts, ChainIsExact DEF Slots
    <2> QED BY <1>1, <2>1, <2>2
  <1>3. \A k \in issued : k.generation \in Nat /\ (k.index < capacity => k.index \in Slots)
    BY TypeFacts, HandleParts
  <1>4. \A i \in Slots : generations[i] \in Nat
    BY TypeFacts
  <1>5. ASSUME NEW k \in issued, k.index < capacity
        PROVE  k.generation < generations'[k.index]
    <2>1. k.generation <= generations[k.index] /\ k.index \in Slots /\ k.generation \in Nat
      BY <1>3, <1>5 DEF Aged
    <2> QED BY <1>2, <1>4, <2>1
  <1>6. ASSUME NEW i \in Slots
        PROVE  generations'[i] <= releases' + 1 /\ generations'[i] \in Nat
    <2>1. generations[i] <= releases + 1 /\ generations[i] \in Nat /\ releases \in Nat
      BY <1>4, TypeFacts DEF Aged
    <2> QED BY <1>1, <1>2, <2>1
  <1>7. ASSUME NEW k \in issued, k.index < capacity
        PROVE  k.generation <= generations'[k.index]
    BY <1>3, <1>5, <1>6, <1>7
  <1>8. Aged'
    BY <1>1, <1>2, <1>5, <1>6, <1>7 DEF Aged
  <1>9. LiveHandles' = {}
    BY <1>1, <1>2, <1>3 DEF LiveHandles, Contains
  <1> QED BY <1>8, <1>9

LEMMA DeinitInvalidates ==
  ASSUME Structure, Aged, Deinit
  PROVE  Aged' /\ LiveHandles' = {}
  <1>1. capacity' = 0 /\ Slots' = {} /\ issued' = issued
    BY DEF Deinit, Slots
  <1>2. \A h \in issued : ~(h.index < 0)
    BY TypeFacts, HandleParts
  <1>3. Aged'
    BY <1>1, <1>2 DEF Aged
  <1> QED BY <1>1, <1>2, <1>3 DEF LiveHandles, Contains

LEMMA QuietKeepsHandles ==
  ASSUME Aged, UNCHANGED <<nextFree, generations, capacity, issued, releases>>
  PROVE  Aged' /\ LiveHandles' = LiveHandles
  <1>1. Slots' = Slots
    BY DEF Slots
  <1>2. Aged'
    BY <1>1 DEF Aged, Current
  <1> QED BY <1>2 DEF LiveHandles, Contains
-----------------------------------------------------------------------------
(* Pool implements PoolContract. *)

PoolInv == Structure /\ Aged /\ Counted

\* The value of every valid handle: what Contract takes for live.
Live == [h \in LiveHandles |-> data[h.index]]

LEMMA ContractCardinality == ASSUME NEW S PROVE Contract!Cardinality(S) = Cardinality(S)
  BY Zenon DEF Contract!Cardinality, Cardinality

LEMMA PoolInvStep ==
  ASSUME MaxReleases < MaxGeneration, PoolInv, [Next]_vars
  PROVE  PoolInv'
  <1>1. Structure'
    BY StructureStep DEF PoolInv
  <1> USE DEF PoolInv
  <1>2. ASSUME LiveHandles' = LiveHandles, liveCount' = liveCount PROVE Counted'
    BY <1>2 DEF Counted
  <1>3. ASSUME LiveHandles' = {}, liveCount' = 0 PROVE Counted'
    BY <1>3, FS_EmptySet DEF Counted
  <1>4. ASSUME NEW v \in Values, InsertFull(v) PROVE PoolInv'
    BY <1>1, <1>2, <1>4, QuietKeepsHandles DEF InsertFull
  <1>5. ASSUME NEW v \in Values, InsertFree(v) PROVE PoolInv'
    <2>1. Aged' /\ LiveHandles' = LiveHandles \cup {Current(freeHead)} /\ Current(freeHead) \notin LiveHandles
      BY <1>5, InsertIsFresh DEF LiveHandles
    <2>2. Counted'
      BY <1>5, <2>1, FS_AddElement DEF Counted, InsertFree
    <2> QED BY <1>1, <2>1, <2>2
  <1>6. ASSUME NEW h \in Handles, Get(h) PROVE PoolInv'
    BY <1>1, <1>2, <1>6, QuietKeepsHandles DEF Get
  <1>7. ASSUME NEW h \in Handles, RemoveStale(h) PROVE PoolInv'
    BY <1>1, <1>2, <1>7, QuietKeepsHandles DEF RemoveStale
  <1>8. ASSUME NEW h \in Handles, RemoveLive(h) PROVE PoolInv'
    <2>1. h \in LiveHandles /\ Aged' /\ LiveHandles' = LiveHandles \ {h}
      BY <1>8, RemoveInvalidates
    <2>2. Counted'
      BY <1>8, <2>1, FS_RemoveElement DEF Counted, RemoveLive
    <2> QED BY <1>1, <2>1, <2>2
  <1>9. ASSUME NEW h \in Handles, NEW v \in Values, Write(h, v) PROVE PoolInv'
    BY <1>1, <1>2, <1>9, QuietKeepsHandles DEF Write
  <1>10. CASE Clear
    BY <1>1, <1>3, <1>10, ClearInvalidates DEF Clear
  <1>11. CASE Deinit
    BY <1>1, <1>3, <1>11, DeinitInvalidates DEF Deinit
  <1>12. CASE UNCHANGED vars
    BY <1>1, <1>2, <1>12, QuietKeepsHandles DEF vars
  <1> QED BY <1>4, <1>5, <1>6, <1>7, <1>8, <1>9, <1>10, <1>11, <1>12 DEF Next

\* Every call is a call of the contract.
LEMMA ContractStep ==
  ASSUME MaxReleases < MaxGeneration, PoolInv, [Next]_vars
  PROVE  [Contract!Next]_Contract!vars
  <1> USE DEF PoolInv
  <1>1. DOMAIN Live = LiveHandles
    BY DEF Live
  <1>2. \A h \in LiveHandles : h \in Handles /\ h.index \in Slots
    BY ValidWasIssued, TypeFacts DEF LiveHandles
  <1>3. Cardinality(LiveHandles) = liveCount /\ Contract!Cardinality(DOMAIN Live) = liveCount
    BY <1>1, ContractCardinality DEF Counted
  <1>4. ASSUME NEW v \in Values, InsertFull(v) PROVE Contract!Next
    <2>1. LiveHandles' = LiveHandles /\ Live' = Live
      BY <1>4, QuietKeepsHandles DEF InsertFull, Live
    <2>2. liveCount = capacity
      <3>1. Len(freeList) \in Nat /\ liveCount \in Nat /\ liveCount + Len(freeList) = capacity
        BY DEF Structure, PoolTypeOK, FreeListExact
      <3>2. Len(freeList) = 0
        <4> SUFFICES ASSUME Len(freeList) # 0 PROVE FALSE
          OBVIOUS
        <4>1. freeList[1] = InvalidIndex /\ freeList[1] \in Slots
          BY <1>4, <3>1 DEF InsertFull, Structure, PoolTypeOK, FreeListExact
        <4> QED BY <4>1, TypeFacts DEF Slots, InvalidIndex
      <3> QED BY <3>1, <3>2
    <2>3. Contract!Insert(v)
      BY <1>3, <1>4, <2>1, <2>2 DEF Contract!Insert, Contract!NoHandle, NoHandle, InsertFull, Live
    <2> QED BY <2>3 DEF Contract!Next
  <1>5. ASSUME NEW v \in Values, InsertFree(v) PROVE Contract!Next
    <2> DEFINE new == Current(freeHead)
    <2>1. /\ freeHead \in Slots /\ new \in Handles \ issued
          /\ issued' = issued \cup {new} /\ reply' = Contract!Issued(new)
          /\ LiveHandles' = LiveHandles \cup {new}
          /\ \A h \in LiveHandles : h.index \in Slots /\ h.index # freeHead
      BY <1>5, InsertIsFresh DEF Issued, Contract!Issued
    <2>2. Live' = [k \in DOMAIN Live \cup {new} |-> IF k = new THEN v ELSE Live[k]]
      <3>1. data' = [data EXCEPT ![freeHead] = v] /\ new.index = freeHead
        BY <1>5 DEF InsertFree, Current
      <3>2. data'[new.index] = v /\ \A h \in LiveHandles : data'[h.index] = data[h.index]
        BY <2>1, <3>1, TypeFacts
      <3>3. new \notin LiveHandles
        BY <2>1 DEF LiveHandles
      <3> HIDE DEF new
      <3> QED BY <1>1, <2>1, <3>2, <3>3 DEF Live
    <2>3. liveCount < capacity
      <3>1. Len(freeList) > 0 /\ Len(freeList) \in Nat /\ liveCount \in Nat /\ liveCount + Len(freeList) = capacity
        BY <1>5, HeadIsFree DEF InsertFree, Structure, PoolTypeOK, FreeListExact
      <3> QED BY <3>1
    <2>4. capacity' = capacity
      BY <1>5 DEF InsertFree
    <2> HIDE DEF new
    <2>5. Contract!Insert(v)
      BY <1>3, <2>1, <2>2, <2>3, <2>4 DEF Contract!Insert, Live
    <2> QED BY <2>5 DEF Contract!Next
  <1>6. ASSUME NEW h \in Handles, Get(h) PROVE Contract!Next
    <2>1. Live' = Live
      BY <1>6, QuietKeepsHandles DEF Get, Live
    <2>2. Contains(h) <=> h \in DOMAIN Live
      BY <1>1, ValidWasIssued
    <2>3. h \in DOMAIN Live => Live[h] = data[h.index]
      BY DEF Live
    <2>4. Contract!Get(h)
      BY <1>6, <2>1, <2>2, <2>3
         DEF Contract!Get, Contract!Found, Contract!NotFound, Found, NotFound, Get, Live
    <2> QED BY <2>4 DEF Contract!Next
  <1>7. ASSUME NEW h \in Handles, RemoveStale(h) PROVE Contract!Next
    <2>1. Live' = Live
      BY <1>7, QuietKeepsHandles DEF RemoveStale, Live
    <2>2. h \notin DOMAIN Live
      BY <1>1, <1>7, ValidWasIssued DEF RemoveStale
    <2>3. Live' = [k \in DOMAIN Live \ {h} |-> Live[k]]
      BY <2>1, <2>2 DEF Live
    <2>4. (h \in DOMAIN Live) = FALSE
      BY <2>2
    <2>5. Contract!Remove(h)
      BY <1>7, <2>3, <2>4 DEF Contract!Remove, Contract!Removed, Removed, RemoveStale, Live
    <2> QED BY <2>5 DEF Contract!Next
  <1>8. ASSUME NEW h \in Handles, RemoveLive(h) PROVE Contract!Next
    <2>1. h \in LiveHandles /\ LiveHandles' = LiveHandles \ {h} /\ data' = data
      BY <1>8, RemoveInvalidates DEF RemoveLive
    <2>2. Live' = [k \in DOMAIN Live \ {h} |-> Live[k]] /\ h \in DOMAIN Live
      BY <1>1, <2>1 DEF Live
    <2>3. Contract!Remove(h)
      BY <1>8, <2>2 DEF Contract!Remove, Contract!Removed, Removed, RemoveLive, Live
    <2> QED BY <2>3 DEF Contract!Next
  <1>9. ASSUME NEW h \in Handles, NEW v \in Values, Write(h, v) PROVE Contract!Next
    <2>1. LiveHandles' = LiveHandles /\ h \in LiveHandles /\ h = Current(h.index) /\ h.index \in Slots
      BY <1>9, QuietKeepsHandles, ValidWasIssued DEF Write
    <2>2. \A k \in LiveHandles : k.index = h.index => k = h
      BY <1>2, <2>1, ValidWasIssued
    <2>3. \A k \in LiveHandles : data'[k.index] = IF k = h THEN v ELSE data[k.index]
      BY <1>2, <1>9, <2>1, <2>2, TypeFacts DEF Write
    <2>4. Live' = [Live EXCEPT ![h] = v]
      BY <2>1, <2>3 DEF Live
    <2>5. Contract!Write(h, v)
      BY <1>1, <1>9, <2>1, <2>4 DEF Contract!Write, Write, Live
    <2> QED BY <2>5 DEF Contract!Next
  <1>10. ASSUME LiveHandles' = {} PROVE Live' = [k \in {} |-> NoValue]
    BY <1>10 DEF Live
  <1>11. CASE Clear
    BY <1>10, <1>11, ClearInvalidates DEF Contract!Next, Contract!Clear, Contract!NoValue, NoValue, Clear, Live
  <1>12. CASE Deinit
    BY <1>10, <1>12, DeinitInvalidates DEF Contract!Next, Contract!Deinit, Contract!NoValue, NoValue, Deinit, Live
  <1>13. CASE UNCHANGED vars
    BY <1>13, QuietKeepsHandles DEF vars, Contract!vars
  <1> QED BY <1>4, <1>5, <1>6, <1>7, <1>8, <1>9, <1>11, <1>12, <1>13 DEF Next

\* PoolHandle: for every capacity, a handle that has become invalid never
\* becomes valid again, as long as fewer calls release slots than there are
\* generations (2^64 - 1 in the code).
THEOREM StaleForever == ASSUME MaxReleases < MaxGeneration PROVE Spec => StaleStaysStale
  <1>1. Init => PoolInv
    BY StructureInit, AgedInit DEF PoolInv
  <1>2. PoolInv /\ [Next]_vars => PoolInv'
    BY PoolInvStep
  <1>3. PoolInv /\ [Next]_vars => [\A h \in issued : ~Contains(h) => ~(Contains(h))']_vars
    <2> SUFFICES ASSUME PoolInv, Next, NEW h \in issued, ~Contains(h) PROVE ~(Contains(h))'
      OBVIOUS
    <2> USE DEF PoolInv
    <2>1. ASSUME LiveHandles' \subseteq LiveHandles, issued' = issued PROVE ~(Contains(h))'
      BY <2>1 DEF LiveHandles
    <2>2. ASSUME NEW v \in Values, InsertFull(v) PROVE ~(Contains(h))'
      BY <2>1, <2>2, QuietKeepsHandles DEF InsertFull
    <2>3. ASSUME NEW v \in Values, InsertFree(v) PROVE ~(Contains(h))'
      BY <2>3, InsertIsFresh DEF LiveHandles
    <2>4. ASSUME NEW k \in Handles, Get(k) PROVE ~(Contains(h))'
      BY <2>1, <2>4, QuietKeepsHandles DEF Get
    <2>5. ASSUME NEW k \in Handles, RemoveStale(k) PROVE ~(Contains(h))'
      BY <2>1, <2>5, QuietKeepsHandles DEF RemoveStale
    <2>6. ASSUME NEW k \in Handles, RemoveLive(k) PROVE ~(Contains(h))'
      BY <2>1, <2>6, RemoveInvalidates DEF RemoveLive
    <2>7. ASSUME NEW k \in Handles, NEW v \in Values, Write(k, v) PROVE ~(Contains(h))'
      BY <2>1, <2>7, QuietKeepsHandles DEF Write
    <2>8. CASE Clear
      BY <2>1, <2>8, ClearInvalidates DEF Clear
    <2>9. CASE Deinit
      BY <2>1, <2>9, DeinitInvalidates DEF Deinit
    <2> QED BY <2>2, <2>3, <2>4, <2>5, <2>6, <2>7, <2>8, <2>9 DEF Next
  <1> QED BY <1>1, <1>2, <1>3, PTL DEF Spec, StaleStaysStale

\* Pool: under the same assumption the pool implements its contract - handles
\* are issued once, values are not mixed up, insertion fails exactly when full.
THEOREM PoolRefinesContract == ASSUME MaxReleases < MaxGeneration PROVE Spec => ImplementsContract
  <1>1. Init => PoolInv
    BY StructureInit, AgedInit DEF PoolInv
  <1>2. PoolInv /\ [Next]_vars => PoolInv'
    BY PoolInvStep
  <1>3. Init => Contract!Init
    <2> SUFFICES ASSUME Init PROVE Contract!Init
      OBVIOUS
    <2>1. LiveHandles = {}
      BY DEF Init, LiveHandles
    <2> QED BY <2>1 DEF Init, Contract!Init, Contract!NoHandle, NoHandle, Contract!NoValue, NoValue
  <1>4. PoolInv /\ [Next]_vars => [Contract!Next]_Contract!vars
    BY ContractStep
  <1> QED BY <1>1, <1>2, <1>3, <1>4, PTL DEF Spec, ImplementsContract, Contract!Spec
==============================================================================
