--------------------------------- MODULE Pool ---------------------------------
(***************************************************************************)
(* std.heap's Pool: a fixed-capacity pool of copyable values with a free   *)
(* list threaded through next_free and a generation per slot.  The client  *)
(* may present any handle at any time, stale and made-up ones included.    *)
(***************************************************************************)
EXTENDS Naturals, Sequences, FiniteSets

CONSTANTS
  Capacity,       \* the capacity with_capacity() was asked for
  MaxGeneration,  \* the largest u64
  MaxReleases,    \* bound on the calls that release slots
  Values          \* the values of the element type

ASSUME PoolAssumption ==
  /\ Capacity \in Nat
  /\ MaxGeneration \in Nat /\ MaxGeneration >= 1
  /\ MaxReleases \in Nat

Slots0 == 0..(Capacity - 1)

\* pool_invalid_index and pool_live_index, which no slot has.
InvalidIndex == Capacity + 1
LiveIndex    == Capacity + 2

Generations == 1..MaxGeneration
Handles     == [index : 0..InvalidIndex, generation : 0..MaxGeneration]

NoValue  == "no value"

\* What a call returns: a handle or none, a value or null, whether it removed.
Issued(h)  == <<"handle", h>>
NoHandle   == <<"full">>
Found(v)   == <<"value", v>>
NotFound   == <<"null">>
Removed(b) == <<"removed", b>>

VARIABLES
  data, nextFree, generations,  \* the three arrays
  capacity, freeHead, liveCount,
  reply,     \* what the last call returned
  freeList,  \* history: the slots of the free list, first to last
  issued,    \* history: the handles insert() has returned
  releases   \* history: the calls so far that advanced a generation

vars == <<data, nextFree, generations, capacity, freeHead, liveCount, reply, freeList, issued, releases>>

Slots == 0..(capacity - 1)

-----------------------------------------------------------------------------
\* The definitions named Slip... are plausible slips in the code of the
\* definition that follows; the specification never uses them.
SlipChainOpenEnd(c) == [i \in 0..(c - 1) |-> i + 1]

\* The free list of an empty pool: 0, 1, ..., capacity - 1.
Chain(c)     == [i \in 0..(c - 1) |-> IF i + 1 < c THEN i + 1 ELSE InvalidIndex]
ChainList(c) == [k \in 1..c |-> k - 1]
ChainHead(c) == IF c = 0 THEN InvalidIndex ELSE 0

SlipKeepGeneration(g) == g

\* The generation a slot is given when it is released: u64, skipping 0.
NextGeneration(g) == IF g = MaxGeneration THEN 1 ELSE g + 1

SlipIgnoreLiveMark(h) ==
  /\ h.index < capacity
  /\ generations[h.index] = h.generation

\* contains.
Contains(h) ==
  /\ h.index < capacity
  /\ nextFree[h.index] = LiveIndex
  /\ generations[h.index] = h.generation

\* with_capacity.  The elements are uninitialised storage.
Init ==
  /\ data \in [Slots0 -> {NoValue}]
  /\ nextFree = Chain(Capacity)
  /\ generations = [i \in Slots0 |-> 1]
  /\ capacity = Capacity
  /\ freeHead = ChainHead(Capacity)
  /\ liveCount = 0
  /\ reply = NoHandle
  /\ freeList = ChainList(Capacity)
  /\ issued = {}
  /\ releases = 0

\* insert.
InsertFull(v) ==
  /\ freeHead = InvalidIndex
  /\ reply' = NoHandle
  /\ UNCHANGED <<data, nextFree, generations, capacity, freeHead, liveCount, freeList, issued, releases>>

InsertFree(v) ==
  /\ freeHead # InvalidIndex
  /\ LET handle == [index |-> freeHead, generation |-> generations[freeHead]] IN
     /\ freeHead' = nextFree[freeHead]
     /\ nextFree' = [nextFree EXCEPT ![freeHead] = LiveIndex]
     /\ data' = [data EXCEPT ![freeHead] = v]
     /\ liveCount' = liveCount + 1
     /\ reply' = Issued(handle)
     /\ issued' = issued \cup {handle}
  /\ freeList' = Tail(freeList)
  /\ UNCHANGED <<generations, capacity, releases>>

\* get and get_readonly.
Get(h) ==
  /\ reply' = IF Contains(h) THEN Found(data[h.index]) ELSE NotFound
  /\ UNCHANGED <<data, nextFree, generations, capacity, freeHead, liveCount, freeList, issued, releases>>

\* A store through the pointer get() returned for h.
Write(h, v) ==
  /\ Contains(h)
  /\ data' = [data EXCEPT ![h.index] = v]
  /\ UNCHANGED <<nextFree, generations, capacity, freeHead, liveCount, reply, freeList, issued, releases>>

\* remove.
RemoveStale(h) ==
  /\ ~Contains(h)
  /\ reply' = Removed(FALSE)
  /\ UNCHANGED <<data, nextFree, generations, capacity, freeHead, liveCount, freeList, issued, releases>>

RemoveLive(h) ==
  /\ Contains(h) /\ releases < MaxReleases
  /\ generations' = [generations EXCEPT ![h.index] = NextGeneration(@)]
  /\ nextFree' = [nextFree EXCEPT ![h.index] = freeHead]
  /\ freeHead' = h.index
  /\ liveCount' = liveCount - 1
  /\ reply' = Removed(TRUE)
  /\ freeList' = <<h.index>> \o freeList
  /\ releases' = releases + 1
  /\ UNCHANGED <<data, capacity, issued>>

\* clear advances the generation of every slot, free ones too.
ClearedGenerations == [i \in Slots |-> NextGeneration(generations[i])]

Clear ==
  /\ releases < MaxReleases
  /\ generations' = ClearedGenerations
  /\ nextFree' = Chain(capacity)
  /\ freeHead' = ChainHead(capacity)
  /\ liveCount' = 0
  /\ freeList' = ChainList(capacity)
  /\ releases' = releases + 1
  /\ UNCHANGED <<data, capacity, reply, issued>>

\* deinit returns the three arrays to the allocator.
Deinit ==
  /\ data' = [i \in {} |-> NoValue]
  /\ nextFree' = [i \in {} |-> InvalidIndex]
  /\ generations' = [i \in {} |-> 1]
  /\ capacity' = 0
  /\ freeHead' = InvalidIndex
  /\ liveCount' = 0
  /\ freeList' = <<>>
  /\ UNCHANGED <<reply, issued, releases>>

Next ==
  \/ \E v \in Values : InsertFull(v) \/ InsertFree(v)
  \/ \E h \in Handles : Get(h) \/ RemoveStale(h) \/ RemoveLive(h) \/ \E v \in Values : Write(h, v)
  \/ Clear \/ Deinit

Spec == Init /\ [][Next]_vars

-----------------------------------------------------------------------------
(* Properties. *)

\* The arrays span the capacity and hold indices, generations and values.
PoolTypeOK ==
  /\ capacity \in {0, Capacity}
  /\ data \in [Slots -> Values \cup {NoValue}]
  /\ nextFree \in [Slots -> Slots \cup {InvalidIndex, LiveIndex}]
  /\ generations \in [Slots -> Generations]
  /\ freeHead \in Slots \cup {InvalidIndex}
  /\ liveCount \in 0..capacity
  /\ issued \subseteq Handles
  /\ releases \in 0..MaxReleases
  /\ freeList \in Seq(Slots)

\* The links from free_head visit exactly the slots not marked live, each once,
\* and live_count counts the others: the pool loses no slot and hands out none
\* twice, whatever sequence of calls it has seen, generation wrap included.
FreeListExact ==
  /\ freeHead = IF Len(freeList) = 0 THEN InvalidIndex ELSE freeList[1]
  /\ \A k \in 1..Len(freeList) :
       nextFree[freeList[k]] = IF k < Len(freeList) THEN freeList[k + 1] ELSE InvalidIndex
  /\ \A j, k \in 1..Len(freeList) : freeList[j] = freeList[k] => j = k
  /\ \A i \in Slots : nextFree[i] = LiveIndex <=> \A k \in 1..Len(freeList) : freeList[k] # i
  /\ liveCount + Len(freeList) = capacity

LiveHandles == {h \in issued : Contains(h)}

\* heap.cog, PoolHandle: "Generation changes whenever a slot is released so stale
\* handles do not silently refer to a later occupant of the same index" - a
\* handle that is invalid once stays invalid.
StaleStaysStale ==
  [][\A h \in issued : ~Contains(h) => ~(Contains(h))']_vars

Contract == INSTANCE PoolContract WITH
  bound <- capacity, live <- [h \in LiveHandles |-> data[h.index]]

\* Pool implements its contract.
ImplementsContract == Contract!Spec
=============================================================================
