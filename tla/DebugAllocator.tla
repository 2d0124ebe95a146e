--------------------------- MODULE DebugAllocator ---------------------------
(***************************************************************************)
(* The debug allocator of the runtime over the aligned heap                *)
(* (coglet_runtime_mem.c), and a client that also does what it should not: *)
(* frees twice, frees or resizes with the wrong layout, writes past the    *)
(* ends of what it holds.  Memory it gave back may be handed out again, at *)
(* the same address.  malloc hands out any free memory that is aligned to  *)
(* a word, or none.                                                        *)
(***************************************************************************)
EXTENDS Naturals, Sequences, FiniteSets, FiniteSetsExt
SE == INSTANCE SequencesExt

CONSTANTS HeapSpace,        \* addresses are below it: SIZE_MAX + 1
          HeapWord,         \* sizeof(void *), what malloc aligns to
          HeapHeader,       \* sizeof(CogletRuntimeAllocationHeader)
          DebugHeader,      \* sizeof(CogletRuntimeDebugBlock)
          Guard,            \* COGLET_RT_DEBUG_GUARD_SIZE
          DebugState,       \* sizeof(CogletRuntimeDebugAllocator)
          DebugSizes, DebugAlignments,  \* what the client asks for
          MaxTaken,         \* bound on the allocations of a run
          MaxWrongs         \* bound on the wrong calls and writes of a run

ASSUME DebugAssumption ==
  /\ {HeapSpace, HeapWord, HeapHeader, DebugHeader, Guard, DebugState} \subseteq Nat \ {0}
  /\ HeapHeader % HeapWord = 0
  /\ DebugSizes \subseteq Nat /\ DebugAlignments \subseteq Nat \ {0}
  /\ MaxTaken \in Nat /\ MaxWrongs \in Nat

VARIABLES chain,            \* the blocks from debug->head
          counts,           \* the counters of CogletRuntimeDebugAllocator
          malloced,         \* what malloc has lent: [at, size]
          returned,         \* the addresses the client has ever been given
          wrongs,           \* history: the calls and writes that were wrong
          running           \* "created", "destroyed" or "aborted"
hvars == <<chain, counts, malloced, returned, wrongs, running>>

Aligned(value, alignment) == ((value + alignment - 1) \div alignment) * alignment
checked_alignment(alignment) == IF alignment < HeapWord THEN HeapWord ELSE alignment
Apart(r, s) == r.at + r.size <= s.at \/ s.at + s.size <= r.at

(* coglet_rt_mem_allocate_impl: what is asked of malloc, and the pointer   *)
(* its caller gets                                                         *)
heap_total(size, alignment) == size + HeapHeader + alignment - 1
heap_pointer(base, alignment) == Aligned(base + HeapHeader, alignment)
malloc(total) ==
  {p \in 1 .. HeapSpace : p % HeapWord = 0 /\ p + total <= HeapSpace /\ \A m \in malloced : Apart(m, [at |-> p, size |-> total])}

(* coglet_rt_mem_debug_allocate_internal: header, front guard, the user's  *)
(* bytes at their alignment, back guard                                    *)
SlipDebugTotal(size, alignment) == DebugHeader + Guard + size + Guard
debug_total(size, alignment) == DebugHeader + Guard + alignment - 1 + size + Guard
Memory(size, alignment) == heap_total(debug_total(size, alignment), HeapWord)
SlipAddress(raw, alignment) == raw + DebugHeader + Guard
user_address(raw, alignment) == Aligned(raw + DebugHeader + Guard, alignment)
Block(base, size, alignment) ==
  LET raw == heap_pointer(base, HeapWord)
  IN  [base |-> base, raw |-> raw, user |-> user_address(raw, alignment), size |-> size, alignment |-> alignment,
       total |-> debug_total(size, alignment), id |-> counts.next_id, intact |-> TRUE]
Lent(block) == [at |-> block.base, size |-> heap_total(block.total, HeapWord)]

StateMemory == [at |-> HeapWord, size |-> heap_total(DebugState, HeapWord)]
(* coglet_rt_mem_debug_create                                              *)
DebugInit ==
  /\ chain = << >> /\ malloced = {StateMemory} /\ returned = {} /\ wrongs = 0 /\ running = "created"
  /\ counts = [next_id |-> 1, live_allocations |-> 0, live_bytes |-> 0, total_allocations |-> 0, total_bytes |-> 0, error_count |-> 0]

DebugFails == /\ running' = "aborted" /\ chain' = << >> /\ UNCHANGED <<counts, malloced, returned, wrongs>>
(* A size that overflows SIZE_MAX is one malloc has no place for.           *)
OutOfMemory(size, alignment) == malloc(Memory(size, alignment)) = {}
Counted(c, size) == [c EXCEPT !.next_id = @ + 1, !.live_allocations = @ + 1, !.live_bytes = @ + size,
                              !.total_allocations = @ + 1, !.total_bytes = @ + size]

DebugAlloc(size, alignment) ==
  /\ running = "created" /\ size > 0 /\ counts.total_allocations < MaxTaken
  /\ \/ OutOfMemory(size, alignment) /\ DebugFails
     \/ \E base \in malloc(Memory(size, alignment)) :
          LET block == Block(base, size, alignment) IN
          /\ chain' = <<block>> \o chain
          /\ malloced' = malloced \cup {Lent(block)}
          /\ returned' = returned \cup {block.user}
          /\ counts' = Counted(counts, size)
          /\ UNCHANGED <<wrongs, running>>

(* coglet_rt_mem_debug_find: the newest block at that address              *)
debug_find(pointer) == LET at == {i \in DOMAIN chain : chain[i].user = pointer} IN IF at = {} THEN 0 ELSE Min(at)

SlipFreedSize(block, size) == size
freed_size(block, size) == block.size
Freed(c, block, size, faults) ==
  [c EXCEPT !.error_count = @ + faults, !.live_allocations = @ - 1, !.live_bytes = @ - freed_size(block, size)]
Damage(block) == IF block.intact THEN 0 ELSE 1
Misfit(block, size, alignment) == IF size # block.size \/ alignment # block.alignment THEN 1 ELSE 0

DebugFree(pointer, size, alignment) ==
  /\ running = "created"
  /\ LET i == debug_find(pointer) IN
     IF i = 0
     THEN /\ counts' = [counts EXCEPT !.error_count = @ + 1] /\ wrongs' = wrongs + 1
          /\ UNCHANGED <<chain, malloced>>
     ELSE /\ chain' = SE!RemoveAt(chain, i)
          /\ malloced' = malloced \ {Lent(chain[i])}
          /\ counts' = Freed(counts, chain[i], size, Misfit(chain[i], size, alignment) + Damage(chain[i]))
          /\ wrongs' = wrongs + Misfit(chain[i], size, alignment)
  /\ wrongs' <= MaxWrongs
  /\ UNCHANGED <<returned, running>>

(* coglet_rt_mem_debug_resize to a size that is not 0: the new block is    *)
(* taken while the old one is still there.                                 *)
DebugResize(pointer, old_size, size, alignment) ==
  /\ running = "created" /\ size > 0 /\ counts.total_allocations < MaxTaken
  /\ LET i == debug_find(pointer)
         misfit == IF i > 0 /\ old_size # chain[i].size THEN 1 ELSE 0
     IN  CASE i = 0 ->
                /\ counts' = [counts EXCEPT !.error_count = @ + 1] /\ wrongs' = wrongs + 1
                /\ UNCHANGED <<chain, malloced, returned, running>>
           [] i > 0 /\ OutOfMemory(size, alignment) -> DebugFails
           [] OTHER ->
                \E base \in malloc(Memory(size, alignment)) :
                  LET block == Block(base, size, alignment) IN
                  /\ chain' = <<block>> \o SE!RemoveAt(chain, i)
                  /\ malloced' = (malloced \cup {Lent(block)}) \ {Lent(chain[i])}
                  /\ returned' = returned \cup {block.user}
                  /\ counts' = Freed(Counted(counts, size), chain[i], chain[i].size, misfit + Damage(chain[i]))
                  /\ wrongs' = wrongs + misfit
                  /\ UNCHANGED running
  /\ wrongs' <= MaxWrongs

(* The client writes just before or just behind what it holds.             *)
WriteOutside(i) ==
  /\ running = "created" /\ chain[i].intact /\ wrongs < MaxWrongs
  /\ chain' = [chain EXCEPT ![i].intact = FALSE]
  /\ wrongs' = wrongs + 1
  /\ UNCHANGED <<counts, malloced, returned, running>>

debug_check == \A i \in DOMAIN chain : chain[i].intact

(* coglet_rt_mem_debug_destroy, with what is left reported                 *)
memory_returned == {Lent(chain[i]) : i \in DOMAIN chain} \cup {StateMemory}
DebugDestroy ==
  /\ running = "created" /\ running' = "destroyed"
  /\ malloced' = malloced \ memory_returned
  /\ counts' = [counts EXCEPT !.error_count = @ + Cardinality({i \in DOMAIN chain : ~ chain[i].intact})]
  /\ chain' = << >>
  /\ UNCHANGED <<returned, wrongs>>

DebugNext ==
  \/ \E size \in DebugSizes, a \in DebugAlignments : DebugAlloc(size, checked_alignment(a))
  \/ \E pointer \in returned, size \in DebugSizes, a \in DebugAlignments :
       \/ DebugFree(pointer, size, checked_alignment(a))
       \/ \E old \in DebugSizes : DebugResize(pointer, old, size, checked_alignment(a))
  \/ \E i \in DOMAIN chain : WriteOutside(i)
  \/ DebugDestroy
DebugSpec == DebugInit /\ [][DebugNext]_hvars

-----------------------------------------------------------------------------
SumOf(weights) ==
  LET sum[i \in 0 .. Len(weights)] == IF i = 0 THEN 0 ELSE sum[i - 1] + weights[i] IN sum[Len(weights)]
held_bytes  == SumOf([i \in 1 .. Len(chain) |-> chain[i].size])
held_damage == SumOf([i \in 1 .. Len(chain) |-> Damage(chain[i])])

(* What DebugAllocator reports is what there is, after any misuse: the     *)
(* live allocations and bytes are those of the chain, and every wrong call *)
(* or write is reported or lies in a block that is still held.             *)
ReportsAreTrue ==
  running = "created" =>
    /\ counts.live_allocations = Len(chain)
    /\ counts.live_bytes = held_bytes
    /\ counts.error_count + held_damage = wrongs
    /\ debug_check <=> counts.error_count = wrongs

(* No block nor its guards leave the memory the heap lent for it, and the  *)
(* heap's header in front of it is left alone.                             *)
GuardsFit ==
  \A i \in DOMAIN chain :
    LET block == chain[i] IN
    /\ block.raw - HeapHeader >= block.base /\ block.user - Guard >= block.raw + DebugHeader
    /\ block.user + block.size + Guard <= block.base + Lent(block).size

(* All that malloc lent is in the chain, and destroy gives it all back.    *)
HeapIsReturned ==
  running # "aborted" =>
    malloced = IF running = "destroyed" THEN {} ELSE {Lent(chain[i]) : i \in DOMAIN chain} \cup {StateMemory}

(* The debug allocator keeps to what the heap lent it, and returns it.     *)
HeapIsRespected == GuardsFit /\ HeapIsReturned

(* The chain, oldest first                                                 *)
DebugContract == INSTANCE AllocatorContract WITH
  Addresses <- 1 .. HeapSpace,
  regions <- [i \in DOMAIN chain |-> LET block == SE!Reverse(chain)[i] IN [at |-> block.user, size |-> block.size, alignment |-> block.alignment]],
  scopes <- << >>,
  open <- running = "created"

(* Whatever the client does, the debug allocator over the heap is an       *)
(* allocator: regions are aligned and never overlap, and a stale pointer,  *)
(* freed or resized again, costs the client one region at most.            *)
DebugImplements == DebugContract!Spec

=============================================================================
