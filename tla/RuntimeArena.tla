------------------------------ MODULE RuntimeArena ------------------------------
(***************************************************************************)
(* The growable arena of the runtime (coglet_runtime_mem.c) and the        *)
(* scratch scopes of std.heap over it.  Addresses are numbers below        *)
(* AddressSpace and wrap like uintptr_t; the parent allocator hands out    *)
(* any free, word-aligned memory, or fails.                                *)
(***************************************************************************)
EXTENDS Naturals, Sequences, FiniteSets

CONSTANTS
  AddressSpace,  \* 2^64
  Word,          \* sizeof(void *)
  HeaderSize,    \* sizeof(CogletRuntimeArenaBlock)
  ArenaSize,     \* sizeof(CogletRuntimeArena)
  BlockSize,     \* arena->block_size
  Sizes,         \* the sizes the client asks for
  Alignments,    \* the alignments it asks for: powers of two
  MaxBlocks,     \* bound on the blocks
  MaxLive,       \* bound on the allocations held at once
  MaxScopes      \* bound on the scratch scopes open at once

ASSUME ArenaAssumption ==
  /\ {AddressSpace, Word, HeaderSize, ArenaSize, BlockSize} \subseteq Nat \ {0}
  /\ HeaderSize % Word = 0 /\ AddressSpace % Word = 0
  /\ Sizes \subseteq Nat
  /\ Alignments \subseteq Nat \ {0}
  /\ \A a \in Alignments : AddressSpace % a = 0
  /\ {MaxBlocks, MaxLive, MaxScopes} \subseteq Nat

SizeMax == AddressSpace - 1
NoBlock == 0

VARIABLES
  phase,    \* "ready", "retired" by deinit, or "aborted"
  blocks,   \* the list from arena->head: [base, capacity, used], base after the header
  current,  \* arena->current, a position in blocks, or NoBlock
  lent,     \* the memory the parent has lent: [at, size]
  live,     \* the allocations the client holds, oldest first: [at, size, alignment]
  scopes    \* the open Scratch values, oldest first

avars == <<phase, blocks, current, lent, live, scopes>>

\* Scratch: mark_block and mark_used.  History: kept counts the live allocations
\* that are older than the scope, before holds the used field of every block when
\* it began, fresh says that the arena has not been reset since.
Scope == [block : Nat, used : Nat, kept : Nat, before : Seq(Nat), fresh : BOOLEAN]

Ready        == phase = "ready"
Prefix(s, n) == SubSeq(s, 1, n)
Without(s, i) == Prefix(s, i - 1) \o SubSeq(s, i + 1, Len(s))
Overlap(r, s) == r.at < s.at + s.size /\ s.at < r.at + r.size

-----------------------------------------------------------------------------
\* The definitions named Slip... are plausible slips in the code of the
\* definition that follows; the specification never uses them.

\* coglet_rt_mem_checked_alignment, for an alignment that is a power of two.
CheckedAlignment(a) == IF a < Word THEN Word ELSE a

SlipNoPadding(v, a) == v

\* coglet_rt_align_up_uintptr.
AlignUp(v, a) == (((v + (a - 1)) % AddressSpace) \div a) * a

\* The test in the loop of coglet_rt_mem_arena_alloc.
Fits(b, size, a) ==
  LET aligned == AlignUp(b.base + b.used, a) IN
  /\ aligned >= b.base
  /\ size <= b.capacity
  /\ aligned - b.base <= b.capacity - size

\* Where the loop starts: the current block, or the first.
SearchFrom == IF current # NoBlock THEN current ELSE 1

FirstFit(size, a) ==
  {i \in SearchFrom..Len(blocks) :
     /\ Fits(blocks[i], size, a)
     /\ \A j \in SearchFrom..(i - 1) : ~Fits(blocks[j], size, a)}

\* block->used after an allocation, and the allocation.
Bump(b, size, a)   == [b EXCEPT !.used = AlignUp(b.base + b.used, a) - b.base + size]
Placed(b, size, a) == [at |-> AlignUp(b.base + b.used, a), size |-> size, alignment |-> a]

\* coglet_rt_mem_arena_new_block: the payload asked for, and whether the sizes overflow.
Needed(size, a)  == size + (a - 1)
Payload(size, a) == IF BlockSize < Needed(size, a) THEN Needed(size, a) ELSE BlockSize
TooLarge(size, a) ==
  \/ a > 1 /\ size > SizeMax - (a - 1)
  \/ Payload(size, a) > SizeMax - HeaderSize

\* parent.allocate: any free memory, aligned to a word.
ParentPlaces(total) ==
  {p \in 1..(AddressSpace - 1) :
     /\ p % Word = 0 /\ p + total <= AddressSpace - 1
     /\ \A m \in lent : ~Overlap([at |-> p, size |-> total], m)}

SlipReplaceHead(b) == <<b>>

\* The new block goes behind the last one.
Linked(b) == Append(blocks, b)

-----------------------------------------------------------------------------
(* Allocation.  A request of size 0 returns null and changes nothing.       *)

\* History: the client no longer holds its i-th allocation (i = 0: none), and
\* each scope that is younger than it keeps one less.
Held(i) == IF i = 0 THEN live ELSE Without(live, i)
KeptWithout(i) ==
  [k \in 1..Len(scopes) |-> [scopes[k] EXCEPT !.kept = IF i > 0 /\ i <= @ THEN @ - 1 ELSE @]]

\* coglet_rt_mem_fail.
Abort ==
  /\ phase' = "aborted"
  /\ live' = <<>> /\ scopes' = <<>>
  /\ UNCHANGED <<blocks, current, lent>>

\* coglet_rt_mem_arena_alloc, in a block the arena has.
AllocInBlock(size, a, i) ==
  /\ \E b \in FirstFit(size, a) :
       /\ blocks' = [blocks EXCEPT ![b] = Bump(@, size, a)]
       /\ current' = b
       /\ live' = Append(Held(i), Placed(blocks[b], size, a))
  /\ scopes' = KeptWithout(i)
  /\ UNCHANGED <<phase, lent>>

\* ... and in a new block.
AllocNewBlock(size, a, i) ==
  /\ FirstFit(size, a) = {} /\ ~TooLarge(size, a)
  /\ Len(blocks) < MaxBlocks
  /\ \E place \in ParentPlaces(HeaderSize + Payload(size, a)) :
       LET new == [base |-> place + HeaderSize, capacity |-> Payload(size, a), used |-> 0] IN
       /\ blocks' = Linked(Bump(new, size, a))
       /\ lent' = lent \cup {[at |-> place, size |-> HeaderSize + Payload(size, a)]}
       /\ live' = Append(Held(i), Placed(new, size, a))
  /\ current' = Len(blocks')
  /\ scopes' = KeptWithout(i)
  /\ UNCHANGED phase

\* ... and when the sizes overflow or the parent is out of memory.
AllocAborts(size, a) ==
  /\ FirstFit(size, a) = {}
  /\ TooLarge(size, a) \/ ParentPlaces(HeaderSize + Payload(size, a)) = {}
  /\ Abort

Allocate(size, a, i) == AllocInBlock(size, a, i) \/ AllocNewBlock(size, a, i) \/ AllocAborts(size, a)

Alloc(size, a) ==
  /\ Ready /\ size > 0 /\ Len(live) < MaxLive
  /\ Allocate(size, CheckedAlignment(a), 0)

\* coglet_rt_mem_arena_resize: allocates and copies; the old storage stays in use.
Resize(i, size) ==
  /\ Ready /\ size > 0
  /\ Allocate(size, live[i].alignment, i)

\* coglet_rt_mem_arena_free does nothing.
Free(i) ==
  /\ Ready
  /\ live' = Held(i)
  /\ scopes' = KeptWithout(i)
  /\ UNCHANGED <<phase, blocks, current, lent>>

-----------------------------------------------------------------------------
(* Reset, scratch scopes, deinitialisation. *)

Emptied(b) == [b EXCEPT !.used = 0]

\* coglet_rt_mem_arena_reset.
ResetBlocks ==
  /\ blocks' = [k \in 1..Len(blocks) |-> Emptied(blocks[k])]
  /\ current' = IF Len(blocks) > 0 THEN 1 ELSE NoBlock

Reset ==
  /\ Ready
  /\ ResetBlocks
  /\ live' = <<>>
  /\ scopes' = [k \in 1..Len(scopes) |-> [scopes[k] EXCEPT !.kept = 0, !.fresh = FALSE]]
  /\ UNCHANGED <<phase, lent>>

\* coglet_rt_mem_arena_mark.
MarkBlock == IF current = NoBlock /\ Len(blocks) > 0 THEN 1 ELSE current

\* Scratch.begin.
ScratchBegin ==
  /\ Ready /\ Len(scopes) < MaxScopes
  /\ scopes' = Append(scopes,
       [block |-> MarkBlock, used |-> IF MarkBlock = NoBlock THEN 0 ELSE blocks[MarkBlock].used,
        kept |-> Len(live), before |-> [k \in 1..Len(blocks) |-> blocks[k].used], fresh |-> TRUE])
  /\ UNCHANGED <<phase, blocks, current, lent, live>>

SlipRewindThisBlockOnly(mark) == [blocks EXCEPT ![mark.block].used = mark.used]
SlipRewindEmptiesBlock(mark) ==
  [k \in 1..Len(blocks) |-> IF k >= mark.block THEN Emptied(blocks[k]) ELSE blocks[k]]

\* coglet_rt_mem_arena_rewind to a block: it and the blocks behind it.
Rewound(mark) ==
  [k \in 1..Len(blocks) |->
     CASE k < mark.block -> blocks[k]
       [] k = mark.block -> [blocks[k] EXCEPT !.used = mark.used]
       [] k > mark.block -> Emptied(blocks[k])]

\* Scratch.deinit of the youngest scope: std.heap asks for LIFO order.
ScratchEnd ==
  /\ Ready /\ Len(scopes) > 0
  /\ LET mark == scopes[Len(scopes)] IN
     /\ IF mark.block = NoBlock THEN ResetBlocks
        ELSE blocks' = Rewound(mark) /\ current' = mark.block
     /\ live' = Prefix(live, mark.kept)
  /\ scopes' = Prefix(scopes, Len(scopes) - 1)
  /\ UNCHANGED <<phase, lent>>

\* The region the parent takes back for a block: its header and its payload.
LentFor(b) == [at |-> b.base - HeaderSize, size |-> HeaderSize + b.capacity]
ArenaState == [at |-> Word, size |-> ArenaSize]

\* coglet_rt_mem_arena_destroy, once every scope has ended.
ArenaDeinit ==
  /\ Ready /\ scopes = <<>>
  /\ lent' = lent \ ({LentFor(blocks[k]) : k \in 1..Len(blocks)} \cup {ArenaState})
  /\ blocks' = <<>> /\ current' = NoBlock
  /\ phase' = "retired"
  /\ live' = <<>>
  /\ UNCHANGED scopes

\* coglet_rt_mem_arena_create.
ArenaInit ==
  /\ phase = "ready"
  /\ blocks = <<>> /\ current = NoBlock
  /\ lent = {ArenaState}
  /\ live = <<>> /\ scopes = <<>>

Over == ~Ready /\ UNCHANGED avars

ArenaNext ==
  \/ \E size \in Sizes, a \in Alignments : Alloc(size, a)
  \/ \E i \in 1..Len(live) : Free(i) \/ \E size \in Sizes : Resize(i, size)
  \/ Reset \/ ScratchBegin \/ ScratchEnd \/ ArenaDeinit
  \/ Over

ArenaSpec == ArenaInit /\ [][ArenaNext]_avars

-----------------------------------------------------------------------------
(* Properties. *)

\* The arena keeps its types, and no block is used beyond its capacity.
ArenaTypeOK ==
  /\ phase \in {"ready", "retired", "aborted"}
  /\ blocks \in Seq([base : Nat, capacity : Nat, used : Nat])
  /\ current \in 0..Len(blocks)
  /\ \A k \in 1..Len(blocks) : blocks[k].used <= blocks[k].capacity

\* Every allocation the client holds lies in the used part of some block.
HeldIsUsed ==
  \A i \in 1..Len(live) : \E k \in 1..Len(blocks) :
    /\ blocks[k].base <= live[i].at
    /\ live[i].at + live[i].size <= blocks[k].base + blocks[k].used

\* What the arena holds is in order, and nothing it handed out is free to it.
ArenaInvariant == ArenaTypeOK /\ HeldIsUsed

\* docs/stdlib.md: "deinit() returns all blocks and arena state to its parent
\* allocator" - and the arena reaches every block the parent has lent it.
NothingLeaks ==
  lent = IF phase = "retired" THEN {}
         ELSE {LentFor(blocks[k]) : k \in 1..Len(blocks)} \cup {ArenaState}

\* heap.cog, Scratch: "deinit() rewinds the arena to the checkpoint captured by
\* begin()" - unless the arena was reset meanwhile, every block is as full as it
\* was, and the blocks added since are empty.
RewindRestores ==
  [][(ScratchEnd /\ scopes[Len(scopes)].fresh) =>
       LET before == scopes[Len(scopes)].before IN
       \A k \in 1..Len(blocks') :
         blocks'[k].used = IF k <= Len(before) THEN before[k] ELSE 0]_avars

ArenaContract == INSTANCE AllocatorContract WITH
  Addresses <- 1..(AddressSpace - 1),
  regions <- live,
  scopes <- [k \in 1..Len(scopes) |-> scopes[k].kept],
  open <- Ready

\* The arena is an allocator: what a client holds is aligned and never overlaps,
\* and the end of a scratch scope gives back exactly what is younger than it.
ImplementsAllocator == ArenaContract!Spec
=============================================================================
