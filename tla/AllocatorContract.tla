--------------------------- MODULE AllocatorContract ---------------------------
(***************************************************************************)
(* What an allocator of std.heap promises (docs/stdlib.md, Allocators and  *)
(* Scratch scopes): the regions a client holds are aligned and pairwise    *)
(* disjoint; a scratch scope gives back what was allocated since it began, *)
(* and nothing else; reset gives back everything.  Out of memory aborts.   *)
(***************************************************************************)
EXTENDS Naturals, Sequences

CONSTANT Addresses  \* the addresses of bytes

VARIABLES
  regions,  \* the regions the client holds, oldest first: [at, size, alignment]
  scopes,   \* for each open scratch scope, how many of the regions are older
  open      \* FALSE once the allocator is retired or the program has aborted

vars == <<regions, scopes, open>>

Bytes(r)       == r.at..(r.at + r.size - 1)
Disjoint(r, s) == r.at + r.size <= s.at \/ s.at + s.size <= r.at

Prefix(s, n)   == SubSeq(s, 1, n)
Without(s, i)  == Prefix(s, i - 1) \o SubSeq(s, i + 1, Len(s))

\* When the i-th region goes, the scopes it is older than keep one less.
Older(i) == [k \in 1..Len(scopes) |-> IF i <= scopes[k] THEN scopes[k] - 1 ELSE scopes[k]]

Fresh(r, held) ==
  /\ Bytes(r) \subseteq Addresses
  /\ r.at % r.alignment = 0
  /\ \A k \in 1..Len(held) : Disjoint(r, held[k])

\* The regions become those of kept and one more, fresh with regard to held.
Grows(kept, held) ==
  /\ Len(regions') = Len(kept) + 1
  /\ Prefix(regions', Len(kept)) = kept
  /\ Fresh(regions'[Len(regions')], held)

Init ==
  /\ regions = <<>>
  /\ scopes = <<>>
  /\ open = TRUE

Allocate ==
  /\ open
  /\ Grows(regions, regions)
  /\ UNCHANGED <<scopes, open>>

\* The new region is disjoint from the old one, which it replaces.
Resize(i) ==
  /\ open
  /\ Grows(Without(regions, i), regions)
  /\ scopes' = Older(i)
  /\ UNCHANGED open

Free(i) ==
  /\ open
  /\ regions' = Without(regions, i)
  /\ scopes' = Older(i)
  /\ UNCHANGED open

Begin ==
  /\ open
  /\ scopes' = Append(scopes, Len(regions))
  /\ UNCHANGED <<regions, open>>

End ==
  /\ open /\ Len(scopes) > 0
  /\ regions' = Prefix(regions, scopes[Len(scopes)])
  /\ scopes' = Prefix(scopes, Len(scopes) - 1)
  /\ UNCHANGED open

Reset ==
  /\ open
  /\ regions' = <<>>
  /\ scopes' = [k \in 1..Len(scopes) |-> 0]
  /\ UNCHANGED open

\* Deinitialisation, or an abort.
Close ==
  /\ open /\ open' = FALSE
  /\ regions' = <<>>
  /\ scopes' = <<>>

Next ==
  \/ Allocate \/ Begin \/ End \/ Reset \/ Close
  \/ \E i \in 1..Len(regions) : Resize(i) \/ Free(i)

Spec == Init /\ [][Next]_vars
=============================================================================
