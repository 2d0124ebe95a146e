---------------------------- MODULE RunningProgram ----------------------------
(***************************************************************************)
(* What a compiled program rests on while it runs: the operations on       *)
(* numbers its code is made of (Arithmetic), and the memory it asks for,   *)
(* from the arenas and the debug allocator of the runtime (RuntimeArena,   *)
(* DebugAllocator) and from the pools of std.heap (Pool).  They share no   *)
(* state: each keeps to the memory it was lent.  A behaviour here uses one *)
(* of them.                                                                *)
(***************************************************************************)
EXTENDS Arithmetic, RuntimeArena, DebugAllocator, Pool

VARIABLE uses  \* "numbers", "arena", "debug" or "pool"

RunInit == /\ uses \in {"numbers", "arena", "debug", "pool"}
           /\ ArithmeticInit /\ ArenaInit /\ DebugInit /\ Init
Compute  == uses = "numbers" /\ ArithmeticNext /\ UNCHANGED <<uses, avars, hvars, vars>>
UseArena == uses = "arena" /\ ArenaNext /\ UNCHANGED <<uses, evars, hvars, vars>>
UseDebug == uses = "debug" /\ DebugNext /\ UNCHANGED <<uses, evars, avars, vars>>
UsePool  == uses = "pool" /\ Next /\ UNCHANGED <<uses, evars, avars, hvars>>
RunSpec == RunInit /\ [][Compute \/ UseArena \/ UseDebug \/ UsePool]_<<uses, evars, avars, hvars, vars>>
=============================================================================
