---------------------------- MODULE MCArithmetic ----------------------------
(* Instances of Arithmetic for TLC: narrow widths, every value on the left. *)
EXTENDS Arithmetic

SmallBits == [w \in Widths |-> CASE w = 8 -> 4 [] w = 16 -> 5 [] w = 32 -> 6 [] w = 64 -> 7]

SmallHalf == [w \in Widths |-> 2^(SmallBits[w] - 1)]

SmallPrecision == [k \in FloatKinds |-> IF k = "f32" THEN 5 ELSE 6]

SmallGreatest == [k \in FloatKinds |-> IF k = "f32" THEN 496 ELSE 1008]

(* On the right, what is near the limits of a kind or has a product there. *)
NearLimits == (-12 .. 12) \cup UNION {{m - 1, m, m + 1} : m \in UNION {{-SmallHalf[w], SmallHalf[w], 2 * SmallHalf[w]} : w \in Widths}}
=============================================================================
