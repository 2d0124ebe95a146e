--------------------------- MODULE LlvmArithmetic ---------------------------
(***************************************************************************)
(* The arithmetic of the instructions the LLVM backend builds               *)
(* (llvm/lower_integer.c, llvm/lower_float.c).  LLVM integers carry no sign: *)
(* a value of width w is a pattern of Bits[w] bits, and the instruction     *)
(* chooses the reading.  A shift by the width or more, a signed division    *)
(* that overflows and a float out of the integer's range give poison.       *)
(***************************************************************************)
EXTENDS CArithmetic

Signed(pattern, kind) ==
    IF pattern >= HalfSpan(kind) THEN pattern - Span(kind) ELSE pattern

Reading(pattern, kind) == IF kind \in SignedKinds THEN Signed(pattern, kind) ELSE pattern

Pattern(n, kind) == n % Span(kind)

(* llvm.{s,u}{add,sub,mul}.with.overflow: the low bits, and whether the     *)
(* exact result in the chosen reading has more.                             *)
lower_overflow_checked_binary(operation, lhs, rhs, kind) ==
    LET l     == Reading(lhs, kind)
        r     == Reading(rhs, kind)
        exact == CASE operation = "add" -> l + r
                   [] operation = "sub" -> l - r
                   [] operation = "mul" -> l * r
    IN  FailsIf(exact \notin ValuesOf(kind), Value(Pattern(exact, kind)))

lower_checked_div_rem(operation, lhs, rhs, kind) ==
    LET l == Reading(lhs, kind)
        r == Reading(rhs, kind)
        n == IF operation = "div" THEN Quotient(l, r) ELSE Remainder(l, r)
    IN  IF \/ rhs = 0
           \/ kind \in SignedKinds /\ lhs = HalfSpan(kind) /\ rhs = Span(kind) - 1
        THEN Fails
        ELSE IF kind \in SignedKinds /\ Quotient(l, r) \notin ValuesOf(kind) THEN Undefined
        ELSE Value(Pattern(n, kind))

lower_checked_neg(operand, kind) ==
    FailsIf(IF kind \in SignedKinds THEN operand = HalfSpan(kind) ELSE operand # 0,
            Value(Pattern(-operand, kind)))

(* The count is tested against the width of the value as a constant of the  *)
(* count's own type, then brought to the width of the value.                *)
normalize_shift_count(count, kind) == count % Span(kind)

lower_checked_shift(operation, lhs, kind, rhs, countKind) ==
    LET width   == Reading(Pattern(Width(kind), countKind), countKind)
        invalid == \/ Reading(rhs, countKind) < 0
                   \/ Reading(rhs, countKind) >= width
        count   == normalize_shift_count(rhs, kind)
    IN  IF invalid THEN Fails
        ELSE IF count >= Width(kind) THEN Undefined
        ELSE Value(Pattern(IF operation = "shl" THEN lhs * 2^count
                           ELSE Reading(lhs, kind) \div 2^count, kind))

(* Constants are built in the width of the source, from its low bits. *)
lower_checked_integer_cast(operand, from, kind) ==
    LET narrows  == WidthOf[kind] < WidthOf[from]
        minimum  == Signed(Pattern(-HalfSpan(kind), from), from)
        invalid  ==
          IF from \in SignedKinds
          THEN IF kind \in SignedKinds
               THEN narrows /\ \/ Signed(operand, from) < minimum
                               \/ Signed(operand, from) > MaxOf(kind)
               ELSE \/ Signed(operand, from) < 0
                    \/ narrows /\ Signed(operand, from) > MaxOf(kind)
          ELSE IF kind \in SignedKinds
          THEN WidthOf[kind] <= WidthOf[from] /\ operand > MaxOf(kind)
          ELSE narrows /\ operand > MaxOf(kind)
        extended == IF from \in SignedKinds /\ kind \in SignedKinds
                    THEN Signed(operand, from) ELSE operand
    IN  FailsIf(invalid, Value(Pattern(extended, kind)))

(* Every extension by zeros. *)
SlipTruncatingCast(operand, from, kind) == Value(Pattern(operand, kind))

lower_truncating_integer_cast(operand, from, kind) ==
    Value(Pattern(IF from \in SignedKinds THEN Signed(operand, from) ELSE operand, kind))

lower_float_to_integer(x, kind) ==
    LET signed  == kind \in SignedKinds
        tooHigh == AtLeast(x, IF signed THEN 2 * HalfSpan(kind) ELSE 2 * Span(kind))
        tooLow  == CASE signed /\ WidthOf[kind] = 64 -> Below(x, -2 * HalfSpan(kind))
                     [] signed /\ WidthOf[kind] # 64 -> AtMost(x, -2 * (HalfSpan(kind) + 1))
                     [] ~signed -> AtMost(x, -2)
        n       == TowardsZero(x.v)
    IN  IF x.is = "nan" \/ tooHigh \/ tooLow THEN Fails
        ELSE IF x.is = "value" /\ n \in ValuesOf(kind) THEN Value(Pattern(n, kind))
        ELSE Undefined

lower_float_to_float(x, from, kind) ==
    IF from = "f64" /\ kind = "f32"
    THEN FailsIf(/\ Above(x, Greatest["f32"]) \/ Below(x, -Greatest["f32"])
                 /\ x.is # "infinite", Narrowed(x, "f32"))
    ELSE x

lower_checked_numeric_cast(x, from, kind) ==
    IF from \in FloatKinds
    THEN IF kind \in FloatKinds THEN lower_float_to_float(x, from, kind)
         ELSE lower_float_to_integer(x, kind)
    ELSE FloatOfInteger(Reading(x.v, from), kind)

(* Ordered predicates, and the unordered one for "not equal": FloatOrder is *)
(* what C's operators compute as well.                                      *)
FloatOrder(operation, x, y) ==
    IF x.is = "nan" \/ y.is = "nan" THEN operation = "ne"
    ELSE LET rank(z) == IF z.is = "infinite" THEN z.v * (Greatest["f64"] + 1) ELSE z.v
         IN  Compares(operation, rank(x), rank(y))

predicate_for_float_compare(operation, x, y) ==
    Value(IF FloatOrder(operation, x, y) THEN 1 ELSE 0)

(* Comparisons read the patterns with the signedness of the operation. *)
lower_icmp(operation, lhs, rhs, kind) ==
    Value(IF Compares(operation, Reading(lhs, kind), Reading(rhs, kind)) THEN 1 ELSE 0)

llvm_lower_integer_instruction(operation, lhs, rhs, kind) ==
    CASE operation \in {"add", "sub", "mul"} -> lower_overflow_checked_binary(operation, lhs, rhs, kind)
      [] operation \in {"div", "rem"} -> lower_checked_div_rem(operation, lhs, rhs, kind)
      [] operation = "neg" -> lower_checked_neg(lhs, kind)
      [] operation = "wrapping_add" -> Value(Pattern(lhs + rhs, kind))
      [] operation = "wrapping_sub" -> Value(Pattern(lhs - rhs, kind))
      [] operation = "wrapping_mul" -> Value(Pattern(lhs * rhs, kind))
      [] operation = "wrapping_neg" -> Value(Pattern(-lhs, kind))
      [] operation \in {"and", "or", "xor"} -> Value(Bitwise(operation, lhs, rhs, Width(kind)))
      [] operation = "not" -> Value(Span(kind) - 1 - lhs)
=============================================================================
