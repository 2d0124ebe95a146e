--------------------------- MODULE ConstantIntegers ---------------------------
(***************************************************************************)
(* The integers of the constant evaluator (semantic_anal.c).  An            *)
(* IntegerValue is a sign and a 64-bit magnitude without a negative zero:   *)
(* an integer of absolute value at most MaxMagnitude.  The widths 8, 16, 32 *)
(* and 64 keep their names and their order; Bits gives the number of bits   *)
(* each of them has in an instance.                                         *)
(*                                                                          *)
(* What an operation yields is an outcome: a value, a failure (a diagnostic *)
(* of the compiler, a trap of the generated code) or an undefined result.   *)
(***************************************************************************)
EXTENDS Integers

CONSTANTS
    Bits,   \* Bits[w]: the bits of the integer types of width w
    Half    \* Half[w] = 2^(Bits[w] - 1), the magnitude of the least signed value

Widths == {8, 16, 32, 64}

(* The widths grow, and the number of bits of the widest type, the bound of *)
(* every shift count, is a value of the narrowest signed type (64 <= 127).  *)
ASSUME BitsAssumption ==
    /\ Bits \in [Widths -> Nat \ {0}]
    /\ Half \in [Widths -> Nat \ {0}]
    /\ \A w \in Widths : Half[w] = 2^(Bits[w] - 1)
    /\ \A v, w \in Widths : v < w => Bits[v] < Bits[w] /\ Half[v] < Half[w]
    /\ Bits[64] < Half[8]

(***************************************************************************)
(* Integer kinds.                                                           *)
(***************************************************************************)
WidthOf ==
    [s8 |-> 8, s16 |-> 16, s32 |-> 32, s64 |-> 64,
     u8 |-> 8, u16 |-> 16, u32 |-> 32, u64 |-> 64]

IntegerKinds == DOMAIN WidthOf

SignedKinds == {"s8", "s16", "s32", "s64"}

Width(kind) == Bits[WidthOf[kind]]

(* Half the number of values of a kind, and the number of its values. *)
HalfSpan(kind) == Half[WidthOf[kind]]

Span(kind) == 2 * HalfSpan(kind)

MinOf(kind) == IF kind \in SignedKinds THEN -HalfSpan(kind) ELSE 0

MaxOf(kind) == IF kind \in SignedKinds THEN HalfSpan(kind) - 1 ELSE Span(kind) - 1

ValuesOf(kind) == MinOf(kind) .. MaxOf(kind)

MaxMagnitude == 2 * Half[64] - 1

(***************************************************************************)
(* Outcomes.                                                                *)
(***************************************************************************)
Value(n) == [is |-> "value", v |-> n]

Fails == [is |-> "fails", v |-> 0]

Undefined == [is |-> "undefined", v |-> 0]

FailsIf(condition, outcome) == IF condition THEN Fails ELSE outcome

(* Division of C and of the evaluator's magnitudes: the quotient is rounded *)
(* towards zero, the remainder has the sign of the dividend.                *)
Quotient(a, b) ==
    LET q == (IF a < 0 THEN -a ELSE a) \div (IF b < 0 THEN -b ELSE b)
    IN  IF (a < 0) = (b < 0) THEN q ELSE -q

Remainder(a, b) == a - b * Quotient(a, b)

(***************************************************************************)
(* Ranges and bit patterns.                                                 *)
(***************************************************************************)
integer_value_fits_type(value, kind) ==
    IF kind = "untyped_int" THEN value >= -Half[64]
    ELSE MinOf(kind) <= value /\ value <= MaxOf(kind)

integer_value_to_bit_pattern(value, kind) == value % Span(kind)

integer_value_from_bit_pattern(pattern, kind) ==
    LET low == pattern % Span(kind)
    IN  IF kind \in SignedKinds /\ low >= HalfSpan(kind) THEN low - Span(kind) ELSE low

truncate_integer_value(value, kind) ==
    LET m == (IF value < 0 THEN -value ELSE value) % Span(kind)
    IN  Value(integer_value_from_bit_pattern(IF value < 0 THEN -m ELSE m, kind))

integer_value_bitwise_not(value, kind) ==
    FailsIf(~integer_value_fits_type(value, kind),
            Value(integer_value_from_bit_pattern(
                Span(kind) - 1 - integer_value_to_bit_pattern(value, kind), kind)))

(***************************************************************************)
(* Shifts: a count is refused when it is negative or at least the width.    *)
(***************************************************************************)
classify_shift_count(value, kind) == value >= 0 /\ value < Width(kind)

integer_value_shift(value, kind, operation, count) ==
    LET pattern == integer_value_to_bit_pattern(value, kind)
        mask    == Span(kind) - 1
        filled  == count # 0 /\ kind \in SignedKinds /\ pattern >= HalfSpan(kind)
        right   == (pattern \div 2^count)
                   + (IF filled THEN mask - (mask \div 2^count) ELSE 0)
    IN  FailsIf(\/ ~classify_shift_count(count, kind)
                \/ ~integer_value_fits_type(value, kind),
                Value(integer_value_from_bit_pattern(
                    IF operation = "shl" THEN pattern * 2^count ELSE right, kind)))

(***************************************************************************)
(* Wrapping builtins.                                                       *)
(***************************************************************************)
evaluate_wrapping_integer_binary(operation, left, right, kind) ==
    LET l == integer_value_to_bit_pattern(left, kind)
        r == integer_value_to_bit_pattern(right, kind)
    IN  FailsIf(~integer_value_fits_type(left, kind) \/ ~integer_value_fits_type(right, kind),
                Value(integer_value_from_bit_pattern(
                    CASE operation = "add" -> l + r
                      [] operation = "sub" -> l - r
                      [] operation = "mul" -> l * r, kind)))

evaluate_wrapping_integer_negation(operand, kind) ==
    FailsIf(~integer_value_fits_type(operand, kind),
            Value(integer_value_from_bit_pattern(
                -integer_value_to_bit_pattern(operand, kind), kind)))

(***************************************************************************)
(* Checked arithmetic: the exact result, if its magnitude has 64 bits, must *)
(* fit the kind of the operation.                                           *)
(***************************************************************************)
integer_value_add(left, right) ==
    FailsIf(left + right > MaxMagnitude \/ left + right < -MaxMagnitude, Value(left + right))

integer_value_subtract(left, right) == integer_value_add(left, -right)

integer_value_multiply(left, right) ==
    FailsIf(left * right > MaxMagnitude \/ left * right < -MaxMagnitude, Value(left * right))

integer_value_negated(value) == -value

integer_value_compare(left, right) ==
    IF left < right THEN -1 ELSE IF left = right THEN 0 ELSE 1

classify_checked_integer_result(exact, kind) ==
    FailsIf(exact.is = "fails" \/ ~integer_value_fits_type(exact.v, kind), exact)

evaluate_checked_integer_binary(operation, left, right, kind) ==
    classify_checked_integer_result(
        CASE operation = "add" -> integer_value_add(left, right)
          [] operation = "sub" -> integer_value_subtract(left, right)
          [] operation = "mul" -> integer_value_multiply(left, right), kind)

evaluate_checked_integer_negation(operand, kind) ==
    classify_checked_integer_result(Value(integer_value_negated(operand)), kind)

(* A division is refused for a zero divisor and where the quotient of the   *)
(* least signed value by -1 leaves the kind.                                *)
SlipDivisionValid(left, right, kind) == right # 0

classify_integer_division(left, right, kind) ==
    /\ right # 0
    /\ ~(kind \in SignedKinds /\ left = MinOf(kind) /\ right = -1)

eval_const_division(operation, left, right, kind) ==
    FailsIf(~classify_integer_division(left, right, kind),
            Value(IF operation = "div" THEN Quotient(left, right) ELSE Remainder(left, right)))

classify_checked_integer_cast(value, kind) ==
    FailsIf(~integer_value_fits_type(value, kind), Value(value))

(* The kind an untyped integer takes when nothing else decides. *)
default_integer_kind_for_value(value) ==
    IF integer_value_fits_type(value, "s32") THEN "s32"
    ELSE IF integer_value_fits_type(value, "s64") THEN "s64"
    ELSE IF integer_value_fits_type(value, "u64") THEN "u64"
    ELSE "none"
=============================================================================
