----------------------------- MODULE CArithmetic -----------------------------
(***************************************************************************)
(* The arithmetic of the C text the C backend writes (backend_c.c), with C's *)
(* own rules: signed 64-bit operations that leave int64_t are undefined,    *)
(* uint64_t wraps, a conversion to a narrower type keeps the low bits, and  *)
(* abort() is a failure of the program.                                     *)
(***************************************************************************)
EXTENDS Floats, FiniteSetsExt

(* A signed operation of C on int64_t. *)
Int64(n) == IF -Half[64] <= n /\ n < Half[64] THEN Value(n) ELSE Undefined

UInt64(n) == n % (2 * Half[64])

(* Conversion of an operation's 64-bit result to the type of its kind. *)
ToResultType(outcome, kind) ==
    IF outcome.is = "value" THEN Value(integer_value_from_bit_pattern(outcome.v, kind)) ELSE outcome

(* The bits of a result, decoded by the sign bit the emitted text tests: the *)
(* least value plus the low bits, in int64_t.                               *)
decode_bits(bits, kind) ==
    IF kind \in SignedKinds /\ bits >= HalfSpan(kind)
    THEN Int64(-HalfSpan(kind) + (bits - HalfSpan(kind)))
    ELSE Value(bits)

integer_constant_expr(pattern, kind) ==
    IF kind \in SignedKinds /\ pattern >= HalfSpan(kind)
    THEN Int64(-(Span(kind) - pattern))
    ELSE Value(pattern)

(* "%a" writes the hexadecimal notation of a finite value, and a word that  *)
(* is no constant of C for any other.                                       *)
scalar_constant_expr(x) == IF x.is = "value" THEN x ELSE Undefined

emit_wrapping_integer_instruction(operation, left, right, kind) ==
    LET l == UInt64(left)
        r == UInt64(right)
    IN  decode_bits(UInt64(CASE operation = "add" -> l + r
                             [] operation = "sub" -> l - r
                             [] operation = "mul" -> l * r
                             [] operation = "neg" -> -l) % Span(kind), kind)

emit_shift_instruction(operation, left, kind, count) ==
    LET mask == Span(kind) - 1
        bits == UInt64(left) % Span(kind)
        fill == IF kind \in SignedKinds /\ bits >= HalfSpan(kind) /\ count # 0
                THEN mask - (mask \div 2^count) ELSE 0
    IN  FailsIf(count < 0 \/ UInt64(count) >= Width(kind),
                decode_bits(IF operation = "shl" THEN UInt64(bits * 2^count) % Span(kind)
                            ELSE (bits \div 2^count) + fill, kind))

(***************************************************************************)
(* Checked operations: the test that aborts comes before the operation and  *)
(* is written so as not to overflow itself.                                 *)
(***************************************************************************)
(* The case of two negative factors forgotten. *)
SlipMultiplyAborts(a, b, min, max) ==
    /\ a # 0 /\ b # 0
    /\ \/ a = -1 /\ b = min
       \/ b = -1 /\ a = min
       \/ a > 0 /\ b > 0 /\ a > Quotient(max, b)
       \/ a > 0 /\ b < 0 /\ b < Quotient(min, a)
       \/ a < 0 /\ b > 0 /\ a < Quotient(min, b)

MultiplyAborts(a, b, min, max) ==
    /\ a # 0 /\ b # 0
    /\ \/ a = -1 /\ b = min
       \/ b = -1 /\ a = min
       \/ a > 0 /\ b > 0 /\ a > Quotient(max, b)
       \/ a > 0 /\ b < 0 /\ b < Quotient(min, a)
       \/ a < 0 /\ b > 0 /\ a < Quotient(min, b)
       \/ a < 0 /\ b < 0 /\ a < Quotient(max, b)

checked_signed(operation, a, b, kind) ==
    LET min == MinOf(kind)
        max == MaxOf(kind)
    IN  CASE operation = "add" -> FailsIf((b > 0 /\ a > max - b) \/ (b < 0 /\ a < min - b),
                                          Int64(a + b))
          [] operation = "sub" -> FailsIf((b < 0 /\ a > max + b) \/ (b > 0 /\ a < min + b),
                                          Int64(a - b))
          [] operation = "mul" -> FailsIf(MultiplyAborts(a, b, min, max), Int64(a * b))
          [] operation = "div" -> FailsIf(b = 0 \/ (a = min /\ b = -1), Int64(Quotient(a, b)))
          [] operation = "rem" -> FailsIf(b = 0 \/ (a = min /\ b = -1), Int64(Remainder(a, b)))
          [] operation = "neg" -> FailsIf(a = min, Int64(-a))

checked_unsigned(operation, a, b, kind) ==
    LET max == MaxOf(kind)
    IN  CASE operation = "add" -> FailsIf(a > UInt64(max - b), Value(UInt64(a + b)))
          [] operation = "sub" -> FailsIf(a < b, Value(UInt64(a - b)))
          [] operation = "mul" -> FailsIf(b # 0 /\ a > max \div b, Value(UInt64(a * b)))
          [] operation = "div" -> FailsIf(b = 0, Value(a \div b))
          [] operation = "rem" -> FailsIf(b = 0, Value(a % b))
          [] operation = "neg" -> FailsIf(a # 0, Value(0))

emit_checked_integer_instruction(operation, left, right, kind) ==
    ToResultType(IF kind \in SignedKinds THEN checked_signed(operation, left, right, kind)
                 ELSE checked_unsigned(operation, left, right, kind), kind)

(***************************************************************************)
(* Conversions.                                                             *)
(***************************************************************************)
checked_integer_cast(value, from, kind) ==
    LET narrower == WidthOf[kind] < 64
        aborts   == IF from \in SignedKinds
                    THEN IF kind \in SignedKinds
                         THEN narrower /\ (value < MinOf(kind) \/ value > MaxOf(kind))
                         ELSE value < 0 \/ (narrower /\ UInt64(value) > MaxOf(kind))
                    ELSE (kind \in SignedKinds \/ narrower) /\ value > MaxOf(kind)
    IN  FailsIf(aborts, ToResultType(Value(value), kind))

(* The bounds are doubles: for the narrow signed types the first integer    *)
(* below the range, for 64 bits, where that is no double, the range itself. *)
checked_float_to_integer_cast(x, kind) ==
    LET aborts ==
          \/ x.is # "value"
          \/ IF kind \in SignedKinds
             THEN \/ IF WidthOf[kind] = 64 THEN Below(x, -2 * HalfSpan(kind))
                     ELSE AtMost(x, -2 * (HalfSpan(kind) + 1))
                  \/ AtLeast(x, 2 * HalfSpan(kind))
             ELSE AtMost(x, -2) \/ AtLeast(x, 2 * Span(kind))
        n == TowardsZero(x.v)
    IN  IF aborts THEN Fails ELSE IF n \in ValuesOf(kind) THEN Value(n) ELSE Undefined

emit_checked_cast_instruction(x, from, kind) ==
    IF from = kind THEN x
    ELSE IF kind \in IntegerKinds
    THEN IF from \in IntegerKinds THEN checked_integer_cast(x.v, from, kind)
         ELSE checked_float_to_integer_cast(x, kind)
    ELSE IF from = "f64" /\ kind = "f32"
    THEN FailsIf(x.is = "value" /\ (Above(x, Greatest["f32"]) \/ Below(x, -Greatest["f32"])),
                 Narrowed(x, "f32"))
    ELSE IF from \in IntegerKinds THEN FloatOfInteger(x.v, kind) ELSE x

emit_truncating_integer_instruction(value, kind) ==
    decode_bits(UInt64(value) % Span(kind), kind)

(***************************************************************************)
(* Plain operators: comparisons and operations on bits.                     *)
(***************************************************************************)
Bit(n, i) == (n \div 2^i) % 2

Bitwise(operation, left, right, width) ==
    LET combined(i) ==
          CASE operation = "and" -> Bit(left, i) * Bit(right, i)
            [] operation = "or"  -> Bit(left, i) + Bit(right, i) - Bit(left, i) * Bit(right, i)
            [] operation = "xor" -> (Bit(left, i) + Bit(right, i)) % 2
    IN  MapThenSumSet(LAMBDA i : combined(i) * 2^i, 0 .. width - 1)

Compares(operation, left, right) ==
    CASE operation = "eq" -> left = right [] operation = "ne" -> left # right
      [] operation = "lt" -> left < right [] operation = "le" -> left <= right
      [] operation = "gt" -> left > right [] operation = "ge" -> left >= right

emit_comparison(operation, left, right) == Value(IF Compares(operation, left, right) THEN 1 ELSE 0)

(* C promotes the operands, works on their bits and narrows the result. *)
emit_bitwise(operation, left, right, kind) ==
    ToResultType(Value(Bitwise(operation, UInt64(left), UInt64(right), Bits[64])), kind)

emit_bit_not(operand, kind) == ToResultType(Value(-operand - 1), kind)
=============================================================================
