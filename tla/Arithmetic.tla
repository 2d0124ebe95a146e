----------------------------- MODULE Arithmetic -----------------------------
(***************************************************************************)
(* One numeric expression, built operator by operator and computed four     *)
(* times: as README.md's "Numeric Semantics" means it, by the constant      *)
(* evaluator of the analyser, by the C text of the C backend and by the     *)
(* instructions of the LLVM backend.                                        *)
(*                                                                          *)
(* An untyped integer exists in the compiler only; it takes a concrete kind *)
(* when it meets one, and is then lowered to a constant of the generated    *)
(* code.  From there on the expression is a constant for the analyser and a *)
(* computation for the backends, so that folding it or running it must come *)
(* to the same.  A failure is a diagnostic at compile time and a trap at    *)
(* run time.                                                                *)
(***************************************************************************)
EXTENDS LlvmArithmetic

CONSTANTS
    NonFiniteConstants,  \* whether 1.0 / 0.0 and its like are folded
    InexactAdaptation,   \* whether an untyped integer meets a float that cannot hold it
    TriedOperands        \* the integers that are tried as right operands

VARIABLES
    kind,    \* the kind of the expression
    meant,   \* what README.md says it is
    folded,  \* what the constant evaluator makes of it
    c,       \* what the C backend's code computes
    llvm     \* what the LLVM backend's code computes, a pattern of bits

evars == <<kind, meant, folded, c, llvm>>

Absent == [is |-> "absent", v |-> 0]

(***************************************************************************)
(* The meaning of the operations.                                           *)
(***************************************************************************)
Exact(operation, a, b) ==
    CASE operation = "add" -> a + b [] operation = "sub" -> a - b
      [] operation = "mul" -> a * b [] operation = "neg" -> -a
      [] operation = "div" -> Quotient(a, b) [] operation = "rem" -> Remainder(a, b)

Representable(n, k) == IF n \in ValuesOf(k) THEN Value(n) ELSE Fails

MeantChecked(operation, a, b, k) ==
    IF operation \in {"div", "rem"} /\ b = 0 THEN Fails
    ELSE IF operation = "rem" THEN FailsIf(Quotient(a, b) \notin ValuesOf(k), Value(Remainder(a, b)))
    ELSE Representable(Exact(operation, a, b), k)

(* The value of the kind congruent to n. *)
Congruent(n, k) == CHOOSE m \in ValuesOf(k) : (m - n) % Span(k) = 0

MeantShift(operation, a, k, count) ==
    FailsIf(count \notin 0 .. Width(k) - 1,
            Value(IF operation = "shl" THEN Congruent(a * 2^count, k) ELSE a \div 2^count))

MeantBitwise(operation, a, b, k) ==
    Value(CHOOSE m \in ValuesOf(k) :
        \A i \in 0 .. Width(k) - 1 :
            Bit(m % Span(k), i) = 1 <=>
                LET x == Bit(a % Span(k), i) = 1
                    y == Bit(b % Span(k), i) = 1
                IN  CASE operation = "and" -> x /\ y
                      [] operation = "or"  -> x \/ y
                      [] operation = "xor" -> x # y)

MeantCast(x, from, k) ==
    IF k \in IntegerKinds
    THEN IF x.is # "value" THEN Fails
         ELSE Representable(IF from \in FloatKinds THEN TowardsZero(x.v) ELSE x.v, k)
    ELSE IF from \notin FloatKinds THEN FloatOfInteger(x.v, k)
    ELSE FailsIf(x.is = "value" /\ Abs(x.v) > Greatest[k], Narrowed(x, k))

(***************************************************************************)
(* Constants.                                                               *)
(***************************************************************************)
integer_values_bitwise(left, right, k, operation) ==
    Value(integer_value_from_bit_pattern(
        Bitwise(operation, left % Span(k), right % Span(k), Width(k)), k))

(* The kind in which the evaluator works on two untyped constants: the one  *)
(* of higher rank, and u64 before s64.                                      *)
constant_numeric_operation_kind(left, right) ==
    LET kinds == {default_integer_kind_for_value(left), default_integer_kind_for_value(right)}
    IN  CASE "u64" \in kinds -> "u64"
          [] "u64" \notin kinds /\ "s64" \in kinds -> "s64"
          [] kinds = {"s32"} -> "s32"

(* Operands that do not fit the kind of the operation are refused, and so   *)
(* are results that do not.                                                 *)
integer_constant_result(outcome, operands, k) ==
    FailsIf(\E n \in operands : ~integer_value_fits_type(n, k),
            IF outcome.is = "value" THEN classify_checked_integer_result(outcome, k) ELSE Fails)

eval_const_arithmetic(operation, left, right, k) ==
    integer_constant_result(
        IF operation \in {"div", "rem"} THEN eval_const_division(operation, left, right, k)
        ELSE evaluate_checked_integer_binary(operation, left, right, k), {left, right}, k)

eval_const_comparison(operation, left, right) ==
    LET order == integer_value_compare(left, right)
    IN  Value(IF Compares(operation, order, 0) THEN 1 ELSE 0)

eval_const_cast(x, from, k) ==
    IF k \in IntegerKinds
    THEN IF from \in FloatKinds THEN classify_checked_float_to_integer_cast(x, k)
         ELSE classify_checked_integer_cast(x.v, k)
    ELSE const_value_to_float_type(x, from, k)

(* What an untyped integer becomes where a concrete kind is wanted, and     *)
(* what it is meant to become there: an explicit cast to a float rounds, an *)
(* adaptation must not.                                                     *)
try_coerce_constant_to_type(x, k) ==
    IF k \in IntegerKinds THEN FailsIf(~integer_value_fits_type(x.v, k), x)
    ELSE const_value_to_float_type(x, "untyped_int", k)

HoldsExactly(n, k) == k \in FloatKinds => FloatOfInteger(n, k) = Finite(2 * n)

MeantAdaptation(n, k) ==
    IF k \in IntegerKinds THEN Representable(n, k) ELSE FailsIf(~HoldsExactly(n, k), Finite(2 * n))

(* Lowering of a constant to the bits of its type. *)
integer_value_bits(value, k) == value % Span(k)

cog_ir_lower_const_value(x, k) ==
    IF x.is # "value" THEN UNCHANGED <<c, llvm>>
    ELSE IF k \in FloatKinds THEN c' = scalar_constant_expr(x) /\ llvm' = x
    ELSE /\ c' = integer_constant_expr(integer_value_bits(x.v, k), k)
         /\ llvm' = Value(integer_value_bits(x.v, k))

(***************************************************************************)
(* Untyped integer constants.                                               *)
(***************************************************************************)
ArithmeticInit == kind = "none" /\ meant = Absent /\ folded = Absent /\ c = Absent /\ llvm = Absent

Literal(n) ==
    /\ kind = "none"
    /\ kind' = "untyped_int" /\ meant' = Value(n) /\ folded' = Value(n)
    /\ UNCHANGED <<c, llvm>>

Untyped == kind = "untyped_int" /\ folded.is = "value"

UntypedBinary(operation, n) ==
    LET k == constant_numeric_operation_kind(folded.v, n)
    IN  /\ Untyped
        /\ folded' = eval_const_arithmetic(operation, folded.v, n, k)
        /\ meant' = FailsIf({folded.v, n} \ ValuesOf(k) # {}, MeantChecked(operation, meant.v, n, k))
        /\ UNCHANGED <<kind, c, llvm>>

UntypedNegate ==
    LET k == default_integer_kind_for_value(-folded.v)
    IN  /\ Untyped
        /\ folded' = IF k = "none" THEN Fails ELSE evaluate_checked_integer_negation(folded.v, k)
        /\ meant' = FailsIf(-meant.v < -Half[64], Value(-meant.v))
        /\ UNCHANGED <<kind, c, llvm>>

UntypedNot ==
    LET k == default_integer_kind_for_value(folded.v)
    IN  /\ Untyped
        /\ folded' = integer_value_bitwise_not(folded.v, k)
        /\ meant' = Value(IF k = "u64" THEN MaxMagnitude - meant.v ELSE -meant.v - 1)
        /\ UNCHANGED <<kind, c, llvm>>

UntypedShift(operation, count) ==
    LET k == default_integer_kind_for_value(folded.v)
    IN  /\ Untyped
        /\ folded' = integer_value_shift(folded.v, k, operation, count)
        /\ meant' = MeantShift(operation, meant.v, k, count)
        /\ UNCHANGED <<kind, c, llvm>>

(* The constant takes the kind of the operation or initializer it meets,   *)
(* and is lowered.                                                          *)
Materialize(k) ==
    /\ Untyped
    /\ HoldsExactly(folded.v, k) \/ InexactAdaptation
    /\ kind' = k
    /\ folded' = try_coerce_constant_to_type(folded, k)
    /\ meant' = MeantAdaptation(meant.v, k)
    /\ cog_ir_lower_const_value(folded', k)

(* The same under an explicit cast. *)
CastConstant(k) ==
    /\ Untyped
    /\ kind' = k
    /\ folded' = eval_const_cast(folded, kind, k)
    /\ meant' = MeantCast(meant, kind, k)
    /\ cog_ir_lower_const_value(folded', k)

(* A floating constant, and a floating value that exists at run time only. *)
FloatConstant(k, x) ==
    /\ kind = "none"
    /\ x.is = "value" \/ NonFiniteConstants
    /\ kind' = k /\ meant' = x /\ folded' = x /\ c' = scalar_constant_expr(x) /\ llvm' = x

RunTimeFloat(k, x) ==
    /\ kind = "none"
    /\ x.is # "value"
    /\ kind' = k /\ meant' = x /\ c' = x /\ llvm' = x
    /\ UNCHANGED folded

(***************************************************************************)
(* Operations on a concrete kind; the right operand is a value of it.       *)
(***************************************************************************)
Typed == kind \in IntegerKinds /\ folded.is = "value" /\ c.is = "value" /\ llvm.is = "value"

Checked(operation, n) ==
    /\ Typed
    /\ meant' = MeantChecked(operation, meant.v, n, kind)
    /\ folded' = eval_const_arithmetic(operation, folded.v, n, kind)
    /\ c' = emit_checked_integer_instruction(operation, c.v, n, kind)
    /\ llvm' = llvm_lower_integer_instruction(operation, llvm.v, n % Span(kind), kind)
    /\ UNCHANGED kind

(* Unary minus is refused on unsigned operands. *)
Negate ==
    /\ Typed
    /\ kind \in SignedKinds
    /\ meant' = MeantChecked("neg", meant.v, 0, kind)
    /\ folded' = evaluate_checked_integer_negation(folded.v, kind)
    /\ c' = emit_checked_integer_instruction("neg", c.v, 0, kind)
    /\ llvm' = llvm_lower_integer_instruction("neg", llvm.v, 0, kind)
    /\ UNCHANGED kind

WrappingName(operation) ==
    CASE operation = "add" -> "wrapping_add" [] operation = "sub" -> "wrapping_sub"
      [] operation = "mul" -> "wrapping_mul" [] operation = "neg" -> "wrapping_neg"

Wrapping(operation, n) ==
    /\ Typed
    /\ meant' = Value(Congruent(Exact(operation, meant.v, n), kind))
    /\ folded' = IF operation = "neg" THEN evaluate_wrapping_integer_negation(folded.v, kind)
                 ELSE evaluate_wrapping_integer_binary(operation, folded.v, n, kind)
    /\ c' = emit_wrapping_integer_instruction(operation, c.v, n, kind)
    /\ llvm' = llvm_lower_integer_instruction(WrappingName(operation), llvm.v, n % Span(kind), kind)
    /\ UNCHANGED kind

BitwiseOp(operation, n) ==
    /\ Typed
    /\ meant' = MeantBitwise(operation, meant.v, n, kind)
    /\ folded' = integer_values_bitwise(folded.v, n, kind, operation)
    /\ c' = emit_bitwise(operation, c.v, n, kind)
    /\ llvm' = llvm_lower_integer_instruction(operation, llvm.v, n % Span(kind), kind)
    /\ UNCHANGED kind

BitNot ==
    /\ Typed
    /\ meant' = Value(Congruent(-1 - meant.v, kind))
    /\ folded' = integer_value_bitwise_not(folded.v, kind)
    /\ c' = emit_bit_not(c.v, kind)
    /\ llvm' = llvm_lower_integer_instruction("not", llvm.v, 0, kind)
    /\ UNCHANGED kind

Shift(operation, countKind, count) ==
    /\ Typed
    /\ meant' = MeantShift(operation, meant.v, kind, count)
    /\ folded' = integer_value_shift(folded.v, kind, operation, count)
    /\ c' = emit_shift_instruction(operation, c.v, kind, count)
    /\ llvm' = lower_checked_shift(operation, llvm.v, kind, count % Span(countKind), countKind)
    /\ UNCHANGED kind

Truncate(k) ==
    /\ Typed
    /\ kind' = k
    /\ meant' = Value(Congruent(meant.v, k))
    /\ folded' = truncate_integer_value(folded.v, k)
    /\ c' = emit_truncating_integer_instruction(c.v, k)
    /\ llvm' = lower_truncating_integer_cast(llvm.v, kind, k)

Comparison(operation, n) ==
    /\ Typed
    /\ kind' = "bool"
    /\ meant' = Value(IF Compares(operation, meant.v, n) THEN 1 ELSE 0)
    /\ folded' = eval_const_comparison(operation, folded.v, n)
    /\ c' = emit_comparison(operation, c.v, n)
    /\ llvm' = lower_icmp(operation, llvm.v, n % Span(kind), kind)

(* A float keeps its form in all three. *)
IsFloat == kind \in FloatKinds /\ c.is \in {"value", "infinite", "nan"}

FloatComparison(operation, x) ==
    /\ IsFloat
    /\ kind' = "bool"
    /\ meant' = Value(IF FloatOrder(operation, meant, x) THEN 1 ELSE 0)
    /\ folded' = IF folded = Absent THEN Absent
                 ELSE Value(IF FloatOrder(operation, folded, x) THEN 1 ELSE 0)
    /\ c' = Value(IF FloatOrder(operation, c, x) THEN 1 ELSE 0)
    /\ llvm' = predicate_for_float_compare(operation, llvm, x)

Cast(k) ==
    /\ Typed \/ IsFloat
    /\ k # kind
    /\ kind' = k
    /\ meant' = MeantCast(meant, kind, k)
    /\ folded' = IF folded = Absent THEN Absent ELSE eval_const_cast(folded, kind, k)
    /\ c' = emit_checked_cast_instruction(c, kind, k)
    /\ llvm' = IF kind \in IntegerKinds /\ k \in IntegerKinds
               THEN lower_checked_integer_cast(llvm.v, kind, k)
               ELSE lower_checked_numeric_cast(llvm, kind, k)

Operations == {"add", "sub", "mul", "div", "rem"}

Comparisons == {"eq", "ne", "lt", "le", "gt", "ge"}

Operands == IF Typed THEN ValuesOf(kind) \cap TriedOperands ELSE {}

OnConstants ==
    \/ \E n \in 0 .. MaxMagnitude : Literal(n)
    \/ \E operation \in Operations, n \in (0 .. MaxMagnitude) \cap TriedOperands : UntypedBinary(operation, n)
    \/ UntypedNegate
    \/ UntypedNot
    \/ \E operation \in {"shl", "shr"}, count \in 0 .. Bits[64] : UntypedShift(operation, count)
    \/ \E k \in IntegerKinds \cup FloatKinds : Materialize(k) \/ CastConstant(k)
    \/ \E k \in FloatKinds : \E x \in Floats(k) : FloatConstant(k, x) \/ RunTimeFloat(k, x)

OnIntegers ==
    \/ \E operation \in Operations, n \in Operands : Checked(operation, n)
    \/ Negate
    \/ \E operation \in {"add", "sub", "mul", "neg"}, n \in Operands : Wrapping(operation, n)
    \/ \E operation \in {"and", "or", "xor"}, n \in Operands : BitwiseOp(operation, n)
    \/ BitNot
    \/ \E operation \in {"shl", "shr"}, k \in IntegerKinds :
         \E count \in ValuesOf(k) \cap TriedOperands : Shift(operation, k, count)
    \/ \E k \in IntegerKinds : Truncate(k)
    \/ \E operation \in Comparisons, n \in Operands : Comparison(operation, n)

OnFloats ==
    \/ \E operation \in Comparisons, x \in Floats("f32") : FloatComparison(operation, x)
    \/ \E k \in IntegerKinds \cup FloatKinds : Cast(k)

ArithmeticNext == OnConstants \/ OnIntegers \/ OnFloats

ArithmeticSpec == ArithmeticInit /\ [][ArithmeticNext]_evars

(***************************************************************************)
(* Properties.                                                              *)
(***************************************************************************)
(* What the constant evaluator accepts has the value README.md gives it, and *)
(* what it refuses is what README.md says fails: no operator, conversion or *)
(* kind is folded with another range, sign or rounding than it runs with    *)
(* (semantic_anal.c, eval_const_expr_impl and what it calls).  Adaptation   *)
(* to a float that cannot hold the integer is left to AdaptationIsExact.    *)
FoldingIsExact == folded # Absent => folded = meant

(* The code of the C backend computes what README.md means and traps where  *)
(* it says so, and none of its tests or operations, at the limits of every  *)
(* width, is undefined in C (backend_c.c).                                  *)
CCodeIsExact == c # Absent => c = meant

(* So does the code of the LLVM backend, whose values carry no sign and     *)
(* whose shifts, divisions and conversions are poison out of range          *)
(* (llvm/lower_integer.c, llvm/lower_float.c).                              *)
LlvmCodeIsExact ==
    llvm # Absent =>
        IF llvm.is = "value" /\ kind \in IntegerKinds
        THEN meant = Value(Reading(llvm.v, kind))
        ELSE llvm = meant

(* "Untyped literals adapt to a concrete operation or destination type only *)
(* when their exact value fits" (README.md:888), "Adaptation succeeds only  *)
(* when the exact value is representable in the destination type"           *)
(* (docs/language.md:1089): nothing try_coerce_constant_to_type accepts is  *)
(* to be refused.                                                           *)
AdaptationIsExact == folded.is = "value" => meant.is = "value"

(* README.md: f32 and f64 follow IEEE-754 "including infinity, NaN", and    *)
(* 1.0 / 0.0 is positive infinity: a constant the analyser accepts is one   *)
(* the C backend can write.                                                 *)
ConstantsAreWritten == folded.is \in {"value", "infinite", "nan"} /\ c # Absent => c # Undefined
=============================================================================
