------------------------------- MODULE Floats -------------------------------
(***************************************************************************)
(* The floating values conversions tell apart.  A finite float is counted   *)
(* in halves, so that integers, fractions and the neighbours of every       *)
(* integer bound are there; f32 and f64 differ in precision and in their    *)
(* greatest finite value.  Conversions round to nearest, ties to even.      *)
(***************************************************************************)
EXTENDS ConstantIntegers

CONSTANTS
    Precision,  \* Precision[k]: the bits of the significand of the kind k
    Greatest    \* Greatest[k]: the greatest finite value of the kind k, in halves

FloatKinds == {"f32", "f64"}

(* Every value of f32 is a value of f64, f32 reaches past the integers of   *)
(* 64 bits, and no kind holds all the integers of its own width.            *)
ASSUME FloatsAssumption ==
    /\ Precision \in [FloatKinds -> Nat \ {0}]
    /\ Greatest \in [FloatKinds -> Nat \ {0}]
    /\ Precision["f32"] < Precision["f64"] /\ Greatest["f32"] < Greatest["f64"]
    /\ Greatest["f32"] > 4 * Half[64]
    /\ Precision["f32"] < Bits[32] /\ Precision["f64"] < Bits[64]

Abs(n) == IF n < 0 THEN -n ELSE n

(* The least exponent at which the significand of n has the precision of k. *)
ExponentOf(n, k) ==
    CHOOSE e \in 0 .. Abs(n) : /\ Abs(n) \div 2^e < 2^Precision[k]
                               /\ e = 0 \/ Abs(n) \div 2^(e - 1) >= 2^Precision[k]

RoundTo(n, k) ==
    LET unit == 2^ExponentOf(n, k)
        q    == Abs(n) \div unit
        rest == 2 * (Abs(n) % unit)
        up   == rest > unit \/ (rest = unit /\ q % 2 = 1)
        m    == (IF up THEN q + 1 ELSE q) * unit
    IN  IF n < 0 THEN -m ELSE m

FiniteValues(k) == {n \in -Greatest[k] .. Greatest[k] : RoundTo(n, k) = n}

(* A float is a finite value, an infinity or not a number. *)
Finite(n) == Value(n)

Infinite(sign) == [is |-> "infinite", v |-> sign]

NotANumber == [is |-> "nan", v |-> 0]

Floats(k) == {Finite(n) : n \in FiniteValues(k)} \cup {Infinite(1), Infinite(-1), NotANumber}

(* The order of floats against a finite bound: infinities are beyond every  *)
(* bound, and nothing holds of NaN.                                         *)
Below(x, bound) == (x.is = "infinite" /\ x.v < 0) \/ (x.is = "value" /\ x.v < bound)

AtMost(x, bound) == (x.is = "infinite" /\ x.v < 0) \/ (x.is = "value" /\ x.v <= bound)

Above(x, bound) == (x.is = "infinite" /\ x.v > 0) \/ (x.is = "value" /\ x.v > bound)

AtLeast(x, bound) == (x.is = "infinite" /\ x.v > 0) \/ (x.is = "value" /\ x.v >= bound)

(* The hardware's conversions: of an integer (in halves 2 * n) to a float,  *)
(* of a float to a narrower float, of a finite float to an integer.         *)
FloatOfInteger(n, k) == Finite(RoundTo(2 * n, k))

Narrowed(x, k) == IF x.is = "value" THEN Finite(RoundTo(x.v, k)) ELSE x

TowardsZero(n) == Quotient(n, 2)

(***************************************************************************)
(* Conversions of the constant evaluator.                                   *)
(***************************************************************************)
round_float_for_type(x, k) ==
    IF k = "f64" THEN x
    ELSE FailsIf(x.is = "value" /\ Abs(x.v) > Greatest["f32"], Narrowed(x, "f32"))

const_value_to_float_type(x, from, k) ==
    IF from \in FloatKinds THEN round_float_for_type(x, k) ELSE FloatOfInteger(x.v, k)

classify_checked_float_to_integer_cast(x, kind) ==
    IF x.is # "value" \/ Abs(x.v) >= 4 * Half[64] THEN Fails
    ELSE classify_checked_integer_cast(TowardsZero(x.v), kind)
=============================================================================
