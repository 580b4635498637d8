------------------------------- MODULE Floats -------------------------------
(***************************************************************************)
(* f64 as far as the constructors and the likelihoods tell values apart:   *)
(* the whole numbers up to the largest finite one, the two infinities and  *)
(* NaN, each with a number of its own.                                     *)
(***************************************************************************)
EXTENDS Integers

CONSTANT MaxFinite   \* f64::MAX

ASSUME FloatAssumption == MaxFinite \in Nat \ {0}

Infinity == MaxFinite + 1
NegInfinity == -Infinity
NaN == Infinity + 1

Float == NegInfinity..NaN

IsFinite(x) == x \in -MaxFinite..MaxFinite

\* The result of an operation on finite numbers: it overflows to an infinity.
Rounded(x) ==
    IF x > MaxFinite THEN Infinity ELSE IF x < -MaxFinite THEN NegInfinity ELSE x

\* `(low..=high).contains(&x)': NaN is in no range.
Within(x, low, high) == x # NaN /\ low <= x /\ x <= high

\* f64::clamp of a number that is not NaN.
Clamp(x, low, high) == IF x < low THEN low ELSE IF x > high THEN high ELSE x

Magnitude(x) == IF x < 0 THEN -x ELSE x
=============================================================================
