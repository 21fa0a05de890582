--------------------------------- MODULE Floats ---------------------------------
(***************************************************************************)
(* Go's float64 as far as subtraction and division need it: a float is a   *)
(* whole number of steps, the least positive float being one step, and the *)
(* result of an operation is the float nearest to the exact result.        *)
(*                                                                         *)
(* The floats are the numbers m * g with |m| <= Mantissas and g one of the *)
(* Gaps.  Those of float64 are the case Mantissas = 2^53, Gaps = the powers*)
(* 2^0 to 2^2045 and FloatOne = 2^1074.  An infinite result is left out.   *)
(***************************************************************************)
EXTENDS Integers, FiniteSetsExt

CONSTANTS Mantissas,    \* the greatest mantissa, and one more
          Gaps,         \* distances of neighbouring floats
          FloatOne      \* 1.0 in steps

ASSUME MantissasAssumption == Mantissas \in Nat /\ Mantissas >= 4 /\ Mantissas % 2 = 0
ASSUME GapsAssumption ==
    /\ IsFiniteSet(Gaps) /\ Gaps \subseteq Nat \ {0} /\ 1 \in Gaps
    /\ \A g \in Gaps \ {1} : \E h \in Gaps : g = 2 * h
    /\ \A g, h \in Gaps : g <= h => h % g = 0
ASSUME FloatOneAssumption == FloatOne \in Gaps

\* The distance of the floats around a / b, the numerator not negative.
Gap(a, b) ==
    LET wide == {g \in Gaps : a < b * Mantissas * g}
    IN  IF wide = {} THEN Max(Gaps) ELSE Min(wide)

\* The integer nearest to a / b; of two that are, the even one.
NearestInt(a, b) ==
    LET up == (2 * a + b) \div (2 * b)
    IN  IF (2 * a + b) % (2 * b) = 0 /\ up % 2 = 1 THEN up - 1 ELSE up

\* The float nearest to a / b.
Float(a, b) ==
    LET rounded(n) == Gap(n, b) * NearestInt(n, b * Gap(n, b))
    IN  IF a < 0 THEN -rounded(-a) ELSE rounded(a)

Minus(x, y) == Float(x - y, 1)
DividedBy(x, y) == Float(x * FloatOne, y)

\* math.Floor.
Floor(x) == x \div FloatOne
=================================================================================
