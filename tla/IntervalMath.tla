---------------------------- MODULE IntervalMath ----------------------------
(***************************************************************************)
(* The interval arithmetic and the three-valued comparisons of             *)
(* IntervalMath.hpp, which the constraint tree (Constraint.cpp) and the    *)
(* compiled formulas of the synthesizer share.  Numbers are integers: the  *)
(* roundings, infinities and NaNs of doubles are left out.                 *)
(***************************************************************************)
EXTENDS Integers

True    == "True"
False   == "False"
Unknown == "Unknown"
Tri     == {True, False, Unknown}

Lesser(x, y)  == IF y < x THEN y ELSE x      \* std::min
Greater(x, y) == IF x < y THEN y ELSE x      \* std::max
Magnitude(x)  == IF x < 0 THEN -x ELSE x     \* std::fabs

Interval    == {i \in [lo : Int, hi : Int] : i.lo <= i.hi}
Between(a, b) == [lo |-> a, hi |-> b]
Point(x)    == Between(x, x)
IsPoint(i)  == i.lo = i.hi
Within(x, i) == i.lo <= x /\ x <= i.hi

Add(a, b) == Between(a.lo + b.lo, a.hi + b.hi)
Minus(a)  == Between(-a.hi, -a.lo)

Mul(a, b) ==
  LET p == a.lo * b.lo
      q == a.lo * b.hi
      r == a.hi * b.lo
      s == a.hi * b.hi
  IN Between(Lesser(Lesser(p, q), Lesser(r, s)), Greater(Greater(p, q), Greater(r, s)))

\* Mutant: the magnitude of the negative end is forgotten.
AbsOneSided(a) == IF a.lo >= 0 THEN a ELSE IF a.hi <= 0 THEN Minus(a) ELSE Between(0, a.hi)

Abs(a) ==
  IF a.lo >= 0 THEN a
  ELSE IF a.hi <= 0 THEN Minus(a)
  ELSE Between(0, Greater(-a.lo, a.hi))

MinOf(a, b) == Between(Lesser(a.lo, b.lo), Lesser(a.hi, b.hi))
MaxOf(a, b) == Between(Greater(a.lo, b.lo), Greater(a.hi, b.hi))

Comparison == {"eq", "ne", "lt", "le", "gt", "ge"}

CompareValues(op, x, y) ==
  CASE op = "eq" -> x = y
    [] op = "ne" -> x # y
    [] op = "lt" -> x < y
    [] op = "le" -> x <= y
    [] op = "gt" -> x > y
    [] op = "ge" -> x >= y

\* Mutant: not knowing is taken for knowing that not.
TriNotHasty(t) == IF t = True THEN False ELSE True

TriNot(t) ==
  CASE t = True    -> False
    [] t = False   -> True
    [] t = Unknown -> Unknown

\* True when `yes' is certain, False when `no' is, Unknown otherwise.
Decide(yes, no) == IF yes THEN True ELSE IF no THEN False ELSE Unknown

LessThan(a, b)  == Decide(a.hi < b.lo, a.lo >= b.hi)
AtMost(a, b)    == Decide(a.hi <= b.lo, a.lo > b.hi)

SameValue(a, b) ==
  Decide(a.lo <= b.hi /\ b.lo <= a.hi /\ IsPoint(a) /\ IsPoint(b),
         a.hi < b.lo \/ b.hi < a.lo)

CompareIntervals(op, a, b) ==
  CASE op = "lt" -> LessThan(a, b)
    [] op = "le" -> AtMost(a, b)
    [] op = "gt" -> LessThan(b, a)
    [] op = "ge" -> AtMost(b, a)
    [] op = "eq" -> SameValue(a, b)
    [] op = "ne" -> TriNot(SameValue(a, b))
=============================================================================
