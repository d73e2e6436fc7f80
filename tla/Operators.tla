------------------------------ MODULE Operators ------------------------------
(***************************************************************************)
(* The registry's numeric operators (TypeRegistry.cpp): element by element *)
(* in the operands' own type if they agree in it, else as doubles, stored  *)
(* back into the first operand's type.  Doubles have Mantissa bits.        *)
(***************************************************************************)
EXTENDS Integers, Sequences, FiniteSets

CONSTANTS
  Operands,    \* arrays: a primitive, a shape and elements
  Mantissa

VARIABLES
  left, right, \* the operands of the last call
  sums         \* what each operator gave: at most one array

operatorVars == <<left, right, sums>>

Binaries == {"add", "sub", "mul", "div", "min", "max"}
Orders   == {"eq", "ne", "lt", "le", "gt", "ge"}

Bool == [t |-> "bool", signed |-> FALSE, bits |-> 1]

Least(prim)    == IF prim.signed THEN -(2 ^ (prim.bits - 1)) ELSE 0
Greatest(prim) == IF prim.signed THEN 2 ^ (prim.bits - 1) - 1 ELSE 2 ^ prim.bits - 1

Magnitude(x) == IF x < 0 THEN -x ELSE x

\* The nearest double, the even one of two.
Double(x) ==
  LET a == Magnitude(x)
      e == CHOOSE n \in 0 .. a : a < 2 ^ (Mantissa + n) /\ \A k \in 0 .. n - 1 : a >= 2 ^ (Mantissa + k)
      down == a \div 2 ^ e
      twice == 2 * (a % 2 ^ e)
      near == IF twice > 2 ^ e \/ (twice = 2 ^ e /\ e > 0 /\ down % 2 = 1) THEN down + 1 ELSE down
  IN (IF x < 0 THEN -1 ELSE 1) * near * 2 ^ e

\* store_from_double.
Saturate(prim, x) ==
  IF prim = Bool THEN IF x = 0 THEN 0 ELSE 1
  ELSE IF x > Greatest(prim) THEN Greatest(prim) ELSE IF x < Least(prim) THEN Least(prim) ELSE x

Wrap(prim, x) == Least(prim) + ((x - Least(prim)) % 2 ^ prim.bits)

Truncated(x, y) == (IF (x < 0) = (y < 0) THEN 1 ELSE -1) * (Magnitude(x) \div Magnitude(y))

\* The operator on integers; no quotient by zero, nor of the least number by minus one.
Result(op, prim, x, y) ==
  CASE op = "add" -> {x + y}
    [] op = "sub" -> {x - y}
    [] op = "mul" -> {x * y}
    [] op = "min" -> {IF x < y THEN x ELSE y}
    [] op = "max" -> {IF x < y THEN y ELSE x}
    [] op = "div" -> IF y = 0 \/ (prim.signed /\ x = Least(prim) /\ y = -1) THEN {} ELSE {Truncated(x, y)}

\* Mutant: types of one size count as one.
NativeBySize(a, b) == a.prim.bits = b.prim.bits /\ a.prim # Bool

Native(a, b) == a.prim = b.prim /\ a.prim # Bool

\* The shape of the result: that of both, or of the one that is not a single element.
Broadcast(a, b) ==
  IF a.shape = b.shape \/ Len(b.elements) = 1 THEN {a.shape} ELSE IF Len(a.elements) = 1 THEN {b.shape} ELSE {}

At(a, i) == IF Len(a.elements) = 1 THEN a.elements[1] ELSE a.elements[i]

Count(shape) == IF shape = <<>> THEN 1 ELSE shape[1]

Array(prim, shape, elements) == [prim |-> prim, shape |-> shape, elements |-> elements]

\* Quotients of different types are fractions of doubles: not modelled.
Binary(op, a, b) ==
  LET prim == a.prim
      one(x, y) == IF Native(a, b) THEN {Wrap(prim, z) : z \in Result(op, prim, x, y)}
                   ELSE {Saturate(prim, Double(z)) : z \in Result(op, prim, Double(x), Double(y))}
  IN UNION {LET each == [i \in 1 .. Count(shape) |-> one(At(a, i), At(b, i))]
            IN IF \E i \in DOMAIN each : each[i] = {} THEN {}
               ELSE {Array(prim, shape, [i \in DOMAIN each |-> CHOOSE z \in each[i] : TRUE])}
            : shape \in Broadcast(a, b)}

Ordered(op, x, y) ==
  CASE op = "eq" -> x = y [] op = "ne" -> x # y [] op = "lt" -> x < y
    [] op = "le" -> x <= y [] op = "gt" -> x > y [] op = "ge" -> x >= y

Compare(op, a, b) ==
  LET number(x) == IF a.prim = b.prim THEN x ELSE Double(x)
  IN {Array(Bool, shape, [i \in 1 .. Count(shape) |-> IF Ordered(op, number(At(a, i)), number(At(b, i))) THEN 1 ELSE 0])
        : shape \in Broadcast(a, b)}

\* neg and abs go through doubles in every type.
Unary(op, a) ==
  {Array(a.prim, a.shape, [i \in DOMAIN a.elements |->
     LET x == Double(a.elements[i]) IN Saturate(a.prim, IF op = "neg" THEN -x ELSE Magnitude(x))])}

OperatorsInit == left = <<>> /\ right = <<>> /\ sums = <<>>

Operate ==
  /\ sums = <<>>
  /\ left' \in Operands /\ right' \in Operands
  /\ sums' = [op \in Binaries \cup Orders \cup {"neg", "abs"} |->
                CASE op \in Binaries -> IF op = "div" /\ ~Native(left', right') THEN {} ELSE Binary(op, left', right')
                  [] op \in Orders   -> Compare(op, left', right')
                  [] OTHER           -> Unary(op, left')]
-----------------------------------------------------------------------------
(* Property.                                                               *)

Exact(x) == Double(x) = x
Clamped(prim, x) == CHOOSE z \in Least(prim) .. Greatest(prim) :
                      \A y \in Least(prim) .. Greatest(prim) : Magnitude(z - x) <= Magnitude(y - x)

(* Between numbers of one type the operators wrap around and are exact     *)
(* otherwise; of two types they give the nearest number of the first, and  *)
(* never wrap, if doubles hold the operands and the result; an order is    *)
(* never reversed, and strict if doubles hold both; a result stays in its  *)
(* type, and is refused only when the shapes differ or a quotient has no   *)
(* value.                                                                  *)
OperatorsAreExact ==
  sums # <<>> =>
    LET exact(op, x, y) == CHOOSE z \in Result(op, [signed |-> FALSE], x, y) : TRUE
        agree   == left.prim = right.prim
        numbers == left.prim # Bool
    IN /\ \A op \in DOMAIN sums : \A r \in sums[op] :
            /\ r.prim = (IF op \in Orders THEN Bool ELSE left.prim)
            /\ \A i \in DOMAIN r.elements : r.elements[i] \in Least(r.prim) .. Greatest(r.prim)
       /\ \A op \in Binaries : \A r \in sums[op] : \A i \in DOMAIN r.elements :
            LET x == At(left, i)  y == At(right, i)  z == exact(op, x, y)
            IN /\ agree /\ numbers => (r.elements[i] - z) % 2 ^ r.prim.bits = 0
               /\ ~agree /\ numbers /\ Exact(x) /\ Exact(y) /\ Exact(z) => r.elements[i] = Clamped(r.prim, z)
       /\ \A op \in Orders : \A r \in sums[op] : \A i \in DOMAIN r.elements :
            LET x == At(left, i)  y == At(right, i)
            IN /\ agree \/ (Exact(x) /\ Exact(y)) => (r.elements[i] = 1) = Ordered(op, x, y)
               /\ op \in {"lt", "gt"} /\ r.elements[i] = 1 => Ordered(op, x, y)
       /\ \A op \in (Binaries \ {"div"}) \cup Orders : sums[op] = {} =>
            left.shape # right.shape /\ Len(left.elements) # 1 /\ Len(right.elements) # 1
=============================================================================
