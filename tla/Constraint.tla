----------------------------- MODULE Constraint -----------------------------
(***************************************************************************)
(* Symbolic constraints.  A constraint is a tree whose comparisons compare *)
(* arithmetic expressions over leaves; it is evaluated on a full           *)
(* assignment and bounded on intervals (Constraint.cpp).  The synthesizer  *)
(* compiles the tree into flat arrays of nodes, children before parents,   *)
(* and evaluates and bounds those instead (Synthesizer.cpp).               *)
(*                                                                         *)
(* `val' maps leaves to numbers, `range' maps them to intervals.  A path   *)
(* and its pre-resolved slot are both the leaf itself.                     *)
(***************************************************************************)
EXTENDS IntervalMath, Sequences

Arithmetic(op, x, y) ==
  CASE op = "add" -> x + y
    [] op = "sub" -> x - y
    [] op = "mul" -> x * y
    [] op = "min" -> Lesser(x, y)
    [] op = "max" -> Greater(x, y)
    [] op = "neg" -> -x
    [] op = "abs" -> Magnitude(x)

IntervalArithmetic(op, a, b) ==
  CASE op = "add" -> Add(a, b)
    [] op = "sub" -> Add(a, Minus(b))
    [] op = "mul" -> Mul(a, b)
    [] op = "min" -> MinOf(a, b)
    [] op = "max" -> MaxOf(a, b)
    [] op = "neg" -> Minus(a)
    [] op = "abs" -> Abs(a)

\* Three-valued conjunction and disjunction of a sequence of verdicts.
TriAnd(ts) ==
  LET verdicts == {ts[k] : k \in DOMAIN ts}
  IN IF False \in verdicts THEN False ELSE IF Unknown \in verdicts THEN Unknown ELSE True
TriOr(ts) ==
  LET verdicts == {ts[k] : k \in DOMAIN ts}
  IN IF True \in verdicts THEN True ELSE IF Unknown \in verdicts THEN Unknown ELSE False
-----------------------------------------------------------------------------
(* The tree: expressions [op, value | path | args], constraints            *)
(* [op, terms] for a comparison and [op, args] for a connective.           *)

Const(k)          == [op |-> "const", value |-> k]
Var(path)         == [op |-> "var", path |-> path]
Apply(op, args)   == [op |-> op, args |-> args]
Compare(op, a, b) == [op |-> op, terms |-> <<a, b>>]
Always            == [op |-> "true"]
Never             == [op |-> "false"]

AllOf(cs) == IF cs = <<>> THEN Always ELSE IF Len(cs) = 1 THEN cs[1] ELSE Apply("and", cs)
AnyOf(cs) == IF cs = <<>> THEN Never  ELSE IF Len(cs) = 1 THEN cs[1] ELSE Apply("or", cs)

\* The operands of a nested && (||) are spliced into the outer one.
Spliced(op, c) == IF c.op = op THEN c.args ELSE <<c>>
And(a, b) == AllOf(Spliced("and", a) \o Spliced("and", b))
Or(a, b)  == AnyOf(Spliced("or", a) \o Spliced("or", b))
Not(c)    == Apply("not", <<c>>)

\* The absent operand of a unary operator repeats the first one.
Second(args) == args[Len(args)]

RECURSIVE Eval(_, _), Bounds(_, _), EvalTree(_, _), FeasibleTree(_, _), Variables(_)

Eval(e, val) ==
  CASE e.op = "const" -> e.value
    [] e.op = "var"   -> val[e.path]
    [] OTHER -> Arithmetic(e.op, Eval(e.args[1], val), Eval(Second(e.args), val))

Bounds(e, range) ==
  CASE e.op = "const" -> Point(e.value)
    [] e.op = "var"   -> range[e.path]
    [] OTHER -> IntervalArithmetic(e.op, Bounds(e.args[1], range), Bounds(Second(e.args), range))

EvalTree(c, val) ==
  CASE c.op = "true"  -> TRUE
    [] c.op = "false" -> FALSE
    [] c.op = "and"   -> \A k \in DOMAIN c.args : EvalTree(c.args[k], val)
    [] c.op = "or"    -> \E k \in DOMAIN c.args : EvalTree(c.args[k], val)
    [] c.op = "not"   -> ~EvalTree(c.args[1], val)
    [] OTHER -> CompareValues(c.op, Eval(c.terms[1], val), Eval(c.terms[2], val))

FeasibleTree(c, range) ==
  CASE c.op = "true"  -> True
    [] c.op = "false" -> False
    [] c.op = "and"   -> TriAnd([k \in DOMAIN c.args |-> FeasibleTree(c.args[k], range)])
    [] c.op = "or"    -> TriOr([k \in DOMAIN c.args |-> FeasibleTree(c.args[k], range)])
    [] c.op = "not"   -> TriNot(FeasibleTree(c.args[1], range))
    [] OTHER -> CompareIntervals(c.op, Bounds(c.terms[1], range), Bounds(c.terms[2], range))

\* The leaves an expression or a constraint reads.
Variables(t) ==
  CASE t.op = "var" -> {t.path}
    [] t.op \in {"const", "true", "false"} -> {}
    [] t.op \in Comparison -> Variables(t.terms[1]) \cup Variables(t.terms[2])
    [] OTHER -> UNION {Variables(t.args[k]) : k \in DOMAIN t.args}
-----------------------------------------------------------------------------
(* The compiled form: [e, f], expression and formula nodes in the order    *)
(* they were pushed; the root is the last formula node.                    *)

RECURSIVE CompileE(_, _), CompileF(_, _), CompileKids(_, _, _)

\* Pushes e and its operands; the index of e is then the length of code.e.
CompileE(e, code) ==
  LET hasArgs == e.op \notin {"const", "var"}
      one == IF hasArgs THEN CompileE(e.args[1], code) ELSE code
      two == IF hasArgs /\ Len(e.args) > 1 THEN CompileE(e.args[2], one) ELSE one
      node == CASE e.op = "const" -> [op |-> "const", constant |-> e.value]
                [] e.op = "var"   -> [op |-> "var", slot |-> e.path]
                [] OTHER          -> [op |-> e.op, a |-> Len(one.e), b |-> Len(two.e)]
  IN [two EXCEPT !.e = Append(@, node)]

CompileKids(cs, code, kids) ==
  IF cs = <<>> THEN [code |-> code, kids |-> kids]
  ELSE LET next == CompileF(Head(cs), code)
       IN CompileKids(Tail(cs), next, Append(kids, Len(next.f)))

CompileF(c, code) ==
  IF c.op \in Comparison
  THEN LET lhs == CompileE(c.terms[1], code)
           rhs == CompileE(c.terms[2], lhs)
       IN [rhs EXCEPT !.f = Append(@, [op |-> c.op, lhs |-> Len(lhs.e), rhs |-> Len(rhs.e)])]
  ELSE LET below == CompileKids(IF c.op \in {"true", "false"} THEN <<>> ELSE c.args, code, <<>>)
       IN [below.code EXCEPT !.f = Append(@, [op |-> c.op, kids |-> below.kids])]

\* Mutant: a negation at the top is lost.
CompilePositive(c) == CompileF(IF c.op = "not" THEN c.args[1] ELSE c, [e |-> <<>>, f |-> <<>>])

Compile(c) == CompileF(c, [e |-> <<>>, f |-> <<>>])

EvalE(code, val) ==
  LET v[i \in DOMAIN code.e] ==
        LET n == code.e[i]
        IN CASE n.op = "const" -> n.constant
             [] n.op = "var"   -> val[n.slot]
             [] OTHER          -> Arithmetic(n.op, v[n.a], v[n.b])
  IN v

BoundE(code, range) ==
  LET b[i \in DOMAIN code.e] ==
        LET n == code.e[i]
        IN CASE n.op = "const" -> Point(n.constant)
             [] n.op = "var"   -> range[n.slot]
             [] OTHER          -> IntervalArithmetic(n.op, b[n.a], b[n.b])
  IN b

EvalF(code, val) ==
  LET v == EvalE(code, val)
      h[i \in DOMAIN code.f] ==
        LET n == code.f[i]
        IN CASE n.op = "true"  -> TRUE
             [] n.op = "false" -> FALSE
             [] n.op = "and"   -> \A k \in DOMAIN n.kids : h[n.kids[k]]
             [] n.op = "or"    -> \E k \in DOMAIN n.kids : h[n.kids[k]]
             [] n.op = "not"   -> ~h[n.kids[1]]
             [] OTHER          -> CompareValues(n.op, v[n.lhs], v[n.rhs])
  IN h[Len(code.f)]

FeasibleF(code, range) ==
  LET b == BoundE(code, range)
      t[i \in DOMAIN code.f] ==
        LET n == code.f[i]
        IN CASE n.op = "true"  -> True
             [] n.op = "false" -> False
             [] n.op = "and"   -> TriAnd([k \in DOMAIN n.kids |-> t[n.kids[k]]])
             [] n.op = "or"    -> TriOr([k \in DOMAIN n.kids |-> t[n.kids[k]]])
             [] n.op = "not"   -> TriNot(t[n.kids[1]])
             [] OTHER          -> CompareIntervals(n.op, b[n.lhs], b[n.rhs])
  IN t[Len(code.f)]
=============================================================================
