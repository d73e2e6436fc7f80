------------------------ MODULE MCPartialEvaluation -------------------------
(* Every operator of expressions and constraints over two leaves, with     *)
(* domains that have gaps, straddle zero, and are single points; and       *)
(* invariants that nest constraints and opaque predicates.                 *)
EXTENDS PartialEvaluation

MCLeaf == {"x", "y"}
MCDomains == {{-2, 1}, {-1, 0, 2}, {3}}

Terms ==
  {Apply(op, <<Var("x"), Var("y")>>) : op \in {"add", "sub", "mul", "min", "max"}}
    \cup {Apply("abs", <<Var("x")>>), Apply("neg", <<Var("y")>>)}
    \cup {Apply("mul", <<Apply("sub", <<Var("x"), Const(1)>>), Apply("abs", <<Var("y")>>)>>)}

Comparisons == {Compare(op, e, Const(k)) : op \in Comparison, e \in Terms, k \in {-2, 1}}

Small == {Compare("lt", Var("x"), Const(1)), Compare("eq", Var("y"), Const(-1)),
          Compare("ge", Apply("add", <<Var("x"), Var("y")>>), Const(0))}

Constraints ==
  Comparisons
    \cup {And(a, b) : a, b \in Small}
    \cup {Or(a, Not(b)) : a, b \in Small}
    \cup {And(And(a, Not(b)), Or(b, Or(a, Never))) : a, b \in Small}
    \cup {Not(And(a, Always)) : a \in Small} \cup {Always, Never}

\* Predicates that declare what they read, more, or nothing.
Parts ==
  {Symbolic(c) : c \in Small}
    \cup {Predicate(c, Variables(c)) : c \in Small}
    \cup {Predicate(Compare("lt", Var("x"), Const(1)), {}), Predicate(Compare("lt", Var("x"), Const(1)), MCLeaf)}

MCInvariants ==
  {Symbolic(c) : c \in Constraints}
    \cup {InvAnd(a, InvOr(b, InvNot(a))) : a, b \in Parts}
    \cup {InvOr(a, InvAnd(InvNot(b), a)) : a, b \in Parts}
    \cup {InvNot(InvAnd(InvAnd(a, InvAlways), b)) : a, b \in Parts}
    \cup {Node("and", <<a, InvAnd(b, InvNever), InvAnyOf(<<>>)>>) : a, b \in Parts}
=============================================================================
