------------------------------ MODULE Invariant ------------------------------
(***************************************************************************)
(* Invariants (Invariant.cpp): trees over symbolic constraints and opaque  *)
(* predicates.  What a predicate computes is written as a constraint,      *)
(* which only `holds' may look at; a predicate declares what it reads, or  *)
(* nothing.  A connective has at least two children, or one for Not.       *)
(***************************************************************************)
EXTENDS Constraint

Predicate(truth, dependsOn) == [kind |-> "predicate", truth |-> truth, deps |-> dependsOn]
Symbolic(c)      == [kind |-> "symbolic", constraint |-> c]
Node(kind, kids) == [kind |-> kind, kids |-> kids]

InvAlways == Symbolic(Always)
InvNever  == Symbolic(Never)

InvAllOf(xs) == IF xs = <<>> THEN InvAlways ELSE IF Len(xs) = 1 THEN xs[1] ELSE Node("and", xs)
InvAnyOf(xs) == IF xs = <<>> THEN InvNever  ELSE IF Len(xs) = 1 THEN xs[1] ELSE Node("or", xs)

\* The operands of a nested && (||) are spliced into the outer one.
InvSpliced(kind, x) == IF x.kind = kind THEN x.kids ELSE <<x>>
InvAnd(a, b) == InvAllOf(InvSpliced("and", a) \o InvSpliced("and", b))
InvOr(a, b)  == InvAnyOf(InvSpliced("or", a) \o InvSpliced("or", b))
InvNot(a)    == Node("not", <<a>>)

RECURSIVE Holds(_, _), Explain(_, _), Violations(_, _), Dependencies(_), ToConstraint(_), Feasible(_, _), Flatten(_)

Holds(x, val) ==
  CASE x.kind = "predicate" -> EvalTree(x.truth, val)
    [] x.kind = "symbolic"  -> EvalTree(x.constraint, val)
    [] x.kind = "and"       -> \A k \in DOMAIN x.kids : Holds(x.kids[k], val)
    [] x.kind = "or"        -> \E k \in DOMAIN x.kids : Holds(x.kids[k], val)
    [] x.kind = "not"       -> ~Holds(x.kids[1], val)

\* The first thing that fails, as <<node>>, or with the explanations of all alternatives; <<>>
\* if x holds.
Explain(x, val) ==
  LET failing == {k \in DOMAIN x.kids : Explain(x.kids[k], val) # <<>>}
  IN CASE Holds(x, val)    -> <<>>
       [] ~Holds(x, val) /\ x.kind = "and" ->
            IF failing = {} THEN <<>> ELSE Explain(x.kids[CHOOSE k \in failing : \A j \in failing : k <= j], val)
       [] ~Holds(x, val) /\ x.kind = "or"  -> <<x, [k \in DOMAIN x.kids |-> Explain(x.kids[k], val)]>>
       [] OTHER -> <<x>>

Violations(x, val) ==
  IF x.kind = "and" THEN UNION {Violations(x.kids[k], val) : k \in DOMAIN x.kids}
  ELSE {Explain(x, val)} \ {<<>>}

Unstated == {"unstated"}

\* Mutant: parts that declare nothing are passed over.
DependenciesStated(x) ==
  CASE x.kind = "predicate" -> x.deps
    [] x.kind = "symbolic"  -> Variables(x.constraint)
    [] OTHER -> UNION {Dependencies(x.kids[k]) : k \in DOMAIN x.kids}

\* What x reads, if every part of it declares what it reads.
Dependencies(x) ==
  CASE x.kind = "predicate" -> IF x.deps = {} THEN Unstated ELSE x.deps
    [] x.kind = "symbolic"  -> Variables(x.constraint)
    [] OTHER -> LET below == {Dependencies(x.kids[k]) : k \in DOMAIN x.kids}
                IN IF Unstated \in below THEN Unstated ELSE UNION below

\* <<c>> for an equivalent constraint, <<>> if a part is opaque.
ToConstraint(x) ==
  LET below == [k \in DOMAIN x.kids |-> ToConstraint(x.kids[k])]
      cs    == [k \in DOMAIN x.kids |-> below[k][1]]
  IN CASE x.kind = "predicate" -> <<>>
       [] x.kind = "symbolic"  -> <<x.constraint>>
       [] OTHER -> IF \E k \in DOMAIN below : below[k] = <<>> THEN <<>>
                   ELSE <<CASE x.kind = "not" -> Not(cs[1]) [] x.kind = "and" -> AllOf(cs) [] x.kind = "or" -> AnyOf(cs)>>

Feasible(x, range) ==
  LET below == [k \in DOMAIN x.kids |-> Feasible(x.kids[k], range)]
  IN CASE x.kind = "predicate" -> Unknown
       [] x.kind = "symbolic"  -> FeasibleTree(x.constraint, range)
       [] x.kind = "not"       -> TriNot(below[1])
       [] x.kind = "and"       -> TriAnd(below)
       [] x.kind = "or"        -> TriOr(below)

\* flatten_and: the conjuncts, each one a check of the synthesizer.
Flatten(x) ==
  IF x.kind # "and" THEN <<x>>
  ELSE LET rest[k \in 0 .. Len(x.kids)] == IF k = 0 THEN <<>> ELSE rest[k - 1] \o Flatten(x.kids[k])
       IN rest[Len(x.kids)]
=============================================================================
