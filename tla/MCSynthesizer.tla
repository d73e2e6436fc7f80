--------------------------- MODULE MCSynthesizer ----------------------------
(***************************************************************************)
(* Synthesis problems over three leaves for TLC.  The checks are evaluated *)
(* and bounded by the compiled formulas of Constraint; a predicate is a    *)
(* formula without interval bounds, which may not declare what it reads.   *)
(***************************************************************************)
EXTENDS Synthesizer

F == INSTANCE Constraint

CheckHolds(c, val)    == F!EvalF(c.code, val)
CheckFeasible(c, rng) == F!FeasibleF(c.code, rng)

x == F!Var(1)
y == F!Var(2)
z == F!Var(3)
Sum(a, b) == F!Apply("add", <<a, b>>)

Symbolic(f)       == [deps |-> F!Variables(f), unknown |-> FALSE, symbolic |-> TRUE, code |-> F!Compile(f)]
Predicate(f)      == [deps |-> F!Variables(f), unknown |-> FALSE, symbolic |-> FALSE, code |-> F!Compile(f)]
Opaque(f)         == [deps |-> {}, unknown |-> TRUE, symbolic |-> FALSE, code |-> F!Compile(f)]

\* x + y <= z, |x - y| >= 1, x * z = y or z > 0, and a fixed verdict.
Ordered  == F!Compare("le", Sum(x, y), z)
Apart    == F!Compare("ge", F!Apply("abs", <<F!Apply("sub", <<x, y>>)>>), F!Const(1))
Product  == F!Or(F!Compare("eq", F!Apply("mul", <<x, z>>), y), F!Compare("gt", z, F!Const(1)))
Distinct == F!Compare("ne", y, z)

CheckLists ==
  { <<>>,
    <<Symbolic(Ordered), Predicate(Apart)>>,
    <<Symbolic(Product), Symbolic(Distinct), Symbolic(F!Always)>>,
    <<Opaque(Apart), Symbolic(Ordered), Symbolic(Product)>>,
    <<Symbolic(F!Never), Symbolic(Apart)>> }

Domains ==
  { <<{-1, 0, 2}, {0, 1}, {1, 2}>>,
    <<{2}, {-1, 1, 2}, {0, 3}>> }

Problem(domain, prim, checks, policy, pruning, shuffle, maxNodes) ==
  [domain |-> domain, prim |-> [l \in Leaf |-> prim], base |-> [l \in Leaf |-> 0], checks |-> checks,
   policy |-> policy, pruning |-> pruning, shuffle |-> shuffle, maxNodes |-> maxNodes]

Wide == Between(-128, 127)

\* Every check list and domain; the options one at a time.
MCProblems ==
  {Problem(d, Wide, c, "MostConstrainedFirst", TRUE, FALSE, 50) : d \in Domains, c \in CheckLists}
    \cup {Problem(d, Wide, c, "SmallestDomainFirst", TRUE, FALSE, 5) : d \in Domains, c \in CheckLists}
    \cup {Problem(d, Wide, c, "Declaration", FALSE, FALSE, 50) : d \in Domains, c \in CheckLists}

\* Shuffled loops, with and without enough budget.
MCShuffled ==
  {Problem(d, Wide, c, "Declaration", TRUE, TRUE, m) :
     d \in Domains, c \in {<<Symbolic(Ordered), Predicate(Apart)>>}, m \in {6, 50}}

Enumerate(limit) == [op |-> "enumerate", limit |-> limit]
Count(limit)     == [op |-> "count", limit |-> limit]
Nearest(target, norm, fixed) == [op |-> "nearest", target |-> target, norm |-> norm, fixed |-> fixed]
Repair(n, coin)  == [op |-> "min_conflicts", steps |-> n, explore |-> coin]

MCEnumerateCalls == {Enumerate(0), Enumerate(1), Enumerate(2), Enumerate(99), Count(3), Count(99), Repair(0, {FALSE})}
MCNearestCalls ==
  {Nearest(<<t, t, 0>>, norm, f) : t \in {0, 1}, norm \in Norm, f \in {0, 1}}
MCShuffledCalls == {Enumerate(2), Enumerate(99), Nearest(<<1, 0, 1>>, "L2", 0), Repair(2, {FALSE})}

\* With a predicate that declares no decision leaf and reads x.  The other check has
\* local repair move x and cannot be satisfied.
Lying == [Opaque(F!Compare("lt", x, F!Const(1))) EXCEPT !.unknown = FALSE]
StreamProblems ==
  MCProblems \cup {Problem(d, Wide, <<Lying, Symbolic(F!Compare("gt", x, F!Const(9)))>>,
                           "Declaration", FALSE, FALSE, 50) : d \in Domains}
StreamCalls == MCEnumerateCalls \cup {Repair(2, {FALSE})}

\* Every problem with every call.  Domains larger than SampleCap = 2 are sampled.
MCRepairCalls  == {Repair(2, {FALSE}), Repair(2, {TRUE}), Repair(3, BOOLEAN)}
SearchProblems == MCProblems \cup MCShuffled
SearchCalls    == MCEnumerateCalls \cup MCNearestCalls \cup MCShuffledCalls \cup MCRepairCalls

\* A leaf of eight unsigned bits whose domain holds a number it cannot store.
Byte == Between(0, 255)
SaturatedProblems ==
  {Problem(<<{1}, {300}, {0}>>, Byte, <<Symbolic(F!Compare("le", Sum(x, y), F!Const(256)))>>,
           "Declaration", pruning, FALSE, 200) : pruning \in BOOLEAN}
SaturatedCalls == {Enumerate(99)}
=============================================================================
