---------------------------- MODULE Synthesizer -----------------------------
(***************************************************************************)
(* The constructive synthesizer (Synthesizer.cpp).  Given decision leaves  *)
(* with finite domains and a list of checks (the conjuncts of the          *)
(* invariants), it enumerates or counts the assignments that satisfy every *)
(* check, finds the one nearest to a target, or searches for one by local  *)
(* repair.  The object is reused: the working buffer survives from one     *)
(* call to the next, and every call resets the statistics and the assigned *)
(* flags.                                                                  *)
(*                                                                         *)
(* A step of the model is one turn of a loop of the code: one value tried, *)
(* one leaf of the search tree visited, one loop left.  Leaves and         *)
(* positions count from 1.  The buffer is the map of decision leaves to    *)
(* numbers; the leaves that are not decisions never change and are left    *)
(* out, except for the cost they add to `nearest'.  Not modelled: the      *)
(* counter of invariant evaluations, the clock, the layout check that      *)
(* makes `nearest' throw before it touches anything.                       *)
(***************************************************************************)
EXTENDS IntervalMath, Sequences, FiniteSetsExt

CONSTANTS
  N,                \* number of decision leaves
  Problems,         \* arguments the constructor may be given, see Problem
  Calls,            \* calls a client may make, see Call
  MaxCalls,         \* bound: calls made on one object
  SampleCap,        \* domains up to this size are scanned whole (64 in the code)
  Holds(_, _),      \* Holds(check, val): the check on a full assignment
  Feasible(_, _)    \* Feasible(check, ranges): its interval bound, for symbolic checks

Leaf     == 1 .. N
Position == 1 .. N
Policy   == {"Declaration", "SmallestDomainFirst", "MostConstrainedFirst"}
Norm     == {"L1", "L2", "LInf", "Hamming"}
Ops      == {"none", "enumerate", "count", "nearest", "min_conflicts"}

(* What the constructor accepts: each leaf has a nonempty domain (a sorted *)
(* set of numbers) and a primitive that stores lo .. hi, `base' is the     *)
(* buffer it copies.  A check has the leaves it declares it reads, or none *)
(* declared (unknown); a symbolic check also has interval bounds.          *)
IsCheck(c) ==
  /\ c.deps \subseteq Leaf
  /\ c.unknown \in BOOLEAN
  /\ c.symbolic \in BOOLEAN

IsProblem(p) ==
  /\ p.domain \in [Leaf -> SUBSET Int]
  /\ \A l \in Leaf : p.domain[l] # {} /\ IsFiniteSet(p.domain[l])
  /\ p.prim \in [Leaf -> Interval]
  /\ p.base \in [Leaf -> Int]
  /\ IsFiniteSet(DOMAIN p.checks)
  /\ \A i \in DOMAIN p.checks : IsCheck(p.checks[i])
  /\ p.policy \in Policy
  /\ p.pruning \in BOOLEAN
  /\ p.shuffle \in BOOLEAN
  /\ p.maxNodes \in Nat

\* enumerate(limit) (solve is enumerate(1)), count(limit), nearest(target,
\* norm) with the cost of the other leaves, min_conflicts(steps, noise) with
\* the outcomes the noise leaves possible for the coin `explore'.
IsCall(c) ==
  CASE c.op \in {"enumerate", "count"} -> c.limit \in Nat
    [] c.op = "nearest" -> c.target \in [Leaf -> Int] /\ c.norm \in Norm /\ c.fixed \in Nat
    [] c.op = "min_conflicts" -> c.steps \in Nat /\ c.explore \in (SUBSET BOOLEAN) \ {{}}
    [] OTHER -> FALSE

ASSUME ConstantsAssumption ==
  /\ N \in Nat
  /\ MaxCalls \in Nat
  /\ SampleCap \in Nat \ {0}
  /\ \A p \in Problems : IsProblem(p)
  /\ \A c \in Calls : IsCall(c)
-----------------------------------------------------------------------------
(* What the constructor derives from its arguments.                        *)

\* store_from_double: a number outside the primitive's range saturates.
Stored(p, l, v) == Lesser(Greater(v, p.prim[l].lo), p.prim[l].hi)

CheckVars(c) == IF c.unknown THEN Leaf ELSE c.deps

Degree(p, l) == Cardinality({i \in DOMAIN p.checks : ~p.checks[i].unknown /\ l \in p.checks[i].deps})

\* The comparison the two sorting policies hand to stable_sort.
Before(p, a, b) ==
  LET smaller == Cardinality(p.domain[a]) < Cardinality(p.domain[b])
      equal   == Cardinality(p.domain[a]) = Cardinality(p.domain[b])
      tighter == Degree(p, a) > Degree(p, b)
      level   == Degree(p, a) = Degree(p, b)
  IN CASE p.policy = "Declaration"          -> FALSE
       [] p.policy = "SmallestDomainFirst"  -> smaller \/ (equal /\ tighter)
       [] p.policy = "MostConstrainedFirst" -> tighter \/ (level /\ smaller)

\* The search orders a stable sort may produce (there is exactly one).
SearchOrders(p) ==
  {o \in Bijection(Position, Leaf) :
     \A i, j \in Position : i < j =>
       ~Before(p, o[j], o[i]) /\ (Before(p, o[i], o[j]) \/ o[i] < o[j])}

\* Mutant: a check that declares nothing is taken for one that reads nothing.
RootChecksDeclared(p) == {i \in DOMAIN p.checks : p.checks[i].deps = {}}

RootChecks(p) == {i \in DOMAIN p.checks : CheckVars(p.checks[i]) = {}}

\* The leaves at the first k positions.
Prefix(o, k) == {o[j] : j \in 1 .. k}

\* Mutants: opaque checks are never ready; a check is ready one leaf late.
ReadyDeclared(p, o, k) ==
  {i \in DOMAIN p.checks :
     o[k] \in p.checks[i].deps /\ p.checks[i].deps \subseteq Prefix(o, k)}
ReadyLate(p, o, k) ==
  {i \in DOMAIN p.checks :
     o[k] \in CheckVars(p.checks[i]) /\ CheckVars(p.checks[i]) \subseteq Prefix(o, k - 1)}

\* Checks whose last leaf, in search order, is the one at position k.
Ready(p, o, k) ==
  {i \in DOMAIN p.checks :
     o[k] \in CheckVars(p.checks[i]) /\ CheckVars(p.checks[i]) \subseteq Prefix(o, k)}

\* Symbolic checks that read the leaf at position k and a later one.
Touching(p, o, k) ==
  {i \in DOMAIN p.checks :
     /\ p.checks[i].symbolic /\ ~p.checks[i].unknown
     /\ o[k] \in p.checks[i].deps
     /\ ~(p.checks[i].deps \subseteq Prefix(o, k))}
-----------------------------------------------------------------------------
(* Evaluation of checks on a buffer w whose leaves `done' are assigned.    *)

Hull(d) == Between(Min(d), Max(d))

Ranges(p, w, done) == [l \in Leaf |-> IF l \in done THEN Point(w[l]) ELSE Hull(p.domain[l])]

RootOk(p, w) == \A i \in RootChecks(p) : Holds(p.checks[i], w)

ReadyHold(p, o, w, k) == \A i \in Ready(p, o, k) : Holds(p.checks[i], w)

\* Mutant: a bound that does not know is taken for one that says False.
PrunedHasty(p, o, w, done, k) ==
  /\ p.pruning
  /\ \E i \in Touching(p, o, k) : Feasible(p.checks[i], Ranges(p, w, done)) # True

Pruned(p, o, w, done, k) ==
  /\ p.pruning
  /\ \E i \in Touching(p, o, k) : Feasible(p.checks[i], Ranges(p, w, done)) = False

Accumulate(norm, cost, diff) ==
  CASE norm = "L1"      -> cost + Magnitude(diff)
    [] norm = "L2"      -> cost + diff * diff
    [] norm = "LInf"    -> Greater(cost, Magnitude(diff))
    [] norm = "Hamming" -> cost + (IF diff = 0 THEN 0 ELSE 1)

\* The choices of one domain value per leaf.
Assignments(p) ==
  {s \in [Leaf -> UNION {p.domain[l] : l \in Leaf}] : \A l \in Leaf : s[l] \in p.domain[l]}

NoCost == -1

NoStats == [nodes |-> 0, prunes |-> 0, backtracks |-> 0, solutions |-> 0, exhausted |-> FALSE]
-----------------------------------------------------------------------------
VARIABLES
  prob,      \* the constructor's arguments
  order,     \* position -> leaf
  work,      \* the working buffer: leaf -> number
  assigned,  \* the leaves whose assigned flag is set
  stats,     \* SynthesisStats
  calls,     \* calls made so far
  call,      \* the call in progress, or the last one
  pc,        \* "idle", "search" (dfs or nearest's rec) or "local"
  pos,       \* depth of the recursion: N + 1 at a leaf of the search tree
  todo,      \* position -> values its loop has not tried yet
  acc,       \* position -> cost of the leaves before it (nearest)
  out,       \* enumerate: the values returned
  tally,     \* count: the number returned
  best,      \* nearest, min_conflicts: the optional value returned, as a set
  bestCost,  \* nearest: cost of best, NoCost for infinity
  steps      \* min_conflicts: iterations done

problemVars == <<prob, order>>
searchVars  == <<pos, todo, acc>>
resultVars  == <<out, tally, best, bestCost>>
vars == <<problemVars, work, assigned, stats, calls, call, pc, searchVars, resultVars, steps>>

Init ==
  /\ prob \in Problems
  /\ order \in SearchOrders(prob)
  /\ work = prob.base
  /\ assigned = {}
  /\ stats = NoStats
  /\ calls = 0
  /\ call = [op |-> "none"]
  /\ pc = "idle"
  /\ pos = 1
  /\ todo = [k \in Position |-> {}]
  /\ acc = [k \in 1 .. N + 1 |-> 0]
  /\ out = <<>>
  /\ tally = 0
  /\ best = {}
  /\ bestCost = NoCost
  /\ steps = 0
-----------------------------------------------------------------------------
(* Depth-first search, shared by enumerate, count and nearest.             *)

\* Enters a call: reset_stats, the root checks, then the loop at position 1.
Begin(c) ==
  /\ pc = "idle" /\ calls < MaxCalls
  /\ c.op \in {"enumerate", "count", "nearest"}
  /\ calls' = calls + 1
  /\ call' = c
  /\ assigned' = {}
  /\ out' = <<>> /\ tally' = 0 /\ best' = {} /\ bestCost' = NoCost
  /\ pos' = 1
  /\ todo' = [k \in Position |-> prob.domain[order[k]]]
  /\ acc' = [k \in 1 .. N + 1 |-> IF c.op = "nearest" THEN c.fixed ELSE 0]
  /\ IF RootOk(prob, work) /\ (c.op # "nearest" => c.limit > 0)
     THEN pc' = "search" /\ stats' = NoStats
     ELSE pc' = "idle"   /\ stats' = [NoStats EXCEPT !.exhausted = TRUE]
  /\ UNCHANGED <<problemVars, work, steps>>

Here == order[pos]

\* Mutant: nearest tries its values in ascending order.
NextAscending == {v \in todo[pos] : \A u \in todo[pos] : v <= u}

\* The value the loop at pos tries next: values ascend; `nearest' takes the
\* closest to the target first (stable_sort); a shuffled loop takes any.
NextValues ==
  LET far(v) == Magnitude(v - call.target[Here])
  IN {v \in todo[pos] : \A u \in todo[pos] :
        IF call.op = "nearest" THEN far(v) < far(u) \/ (far(v) = far(u) /\ v <= u)
        ELSE prob.shuffle \/ v <= u}

NextCost(v) ==
  IF call.op = "nearest" THEN Accumulate(call.norm, acc[pos], v - call.target[Here]) ELSE 0

\* nearest only: no value left at pos can improve on the best.
CutOff(v) == call.op = "nearest" /\ bestCost # NoCost /\ NextCost(v) >= bestCost

\* The loop at pos is about to assign v.
Tries(v) ==
  /\ pc = "search" /\ pos <= N
  /\ v \in NextValues
  /\ ~CutOff(v)

Written(v) == [work EXCEPT ![Here] = Stored(prob, Here, v)]

\* The checks consistent_at(pos) evaluates, with v written and assigned.
ChecksHold(v) == ReadyHold(prob, order, Written(v), pos)
BoundFails(v) == Pruned(prob, order, Written(v), assigned \cup {Here}, pos)

\* v is consistent: recurse to the next position.
Descend(v) ==
  /\ Tries(v) /\ stats.nodes < prob.maxNodes
  /\ ChecksHold(v) /\ ~BoundFails(v)
  /\ stats' = [stats EXCEPT !.nodes = @ + 1]
  /\ work' = Written(v)
  /\ assigned' = assigned \cup {Here}
  /\ pos' = pos + 1
  /\ todo' = [k \in Position |-> CASE k = pos     -> todo[k] \ {v}
                                    [] k = pos + 1 -> prob.domain[order[k]]
                                    [] OTHER       -> todo[k]]
  /\ acc' = [acc EXCEPT ![pos + 1] = NextCost(v)]
  /\ UNCHANGED <<problemVars, calls, call, pc, resultVars, steps>>

\* v is not: the loop at pos goes on, v stays in the buffer.
Reject(v) ==
  /\ Tries(v) /\ stats.nodes < prob.maxNodes
  /\ ~(ChecksHold(v) /\ ~BoundFails(v))
  /\ stats' = [stats EXCEPT !.nodes = @ + 1, !.prunes = @ + (IF ChecksHold(v) THEN 1 ELSE 0)]
  /\ work' = Written(v)
  /\ assigned' = assigned \ {Here}
  /\ todo' = [todo EXCEPT ![pos] = @ \ {v}]
  /\ UNCHANGED <<problemVars, calls, call, pc, pos, acc, resultVars, steps>>

\* Mutant: the frames return without clearing their flags.
StopDirty(st) ==
  /\ pc' = "idle"
  /\ stats' = [st EXCEPT !.exhausted = FALSE]
  /\ pos' = 1
  /\ UNCHANGED assigned

\* The recursion unwinds at once: every frame clears its flag and returns.
Stop(st) ==
  /\ pc' = "idle"
  /\ stats' = [st EXCEPT !.exhausted = FALSE]
  /\ assigned' = assigned \ Prefix(order, pos - 1)
  /\ pos' = 1

\* The frame at pos returns to the loop at pos - 1, or the call is over.
Return(st) ==
  IF pos = 1
  THEN pc' = "idle" /\ stats' = [st EXCEPT !.exhausted = TRUE] /\ UNCHANGED <<pos, assigned>>
  ELSE /\ pos' = pos - 1
       /\ assigned' = assigned \ {order[pos - 1]}
       /\ stats' = st
       /\ UNCHANGED pc

\* max_nodes assignments have been tried.
GiveUp ==
  /\ pc = "search" /\ pos <= N
  /\ \E v \in NextValues : ~CutOff(v)
  /\ stats.nodes >= prob.maxNodes
  /\ Stop(stats)
  /\ UNCHANGED <<problemVars, work, calls, call, todo, acc, resultVars, steps>>

\* The loop at pos has run out of values.
Backtrack ==
  /\ pc = "search" /\ pos <= N
  /\ todo[pos] = {}
  /\ Return([stats EXCEPT !.backtracks = @ + 1])
  /\ UNCHANGED <<problemVars, work, calls, call, todo, acc, resultVars, steps>>

\* nearest breaks out of the loop at pos: the values left are no closer.
BreakOff ==
  /\ pc = "search" /\ pos <= N
  /\ \E v \in NextValues : CutOff(v)
  /\ Return([stats EXCEPT !.prunes = @ + 1, !.backtracks = @ + 1])
  /\ UNCHANGED <<problemVars, work, calls, call, todo, acc, resultVars, steps>>

Visited == [stats EXCEPT !.solutions = @ + 1]

\* enumerate at a leaf of the tree: keep a copy, stop at the limit.
EmitValue ==
  /\ pc = "search" /\ pos = N + 1 /\ call.op = "enumerate"
  /\ out' = Append(out, work)
  /\ IF Len(out) + 1 < call.limit THEN Return(Visited) ELSE Stop(Visited)
  /\ UNCHANGED <<problemVars, work, calls, call, todo, acc, tally, best, bestCost, steps>>

\* count at a leaf of the tree.
CountValue ==
  /\ pc = "search" /\ pos = N + 1 /\ call.op = "count"
  /\ tally' = tally + 1
  /\ IF tally + 1 < call.limit THEN Return(Visited) ELSE Stop(Visited)
  /\ UNCHANGED <<problemVars, work, calls, call, todo, acc, out, best, bestCost, steps>>

\* nearest at a leaf of the tree: keep it if it is strictly closer.
KeepNearest ==
  /\ pc = "search" /\ pos = N + 1 /\ call.op = "nearest"
  /\ IF bestCost = NoCost \/ acc[pos] < bestCost
     THEN best' = {work} /\ bestCost' = acc[pos]
     ELSE UNCHANGED <<best, bestCost>>
  /\ Return(Visited)
  /\ UNCHANGED <<problemVars, work, calls, call, todo, acc, out, tally, steps>>
-----------------------------------------------------------------------------
(* Local search: min_conflicts.                                            *)

\* Random values everywhere, then the root checks.
BeginLocal(c) ==
  /\ pc = "idle" /\ calls < MaxCalls
  /\ c.op = "min_conflicts"
  /\ calls' = calls + 1
  /\ call' = c
  /\ stats' = NoStats
  /\ \E s \in Assignments(prob) : work' = [l \in Leaf |-> Stored(prob, l, s[l])]
  /\ assigned' = Leaf
  /\ out' = <<>> /\ tally' = 0 /\ best' = {} /\ bestCost' = NoCost
  /\ steps' = 0
  /\ pc' = IF RootOk(prob, work') THEN "local" ELSE "idle"
  /\ UNCHANGED <<problemVars, searchVars>>

\* Mutant: checks that declare nothing are not evaluated.
ViolatedDeclared ==
  {i \in DOMAIN prob.checks : ~prob.checks[i].unknown /\ ~Holds(prob.checks[i], work)}

Violated == {i \in DOMAIN prob.checks : ~Holds(prob.checks[i], work)}

LocalReturn(value, st) ==
  /\ pc' = "idle"
  /\ best' = value
  /\ stats' = st
  /\ UNCHANGED <<problemVars, work, assigned, calls, call, searchVars, out, tally, bestCost, steps>>

\* Mutant: one iteration too many is waited for.
LocalGiveUpLate ==
  /\ pc = "local" /\ steps > call.steps
  /\ LocalReturn({}, stats)

\* The budget of iterations is spent; the outcome of the last move is not looked at.
LocalGiveUp ==
  /\ pc = "local" /\ steps >= call.steps
  /\ LocalReturn({}, stats)

LocalFound ==
  /\ pc = "local" /\ steps < call.steps
  /\ Violated = {}
  /\ LocalReturn({work}, [stats EXCEPT !.solutions = @ + 1])

\* A violated check was drawn that no decision can change.
LocalStuck ==
  /\ pc = "local" /\ steps < call.steps
  /\ \E i \in Violated : CheckVars(prob.checks[i]) = {}
  /\ LocalReturn({}, [stats EXCEPT !.nodes = @ + (IF N = 0 THEN 0 ELSE 1)])

Repaired(l, v) == [work EXCEPT ![l] = Stored(prob, l, v)]

\* Mutant: only the checks that declare the leaf are counted.
ConflictsDeclared(l, v) ==
  Cardinality({i \in DOMAIN prob.checks :
                 l \in prob.checks[i].deps /\ ~Holds(prob.checks[i], Repaired(l, v))})

Conflicts(l, v) ==
  Cardinality({i \in DOMAIN prob.checks :
                 l \in CheckVars(prob.checks[i]) /\ ~Holds(prob.checks[i], Repaired(l, v))})

\* The values scanned for leaf l: its domain, or a sample of it and its value.
CandidateSets(l) ==
  LET d == prob.domain[l]
  IN IF Cardinality(d) <= SampleCap THEN {d}
     ELSE {s \cup {work[l]} : s \in {t \in SUBSET d : t # {} /\ Cardinality(t) <= SampleCap}}

LeastConflicts(l, values) ==
  {v \in values : \A u \in values : Conflicts(l, v) <= Conflicts(l, u)}

\* One iteration: a leaf of a violated check takes a random or a best value.
LocalMove(l) ==
  /\ pc = "local" /\ steps < call.steps
  /\ \E i \in Violated : l \in CheckVars(prob.checks[i])
  /\ stats' = [stats EXCEPT !.nodes = @ + 1]
  /\ steps' = steps + 1
  /\ \/ TRUE \in call.explore /\ \E v \in prob.domain[l] : work' = Repaired(l, v)
     \/ FALSE \in call.explore
        /\ \E values \in CandidateSets(l) :
             \E v \in LeastConflicts(l, values) : work' = Repaired(l, v)
  /\ UNCHANGED <<problemVars, assigned, calls, call, pc, searchVars, resultVars>>
-----------------------------------------------------------------------------
\* A step the program takes by itself, as opposed to a call the client makes.
Step ==
  \/ \E v \in (IF pos <= N THEN todo[pos] ELSE {}) : Descend(v) \/ Reject(v)
  \/ GiveUp \/ Backtrack \/ BreakOff
  \/ EmitValue \/ CountValue \/ KeepNearest
  \/ LocalGiveUp \/ LocalFound \/ LocalStuck
  \/ \E l \in Leaf : LocalMove(l)

Next == Step \/ \E c \in Calls : Begin(c) \/ BeginLocal(c)

Spec     == Init /\ [][Next]_vars
FairSpec == Spec /\ WF_vars(Step)
-----------------------------------------------------------------------------
(* Properties.                                                             *)

TypeOK ==
  /\ prob \in Problems
  /\ order \in Bijection(Position, Leaf)
  /\ work \in [Leaf -> Int]
  /\ assigned \subseteq Leaf
  /\ stats \in [nodes : Nat, prunes : Nat, backtracks : Nat, solutions : Nat, exhausted : BOOLEAN]
  /\ calls \in 0 .. MaxCalls
  /\ call \in Calls \cup {[op |-> "none"]}
  /\ pc \in {"idle", "search", "local"}
  /\ pos \in 1 .. N + 1
  /\ todo \in [Position -> SUBSET Int]
  /\ acc \in [1 .. N + 1 -> Nat]
  /\ out \in Seq([Leaf -> Int])
  /\ tally \in Nat
  /\ best \subseteq [Leaf -> Int]
  /\ bestCost \in Nat \cup {NoCost}
  /\ steps \in Nat

Solutions(p) == {s \in Assignments(p) : \A i \in DOMAIN p.checks : Holds(p.checks[i], s)}

\* What the buffer may hold: in each leaf a domain value or the one copied.
Buffers(p) ==
  {w \in [Leaf -> UNION {p.domain[l] \cup {p.base[l]} : l \in Leaf}] :
     \A l \in Leaf : w[l] \in p.domain[l] \cup {p.base[l]}}

(* What the results below rest on.  Every leaf can store its domain.       *)
Representable ==
  \A p \in Problems : \A l \in Leaf : \A v \in p.domain[l] : Within(v, p.prim[l])

(* A check reads no leaf but those it declares (all, if it declares none). *)
HonestChecks ==
  \A p \in Problems : \A i \in DOMAIN p.checks : \A w, s \in Buffers(p) :
    (\A l \in CheckVars(p.checks[i]) : w[l] = s[l])
      => (Holds(p.checks[i], w) <=> Holds(p.checks[i], s))

(* A bound that says False cuts no choice of values that passes the check: *)
(* what VerdictIsSound shows of the bounds of symbolic constraints.        *)
SoundBounds ==
  \A p \in Problems : \A i \in DOMAIN p.checks : p.checks[i].symbolic =>
    \A w \in Buffers(p), done \in SUBSET Leaf :
      Feasible(p.checks[i], Ranges(p, w, done)) = False =>
        \A s \in Assignments(p) : (\A l \in done : s[l] = w[l]) => ~Holds(p.checks[i], s)

Emitted == {out[k] : k \in DOMAIN out}

(* The search tree below the frames in progress: s agrees with the buffer  *)
(* above some position and its value there has not been tried yet.         *)
Ahead(s) ==
  /\ pc = "search"
  /\ \/ pos = N + 1 /\ s = work
     \/ \E k \in Position :
          /\ k <= pos
          /\ \A j \in 1 .. k - 1 : s[order[j]] = work[order[j]]
          /\ s[order[k]] \in todo[k]

\* Values in the order their loop takes them; shuffled loops have no order.
TakenBefore(u, v) == IF prob.shuffle THEN u # v ELSE u < v

\* s comes before t in the lexicographic order of the search.
Precedes(s, t) ==
  \E k \in Position :
    /\ \A j \in 1 .. k - 1 : s[order[j]] = t[order[j]]
    /\ TakenBefore(s[order[k]], t[order[k]])

\* The cost of a value, leaf by leaf in declaration order (Metric.cpp).
Costs(c, s) ==
  LET cost[k \in 0 .. N] ==
        IF k = 0 THEN c.fixed ELSE Accumulate(c.norm, cost[k - 1], s[k] - c.target[k])
  IN cost
TotalCost(c, s) == Costs(c, s)[N]

(* Forward checking and interval pruning never lose a solution: whatever   *)
(* enumerate has not returned yet is still ahead of the search, so nothing *)
(* is missing when it says `exhausted'.                                    *)
NothingIsLost ==
  call.op = "enumerate" /\ (pc = "search" \/ (stats.exhausted /\ call.limit > 0))
    => \A s \in Solutions(prob) : s \in Emitted \/ Ahead(s)

(* enumerate returns members of the solution set, no two of them equal     *)
(* and, unless values are shuffled, in the lexicographic order of the      *)
(* search: the result is the same whatever was called before.              *)
EachSolutionOnce ==
  call.op = "enumerate" =>
    /\ Emitted \subseteq Solutions(prob)
    /\ \A i, j \in DOMAIN out : i < j => Precedes(out[i], out[j])

(* count agrees with the solution set: exactly when the search space was   *)
(* exhausted, as a lower bound when the budget or the limit stopped it.    *)
CountIsExact ==
  pc = "idle" /\ call.op = "count" =>
    /\ tally <= Cardinality(Solutions(prob)) /\ tally <= call.limit
    /\ stats.exhausted /\ call.limit > 0 => tally = Cardinality(Solutions(prob))

(* nearest is an exact projection: it returns a solution whenever there is *)
(* one and none is closer; cut short by the budget, still a solution.      *)
NearestIsOptimal ==
  pc = "idle" /\ call.op = "nearest" =>
    /\ best \subseteq Solutions(prob)
    /\ \A b \in best : TotalCost(call, b) = bestCost
    /\ stats.exhausted => \A s \in Solutions(prob) :
         best # {} /\ \A b \in best : TotalCost(call, b) <= TotalCost(call, s)

(* Docs (Synthesizer.hpp): interval bounds prune `subtrees that cannot     *)
(* succeed'.  So no choice of domain values that, stored in the leaves,    *)
(* satisfies every check is missing from an exhausted enumeration.         *)
OnlyDeadSubtreesPruned ==
  pc = "idle" /\ call.op = "enumerate" /\ stats.exhausted /\ call.limit > 0 =>
    \A s \in Assignments(prob) :
      LET w == [l \in Leaf |-> Stored(prob, l, s[l])]
      IN (\A i \in DOMAIN prob.checks : Holds(prob.checks[i], w)) => w \in Emitted

(* The flags the interval bounds rely on are those of the current path; no *)
(* call leaves the flags of another one behind.                            *)
PathIsAssigned ==
  /\ pc = "search" => assigned = Prefix(order, pos - 1)
  /\ pc = "local"  => assigned = Leaf
  /\ pc = "idle"   => assigned = IF call.op = "min_conflicts" THEN Leaf ELSE {}

(* A search that was not exhausted spent its whole budget, or had returned *)
(* as many values as it was asked for.                                     *)
StopsForCause ==
  /\ call.op \in {"enumerate", "count", "nearest"} => stats.nodes <= prob.maxNodes
  /\ pc = "idle" /\ ~stats.exhausted =>
       /\ call.op = "enumerate" => stats.nodes = prob.maxNodes \/ Len(out) = call.limit
       /\ call.op = "count"     => stats.nodes = prob.maxNodes \/ tally = call.limit
       /\ call.op = "nearest"   => stats.nodes = prob.maxNodes

(* However a call ends, at its limit, out of budget or with everything     *)
(* explored, it leaves no flag behind that the next one would take for a   *)
(* decided leaf, and says truthfully whether it was cut short.             *)
CallsEndClean == PathIsAssigned /\ StopsForCause

(* min_conflicts returns only assignments that satisfy every check.        *)
RepairIsSolution == call.op = "min_conflicts" => best \subseteq Solutions(prob)

(* Without noise a move of min_conflicts never raises the number of        *)
(* violated checks, when every check owns up to the leaves it reads.       *)
RepairNeverWorsens ==
  [][pc = "local" /\ call.explore = {FALSE}
       => Cardinality(Violated') <= Cardinality(Violated)]_vars

(* Every call returns.                                                     *)
EveryCallReturns == (pc # "idle") ~> (pc = "idle")
-----------------------------------------------------------------------------
(* Refinement: enumerate is a stream of the solutions.  A call with limit  *)
(* 0 says `exhausted' without looking, which is no answer to refine.       *)

Enumerating == call.op = "enumerate"

Stream == INSTANCE SolutionStream WITH
  Assignment <- [Leaf -> Int],
  solutions  <- Solutions(prob),
  running    <- Enumerating /\ pc = "search",
  found      <- IF Enumerating THEN Emitted ELSE {},
  complete   <- Enumerating /\ pc = "idle" /\ stats.exhausted /\ call.limit > 0


(* enumerate implements the stream, its liveness included.                 *)
IsStream == Stream!Spec
=============================================================================
