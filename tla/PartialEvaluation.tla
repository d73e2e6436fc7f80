-------------------------- MODULE PartialEvaluation -------------------------
(***************************************************************************)
(* An invariant while the leaves it reads are being decided: the checks    *)
(* that the synthesizer makes of it, and the evaluation context `Ctx' of   *)
(* Synthesizer.cpp.  An unassigned leaf ranges over the hull of its        *)
(* domain, an assigned one is a point.  Leaves are written and released in *)
(* any order; a released leaf keeps its last number in the working buffer, *)
(* as after a backtrack.                                                   *)
(***************************************************************************)
EXTENDS Invariant, FiniteSetsExt

CONSTANTS
  Leaf,         \* the decision leaves
  Domains,      \* domains a leaf may have: nonempty finite sets of integers
  Invariants    \* the invariants tried

ASSUME DomainsAreNonempty == \A d \in Domains : d # {} /\ d \subseteq Int

VARIABLES
  invariant,    \* the invariant under evaluation
  checks,       \* its conjuncts, each with its compiled form if it is symbolic
  domain,       \* leaf -> its domain
  work,         \* leaf -> the number in the working buffer
  assigned      \* the leaves decided so far

vars == <<invariant, checks, domain, work, assigned>>

Ranges(dom, w, done) ==
  [l \in Leaf |-> IF l \in done THEN Point(w[l]) ELSE Between(Min(dom[l]), Max(dom[l]))]

Check(x) == [invariant |-> x, code |-> LET c == ToConstraint(x) IN IF c = <<>> THEN <<>> ELSE <<Compile(c[1])>>]

\* Synthesizer::check_holds and check_feasible: the compiled form is used where there is one.
CheckHolds(c, val)      == IF c.code # <<>> THEN EvalF(c.code[1], val) ELSE Holds(c.invariant, val)
CheckFeasible(c, range) == IF c.code # <<>> THEN FeasibleF(c.code[1], range) ELSE Unknown

\* Invariant::feasible, and the verdicts of the checks.
Verdict     == Feasible(invariant, Ranges(domain, work, assigned))
Verdicts(w, done) == [i \in DOMAIN checks |-> CheckFeasible(checks[i], Ranges(domain, w, done))]

Init ==
  /\ invariant \in Invariants
  /\ checks = [i \in DOMAIN Flatten(invariant) |-> Check(Flatten(invariant)[i])]
  /\ domain \in [Leaf -> Domains]
  /\ work = [l \in Leaf |-> 0]
  /\ assigned = {}

Write(l) ==
  /\ \E v \in domain[l] : work' = [work EXCEPT ![l] = v]
  /\ assigned' = assigned \cup {l}
  /\ UNCHANGED <<invariant, checks, domain>>

Release(l) ==
  /\ l \in assigned
  /\ assigned' = assigned \ {l}
  /\ UNCHANGED <<invariant, checks, domain, work>>

Next == \E l \in Leaf : Write(l) \/ Release(l)

Spec == Init /\ [][Next]_vars
-----------------------------------------------------------------------------
(* Properties.                                                             *)

\* The full assignments that agree with what is already decided.
Completions ==
  {s \in [Leaf -> UNION {domain[l] : l \in Leaf}] :
     \A l \in Leaf : s[l] \in domain[l] /\ (l \in assigned => s[l] = work[l])}

(* A verdict False, of a check or of the whole invariant, cuts a subtree:  *)
(* no completion may satisfy it; a verdict True promises that all of them  *)
(* do.  Where nothing is opaque and every leaf is assigned the bound is    *)
(* exact: `feasible' and `holds' cannot disagree at the ready position.    *)
VerdictIsSound ==
  /\ Verdict = False => \A s \in Completions : ~Holds(invariant, s)
  /\ Verdict = True  => \A s \in Completions : Holds(invariant, s)
  /\ \A i \in DOMAIN checks :
       Verdicts(work, assigned)[i] = False => \A s \in Completions : ~Holds(invariant, s)
  /\ ToConstraint(invariant) # <<>> /\ Variables(ToConstraint(invariant)[1]) \subseteq assigned
       => Verdict = IF Holds(invariant, work) THEN True ELSE False

(* The checks together say what the invariant says, on the buffer (stale   *)
(* numbers of released leaves included) and, where they are compiled, on   *)
(* the ranges: nothing is lost in splitting, unwrapping and compiling.  So *)
(* do explanations: just what fails is explained, all alternatives of a    *)
(* disjunction have one to be quoted, and `violations' is empty just if    *)
(* the invariant holds.                                                    *)
FormsAgree ==
  LET e == Explain(invariant, work)
  IN /\ Holds(invariant, work) <=> e = <<>>
     /\ Len(e) = 2 => \A k \in DOMAIN e[2] : e[2][k] # <<>>
     /\ Holds(invariant, work) <=> Violations(invariant, work) = {}
     /\ Holds(invariant, work) <=> \A i \in DOMAIN checks : CheckHolds(checks[i], work)
     /\ (\A i \in DOMAIN checks : checks[i].code # <<>>) => TriAnd(Verdicts(work, assigned)) = Verdict

(* Deciding one more leaf never revokes a verdict: a bound only tightens.  *)
VerdictsAreFinal ==
  [][assigned \subseteq assigned' /\ (\A l \in assigned : work'[l] = work[l]) =>
       /\ Verdict \in {Unknown, Verdict'}
       /\ \A i \in DOMAIN checks : Verdicts(work, assigned)[i] \in {Unknown, Verdicts(work', assigned')[i]}]_vars

(* An invariant with stated dependencies reads nothing else, so its truth  *)
(* is settled as soon as those leaves are: the search evaluates it there.  *)
DependenciesSettle ==
  LET deps(x) == Dependencies(x)
  IN \A i \in DOMAIN checks :
       deps(checks[i].invariant) # Unstated /\ deps(checks[i].invariant) \subseteq assigned =>
         \A s \in Completions : CheckHolds(checks[i], s) <=> CheckHolds(checks[i], work)

=============================================================================
