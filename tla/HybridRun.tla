------------------------------ MODULE HybridRun ------------------------------
(***************************************************************************)
(* Programs of gates, measurements and gates conditional on a measured bit *)
(* (HybridProgram): a run, one operation at a time, and run_branch, which  *)
(* is given the outcomes.  Measurement takes any outcome that has a        *)
(* probability.                                                            *)
(***************************************************************************)
EXTENDS Quantum

VARIABLES
  program,     \* sequence of operations
  start,       \* the state before the run
  qreg,
  cbits,       \* the classical bits
  at,          \* operations done
  outcomes     \* what was measured so far

hybridVars == <<program, start, qreg, cbits, at, outcomes>>

GateOp(g)         == [kind |-> "gate", gate |-> g]
Measure(q, c)     == [kind |-> "measure", qubit |-> q, cbit |-> c]
Conditional(g, c) == [kind |-> "conditional", gate |-> g, cbit |-> c]

Measurements(p) == Cardinality({j \in DOMAIN p : p[j].kind = "measure"})
Answers(p)      == [1 .. Measurements(p) -> 0 .. 1]

Load(p, s, c) ==
  /\ program' = p /\ start' = s /\ qreg' = s /\ cbits' = c /\ at' = 0 /\ outcomes' = <<>>

Running == at < Len(program)
Op      == program[at + 1]

DoGate ==
  /\ Running /\ Op.kind = "gate"
  /\ qreg' = Apply(qreg, Op.gate) /\ at' = at + 1
  /\ UNCHANGED <<program, start, cbits, outcomes>>

DoMeasure ==
  /\ Running /\ Op.kind = "measure"
  /\ \E o \in 0 .. 1 :
       /\ ~Vanishes(Collapse(qreg, Op.qubit, o))
       /\ qreg' = Collapse(qreg, Op.qubit, o)
       /\ cbits' = [cbits EXCEPT ![Op.cbit] = o] /\ outcomes' = Append(outcomes, o)
  /\ at' = at + 1
  /\ UNCHANGED <<program, start>>

DoConditional ==
  /\ Running /\ Op.kind = "conditional"
  /\ qreg' = IF cbits[Op.cbit] = 1 THEN Apply(qreg, Op.gate) ELSE qreg
  /\ at' = at + 1
  /\ UNCHANGED <<program, start, cbits, outcomes>>

HybridNext == DoGate \/ DoMeasure \/ DoConditional
-----------------------------------------------------------------------------
(* run_branch, by an operation: a branch without probability is left.      *)

\* Mutant: a conditional gate looks at the last outcome, not at its bit.
BranchOpLast(b, op, answers) ==
  CASE b.dead -> b
    [] ~b.dead /\ op.kind = "gate" -> [b EXCEPT !.q = Apply(@, op.gate)]
    [] ~b.dead /\ op.kind = "measure" ->
         LET after == Collapse(b.q, op.qubit, answers[b.m + 1])
         IN [q |-> after, c |-> [b.c EXCEPT ![op.cbit] = answers[b.m + 1]], m |-> b.m + 1, dead |-> Vanishes(after)]
    [] ~b.dead /\ op.kind = "conditional" -> IF b.m > 0 /\ answers[b.m] = 1 THEN [b EXCEPT !.q = Apply(@, op.gate)] ELSE b

BranchOp(b, op, answers) ==
  CASE b.dead -> b
    [] ~b.dead /\ op.kind = "gate" -> [b EXCEPT !.q = Apply(@, op.gate)]
    [] ~b.dead /\ op.kind = "measure" ->
         LET after == Collapse(b.q, op.qubit, answers[b.m + 1])
         IN [q |-> after, c |-> [b.c EXCEPT ![op.cbit] = answers[b.m + 1]], m |-> b.m + 1, dead |-> Vanishes(after)]
    [] ~b.dead /\ op.kind = "conditional" -> IF b.c[op.cbit] = 1 THEN [b EXCEPT !.q = Apply(@, op.gate)] ELSE b

RunBranch(p, s, c, answers) ==
  FoldLeft(LAMBDA b, op : BranchOp(b, op, answers), [q |-> s, c |-> c, m |-> 0, dead |-> FALSE], p)

\* The probabilities of states add up to that of s.
SumsTo(branches, s) ==
  LET k == Max({s.k} \cup {b.k : b \in Range(branches)})
      share(b) == Scale(Norm(b), 2 ^ (k - b.k))
  IN Total([a \in DOMAIN branches |-> share(branches[a])]) = share(s)
-----------------------------------------------------------------------------
(* Properties.                                                             *)

\* The bits that the first m measurements leave: the last outcome that each was given.
BitsAfter(m, answers) ==
  LET bit(j) == SelectSeq(program, LAMBDA op : op.kind = "measure")[j].cbit
      into(c) == {j \in 1 .. m : bit(j) = c}
  IN [c \in DOMAIN cbits |-> IF into(c) = {} THEN 0 ELSE answers[Max(into(c))]]

(* A finished run is the branch of its outcomes, state and classical bits, *)
(* that branch is possible, and the branches of all outcomes share the     *)
(* whole probability: also when a bit is measured twice, read before it is *)
(* written, or a branch is given up midway.  Such a branch has lost all    *)
(* its probability, and leaves the bits of the measurements it made, the   *)
(* impossible one among them.                                              *)
RunsAreBranches ==
  /\ ~Running => LET b == RunBranch(program, start, [c \in DOMAIN cbits |-> 0], outcomes)
                 IN ~b.dead /\ b.q = qreg /\ b.c = cbits
  /\ at = 0 => LET branch == [a \in Answers(program) |-> RunBranch(program, start, cbits, a)]
               IN /\ SumsTo([a \in Answers(program) |-> branch[a].q], start)
                  /\ \A a \in Answers(program) :
                       /\ branch[a].c = BitsAfter(branch[a].m, a)
                       /\ branch[a].m = Measurements(program) \/ Vanishes(branch[a].q)

\* The gates done, if nothing was measured.
Done == [j \in 1 .. at |-> program[j].gate]
Pure == \A j \in 1 .. at : program[j].kind = "gate"

\* The matrix of a gate on all its qubits, row by row.
Dense(g) ==
  LET n == Len(g.qubits)
      local == [g EXCEPT !.qubits = [j \in 1 .. n |-> j - 1]]
      column == [c \in Basis(n) |-> Apply(BasisState(n, c), local)]
      k == Max({column[c].k : c \in Basis(n)})
      root[j \in 0 .. k] == IF j = 0 THEN One ELSE Times(root[j - 1], Root)
  IN [u |-> [m \in 1 .. 4 ^ n |-> LET c == (m - 1) % 2 ^ n
                                  IN Times(column[c].amp[(m - 1) \div 2 ^ n], root[k - column[c].k])],
      k |-> k]

(* Gates are unitary and their fast paths are the general contraction of   *)
(* their matrices, on any qubits in any order; the inverse of a circuit    *)
(* takes every state back; and the Fourier circuit computes the discrete   *)
(* Fourier transform.                                                      *)
CircuitsAreUnitary ==
  Pure =>
    /\ SumsTo(<<qreg>>, start)
    /\ Run(Undo(Done), qreg) = start
    /\ qreg = FoldLeft(LAMBDA s, g : ApplyUnitary(s, g.qubits, Dense(g)), start, Done)
    /\ \A n \in 1 .. 3, c \in Basis(3) :
         Done = Qft(n) /\ start = BasisState(n, c) =>
           qreg = Reduced([amp |-> [r \in Basis(n) |-> W(r * c * (8 \div 2 ^ n))], k |-> n])
=============================================================================
