--------------------------- MODULE CorrectionSearch ---------------------------
(***************************************************************************)
(* The teleportation problem of Tier3.cpp: after a fixed prefix that       *)
(* entangles and measures, corrections are enumerated by length until one  *)
(* carries the state of qubit 0 to qubit 2 in every branch, for every      *)
(* training state.  The correction found is then run.                      *)
(***************************************************************************)
EXTENDS HybridRun

CONSTANTS
  MaxLength,     \* operations of a correction
  Tests          \* states of one qubit, for validation and use

VARIABLES
  problem,       \* the alphabet, a sequence of operations, and the training states
  length, code,  \* the candidate tried next
  found,         \* set of at most one correction
  phase          \* "rest", "search", "use", "done"

searchVars == <<problem, length, code, found, phase>>

Prefix ==
  << GateOp(Gate("H", <<1>>, 0)), GateOp(Gate("CNOT", <<1, 2>>, 0)), GateOp(Gate("CNOT", <<0, 1>>, 0)),
     GateOp(Gate("H", <<0>>, 0)), Measure(0, 0), Measure(1, 1) >>

Bits == [c \in 0 .. 1 |-> 0]

\* A state of qubit 0 with the others at zero.
Message(psi) == [amp |-> [i \in Basis(3) |-> IF i < 2 THEN psi.amp[i] ELSE Zero], k |-> psi.k]

\* Qubit 2 of h carries psi.
Carries(h, psi) ==
  Fidelity1(ReducedDensity(h, 2), psi.amp[0], psi.amp[1]) = Times(Norm(h), Norm(psi))

Teleports(correction, psi) ==
  LET branch == [a \in [1 .. 2 -> 0 .. 1] |-> RunBranch(Prefix \o correction, Message(psi), Bits, a).q]
  IN /\ \A a \in DOMAIN branch : ~Vanishes(branch[a]) => Carries(branch[a], psi)
     /\ SumsTo(branch, psi)

Letters == Len(problem.alphabet)

\* Mutant: the code is not divided between digits.
DecodeFirst == [j \in 1 .. length |-> problem.alphabet[(code % Letters) + 1]]

\* The candidate: the digits of the code.
Decode == [j \in 1 .. length |-> problem.alphabet[((code \div Letters ^ (j - 1)) % Letters) + 1]]

SearchInit(p) ==
  /\ problem = p /\ length = 0 /\ code = 0 /\ found = {}
  /\ phase = IF p.train = {} THEN "rest" ELSE "search"

Try ==
  /\ phase = "search" /\ code < Letters ^ length
  /\ code' = code + 1
  /\ found' = IF \A psi \in problem.train : Teleports(Decode, psi) THEN {Decode} ELSE {}
  /\ phase' = IF found' = {} THEN phase ELSE "use"
  /\ UNCHANGED <<problem, length, hybridVars>>

Longer ==
  /\ phase = "search" /\ code = Letters ^ length
  /\ IF length < MaxLength THEN length' = length + 1 /\ code' = 0 /\ UNCHANGED phase
     ELSE phase' = "done" /\ UNCHANGED <<length, code>>
  /\ UNCHANGED <<problem, found, hybridVars>>

Use ==
  /\ phase = "use"
  /\ \E psi \in Tests, correction \in found : Load(Prefix \o correction, Message(psi), Bits)
  /\ phase' = "done"
  /\ UNCHANGED <<problem, length, code, found>>

SearchNext == Try \/ Longer \/ Use

Candidates(n) == [1 .. n -> Range(problem.alphabet)]

(* The correction found teleports states it was not trained on, four that  *)
(* decide it for all among them, in every branch, and no shorter candidate *)
(* does; without an answer there is none.  When it is run, qubit 2 carries *)
(* the message whatever was measured.                                      *)
CorrectionTeleports ==
  /\ phase = "use" =>
       /\ \A correction \in found, psi \in Tests : Teleports(correction, psi)
       /\ \A n \in 0 .. length - 1 : \A c \in Candidates(n) : \E psi \in problem.train : ~Teleports(c, psi)
  /\ phase = "done" /\ found = {} =>
       \A n \in 0 .. MaxLength : \A c \in Candidates(n) : \E psi \in problem.train : ~Teleports(c, psi)
  /\ phase = "done" /\ found # {} /\ ~Running =>
       \A psi \in Tests : Message(psi) = start => Carries(qreg, psi)
=============================================================================
