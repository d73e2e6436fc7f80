---------------------------- MODULE CircuitSearch ----------------------------
(***************************************************************************)
(* synthesize_circuit: breadth-first over the states that circuits reach   *)
(* from zero, up to a global phase.                                        *)
(***************************************************************************)
EXTENDS Quantum

VARIABLES
  task,               \* qubits, target, alphabet and maximal depth
  frontier, next,     \* nodes: a state and the circuit that reaches it
  seen,               \* the keys of the states reached
  turn,               \* candidates of this level: node by node, gate by gate
  depth,
  answer,             \* set of at most one circuit
  busy

circuitVars == <<task, frontier, next, seen, turn, depth, answer, busy>>

\* Mutant: phases are forgotten.
KeyModuli(s) == [i \in DOMAIN s.amp |-> Square(s.amp[i])]

\* Equal for states that differ in a global phase: the first amplitude is made real and positive.
Key(s) ==
  LET first == CHOOSE i \in DOMAIN s.amp : s.amp[i] # Zero /\ \A j \in 0 .. i - 1 : s.amp[j] = Zero
  IN [amp |-> [i \in DOMAIN s.amp |-> Times(s.amp[i], Conj(s.amp[first]))], k |-> s.k]

Reaches(s) == SameRay(s, task.target)

CircuitInit(t) ==
  LET zero == BasisState(t.qubits, 0)
  IN /\ task = t
     /\ frontier = <<[state |-> zero, circuit |-> <<>>]>> /\ next = <<>>
     /\ seen = {Key(zero)}
     /\ turn = 0 /\ depth = 1
     /\ answer = IF SameRay(zero, t.target) THEN {<<>>} ELSE {}
     /\ busy = (answer = {} /\ t.maxDepth > 0)

Size == Len(task.alphabet)
More == turn < Len(frontier) * Size
Parent == frontier[(turn \div Size) + 1]
Chosen == task.alphabet[(turn % Size) + 1]

Candidate ==
  /\ busy /\ More
  /\ turn' = turn + 1
  /\ \E s \in {Apply(Parent.state, Chosen)} :
       LET circuit == Append(Parent.circuit, Chosen)
       IN IF Key(s) \in seen THEN UNCHANGED <<next, seen, answer, busy>>
          ELSE /\ seen' = seen \cup {Key(s)}
               /\ IF Reaches(s) THEN answer' = {circuit} /\ busy' = FALSE /\ UNCHANGED next
                  ELSE next' = Append(next, [state |-> s, circuit |-> circuit]) /\ UNCHANGED <<answer, busy>>
  /\ UNCHANGED <<task, frontier, depth>>

Deeper ==
  /\ busy /\ ~More
  /\ frontier' = next /\ next' = <<>> /\ turn' = 0
  /\ IF depth < task.maxDepth THEN depth' = depth + 1 /\ UNCHANGED busy ELSE busy' = FALSE /\ UNCHANGED depth
  /\ UNCHANGED <<task, seen, answer>>

CircuitNext == Candidate \/ Deeper

(* The circuit found prepares the target and none over the alphabet is     *)
(* shorter; if none is found there is none within the depth, although      *)
(* circuits are dropped when they reach a state seen before.               *)
ShortestCircuitIsFound ==
  ~busy =>
    LET prepares(c) == Reaches(Run(c, BasisState(task.qubits, 0)))
        circuits(n) == [1 .. n -> Range(task.alphabet)]
        shorter     == IF answer = {} THEN 0 .. task.maxDepth ELSE {n \in 0 .. task.maxDepth : \E c \in answer : n < Len(c)}
    IN /\ \A c \in answer : prepares(c)
       /\ \A n \in shorter : \A c \in circuits(n) : ~prepares(c)
=============================================================================
