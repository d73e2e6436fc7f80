---------------------------- MODULE QuantumClient ----------------------------
(***************************************************************************)
(* The users of the quantum part, one job at a time: a hybrid program that *)
(* is run, a search for teleportation's corrections whose result is run,   *)
(* or a synthesis of a circuit.                                            *)
(***************************************************************************)
EXTENDS CorrectionSearch, CircuitSearch

CONSTANTS
  Programs,      \* jobs: a program, the state it starts in and its number of classical bits
  Corrections,   \* problems of the search for corrections
  Syntheses      \* tasks of the synthesis

vars == <<hybridVars, searchVars, circuitVars>>

NoProblem == [alphabet |-> <<>>, train |-> {}]
NoTask    == [qubits |-> 1, target |-> BasisState(1, 0), alphabet |-> <<>>, maxDepth |-> 0]

Init ==
  /\ program = <<>> /\ start = BasisState(1, 0) /\ qreg = start /\ cbits = Bits /\ at = 0 /\ outcomes = <<>>
  /\ \/ SearchInit(NoProblem) /\ \E t \in Syntheses \cup {NoTask} : CircuitInit(t)
     \/ CircuitInit(NoTask) /\ \E p \in Corrections : SearchInit(p)

Begin ==
  /\ phase = "rest" /\ task = NoTask /\ program = <<>>
  /\ \E job \in Programs : Load(job.program, job.start, [c \in 0 .. job.bits - 1 |-> 0])
  /\ UNCHANGED <<searchVars, circuitVars>>

Next ==
  \/ Begin
  \/ HybridNext /\ UNCHANGED <<searchVars, circuitVars>>
  \/ SearchNext /\ UNCHANGED circuitVars
  \/ CircuitNext /\ UNCHANGED <<hybridVars, searchVars>>

Spec == Init /\ [][Next]_vars
=============================================================================
