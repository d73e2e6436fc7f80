------------------------------ MODULE MCQuantum ------------------------------
(***************************************************************************)
(* Programs with every gate, on one to three qubits and in awkward orders; *)
(* measurements repeated, impossible, and read before they are made; the   *)
(* corrections of Tier3.cpp and an alphabet without an answer; syntheses   *)
(* of entangled states, of a relative phase and of an unreachable state.   *)
(***************************************************************************)
EXTENDS QuantumClient

G(kind, qubits) == Gate(kind, qubits, 0)
Ops(gates)      == [j \in DOMAIN gates |-> GateOp(gates[j])]

Zeros(n)      == BasisState(n, 0)
Generic(n)    == Run([j \in 1 .. n |-> G("H", <<j - 1>>)] \o [j \in 1 .. n |-> G("T", <<j - 1>>)] \o
                     [j \in 1 .. n |-> G("H", <<j - 1>>)] \o <<G("S", <<n - 1>>)>>, Zeros(n))

OneQubit == Ops(<<G("H", <<0>>), G("T", <<0>>), G("X", <<0>>), G("S", <<0>>), G("Y", <<0>>), G("Tdg", <<0>>), G("Z", <<0>>),
                  Gate("Rx", <<0>>, 2), G("Sdg", <<0>>), Gate("Phase", <<0>>, 3), Gate("Ry", <<0>>, 2), Gate("Rz", <<0>>, -2)>>)
Entangling == Ops(<<G("H", <<2>>), G("CNOT", <<2, 0>>), G("T", <<1>>), G("CZ", <<0, 2>>), G("Swap", <<2, 1>>), Gate("CPhase", <<2, 0>>, 1),
                    G("Toffoli", <<2, 0, 1>>), G("CNOT", <<0, 1>>), G("Swap", <<0, 1>>), Gate("Rx", <<1>>, 2), G("Toffoli", <<0, 1, 2>>)>>)

MeasuredTwice == <<GateOp(G("H", <<0>>)), Measure(0, 0), GateOp(G("H", <<0>>)), Measure(0, 0), Conditional(G("X", <<1>>), 0), Measure(1, 1)>>
Unwritten     == <<Conditional(G("X", <<0>>), 1), GateOp(G("H", <<1>>)), Measure(1, 1), Conditional(G("X", <<0>>), 1), Measure(0, 0)>>
Impossible    == <<GateOp(G("X", <<0>>)), Measure(0, 0), GateOp(G("CNOT", <<0, 1>>)), Measure(1, 1), Conditional(G("Z", <<1>>), 0)>>
Crossed       == <<GateOp(G("H", <<0>>)), GateOp(G("CNOT", <<0, 1>>)), Measure(1, 0), GateOp(G("H", <<0>>)), Measure(0, 1),
                   Conditional(G("H", <<1>>), 0), Conditional(G("X", <<0>>), 1), Measure(1, 1)>>

Job(program_, start_) == [program |-> program_, start |-> start_, bits |-> 2]

Programs_ ==
  {Job(OneQubit, s) : s \in {Zeros(1), Generic(1)}}
    \cup {Job(Entangling, s) : s \in {BasisState(3, i) : i \in {0, 3, 6}} \cup {Generic(3)}}
    \cup {Job(Ops(Qft(n)), BasisState(n, i)) : n \in 1 .. 3, i \in 0 .. 1}
    \cup {Job(Ops(Qft(3)), BasisState(3, i)) : i \in 2 .. 7} \cup {Job(Ops(Qft(2)), BasisState(2, i)) : i \in 2 .. 3}
    \cup {Job(p, s) : p \in {MeasuredTwice, Unwritten, Impossible, Crossed}, s \in {Zeros(2), Generic(2)}}
    \cup {Job(Prefix, Message(s)) : s \in {Zeros(1), Generic(1)}}

Tests_ ==
  {Zeros(1), BasisState(1, 1), Run(<<G("H", <<0>>)>>, Zeros(1)), Run(<<G("H", <<0>>), G("S", <<0>>)>>, Zeros(1))}

Paulis == <<Conditional(G("X", <<2>>), 0), Conditional(G("X", <<2>>), 1), Conditional(G("Z", <<2>>), 0), Conditional(G("Z", <<2>>), 1)>>
Free   == <<GateOp(G("X", <<2>>)), GateOp(G("Z", <<2>>)), GateOp(G("H", <<2>>))>>

Corrections_ ==
  {[alphabet |-> a, train |-> {Generic(1)}] : a \in {Paulis \o Free, <<Paulis[1], Paulis[3], Free[1]>>}}

Two      == <<G("H", <<0>>), G("H", <<1>>), G("CNOT", <<0, 1>>), G("S", <<0>>)>>
Three    == <<G("H", <<0>>), G("CNOT", <<0, 1>>), G("CNOT", <<1, 2>>)>>
Target(n, circuit) == [qubits |-> n, target |-> Run(circuit, Zeros(n))]
Task(t, alphabet, depth_) == [qubits |-> t.qubits, target |-> t.target, alphabet |-> alphabet, maxDepth |-> depth_]

Syntheses_ ==
  {Task(Target(2, c), Two, 4) : c \in {<<G("H", <<0>>), G("CNOT", <<0, 1>>)>>,
                                       <<G("H", <<0>>), G("CNOT", <<0, 1>>), G("Z", <<1>>)>>,
                                       <<G("H", <<0>>), G("T", <<0>>)>>}}
    \cup {Task(Target(3, Three), Three, 3), Task(Target(3, <<G("X", <<2>>)>>), Three, 3)}
=============================================================================
