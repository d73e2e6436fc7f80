------------------------------- MODULE Quantum -------------------------------
(***************************************************************************)
(* Quantum states, gates, circuits and measurement (Quantum.cpp), exactly. *)
(* Angles are multiples of an eighth turn and gates have entries in the    *)
(* ring generated by w, the eighth root of unity, over a power of the root *)
(* of two: an amplitude is a + b w + c w^2 + d w^3, and a state is its     *)
(* amplitudes over root two to the power k.  Collapsing does not divide by *)
(* the root of the probability: a state stands for the unit vector along   *)
(* it, and its squared norm is the probability of the branch it is in.     *)
(***************************************************************************)
EXTENDS Integers, SequencesExt

Zero == <<0, 0, 0, 0>>
One  == <<1, 0, 0, 0>>
Root == <<0, 1, 0, -1>>       \* the root of two

Plus(a, b) == <<a[1] + b[1], a[2] + b[2], a[3] + b[3], a[4] + b[4]>>

\* a, turned by j eighths.
Turn(a, j) ==
  LET coefficient(m) == LET e == (m - j) % 8 IN IF e < 4 THEN a[e + 1] ELSE -a[e - 3]
  IN <<coefficient(0), coefficient(1), coefficient(2), coefficient(3)>>

Scale(a, z) == <<z * a[1], z * a[2], z * a[3], z * a[4]>>
Times(a, b) ==
  LET term == [j \in 1 .. 4 |-> Scale(Turn(b, j - 1), a[j])] IN Plus(Plus(term[1], term[2]), Plus(term[3], term[4]))
Conj(a)   == <<a[1], -a[4], -a[3], -a[2]>>
Square(a) == Times(a, Conj(a))
W(j)      == Turn(One, j)
Total(f)  == FoldSet(LAMBDA i, acc : Plus(f[i], acc), Zero, DOMAIN f)
-----------------------------------------------------------------------------
(* States: amplitudes by basis index; qubit q is bit q of the index.       *)

Basis(n)   == 0 .. 2 ^ n - 1
Bit(i, q)  == (i \div 2 ^ q) % 2
With(i, q, b) == i + (b - Bit(i, q)) * 2 ^ q

\* The amplitudes over root two to the power k; adding the empty function has TLC evaluate them once.
State(amp, k) == [amp |-> amp @@ <<>>, k |-> k]

BasisState(n, index) == State([i \in Basis(n) |-> IF i = index THEN One ELSE Zero], 0)

\* Equal states have the same form: the least k.
Reduced(s) ==
  LET even(a) == (a[1] + a[3]) % 2 = 0 /\ (a[2] + a[4]) % 2 = 0
      half(a) == <<(a[2] - a[4]) \div 2, (a[1] + a[3]) \div 2, (a[2] + a[4]) \div 2, (a[3] - a[1]) \div 2>>
      step(t, j) == IF t.k > 0 /\ \A i \in DOMAIN t.amp : even(t.amp[i])
                    THEN State([i \in DOMAIN t.amp |-> half(t.amp[i])], t.k - 1)
                    ELSE t
  IN FoldLeft(step, State(s.amp, s.k), [j \in 1 .. s.k |-> j])

\* The squared norm, over two to the power k.
Norm(s)     == Total([i \in DOMAIN s.amp |-> Square(s.amp[i])])
Vanishes(s) == \A i \in DOMAIN s.amp : s.amp[i] = Zero

Inner(s, t) == Total([i \in DOMAIN s.amp |-> Times(Conj(s.amp[i]), t.amp[i])])

\* Fidelity 1: the same state up to a factor.
SameRay(s, t) == Square(Inner(s, t)) = Times(Norm(s), Norm(t))
-----------------------------------------------------------------------------
(* Gates.  A matrix is row-major, over root two to the power k.            *)

Matrix(g) ==
  LET j == g.theta \div 2                 \* rotations turn by half their angle
      c == Plus(W(j), W(-j))
      d == Plus(W(j), Turn(W(-j), 4))
      diagonal(a, b) == [u |-> <<a, Zero, Zero, b>>, k |-> 0]
  IN CASE g.kind = "H"   -> [u |-> <<One, One, One, W(4)>>, k |-> 1]
       [] g.kind \in {"X", "Toffoli"} -> [u |-> <<Zero, One, One, Zero>>, k |-> 0]
       [] g.kind = "Y"   -> [u |-> <<Zero, W(6), W(2), Zero>>, k |-> 0]
       [] g.kind = "Z"   -> diagonal(One, W(4))
       [] g.kind = "S"   -> diagonal(One, W(2))
       [] g.kind = "T"   -> diagonal(One, W(1))
       [] g.kind = "Sdg" -> diagonal(One, W(-2))
       [] g.kind = "Tdg" -> diagonal(One, W(-1))
       [] g.kind \in {"Phase", "CPhase"} -> diagonal(One, W(g.theta))
       [] g.kind = "Rx"  -> [u |-> <<c, Turn(d, 4), Turn(d, 4), c>>, k |-> 2]
       [] g.kind = "Ry"  -> [u |-> <<c, Turn(d, 2), Turn(d, 6), c>>, k |-> 2]
       [] g.kind = "Rz"  -> diagonal(W(-j), W(j))

\* Mutant: the amplitude just written is read for the other one.
CombineLate(u, amp, i, j) ==
  LET half == [amp EXCEPT ![i] = Plus(Times(u[1], amp[i]), Times(u[2], amp[j]))]
  IN [half EXCEPT ![j] = Plus(Times(u[3], half[i]), Times(u[4], half[j]))]

\* A pair of amplitudes, in place: both are read before one is written.
Combine(u, amp, i, j) ==
  LET row == [r \in 0 .. 1 |-> Plus(Times(u[2 * r + 1], amp[i]), Times(u[2 * r + 2], amp[j]))]
  IN [amp EXCEPT ![i] = row[0], ![j] = row[1]]

Exchange(amp, i, j) == [amp EXCEPT ![i] = amp[j], ![j] = amp[i]]

\* apply_1q: pair by pair, those whose index has all controls set; the others keep their value,
\* over the power of the root that the matrix brings.
Apply1(s, target, matrix, controls) ==
  LET selected == {i \in DOMAIN s.amp : \A q \in controls : Bit(i, q) = 1}
      root[j \in 0 .. matrix.k] == IF j = 0 THEN One ELSE Times(root[j - 1], Root)
      combined == FoldSet(LAMBDA i, amp : Combine(matrix.u, amp, i, With(i, target, 1)) @@ <<>>,
                          s.amp, {i \in selected : Bit(i, target) = 0})
  IN Reduced([amp |-> [i \in DOMAIN s.amp |-> IF i \in selected THEN combined[i] ELSE Times(s.amp[i], root[matrix.k])],
              k   |-> s.k + matrix.k])

Cnot(s, control, target) ==
  State(FoldSet(LAMBDA i, amp : Exchange(amp, i, With(i, target, 1)),
                s.amp, {i \in DOMAIN s.amp : Bit(i, control) = 1 /\ Bit(i, target) = 0}), s.k)
Cz(s, a, b) ==
  State([i \in DOMAIN s.amp |-> IF Bit(i, a) = 1 /\ Bit(i, b) = 1 THEN Turn(s.amp[i], 4) ELSE s.amp[i]], s.k)
Swap(s, a, b) ==
  State(FoldSet(LAMBDA i, amp : Exchange(amp, i, With(With(i, a, 0), b, 1)),
                s.amp, {i \in DOMAIN s.amp : Bit(i, a) = 1 /\ Bit(i, b) = 0}), s.k)

Gate(kind, qubits, theta) == [kind |-> kind, qubits |-> qubits, theta |-> theta]

Apply(s, g) ==
  LET q == g.qubits
  IN CASE g.kind = "CNOT" -> Cnot(s, q[1], q[2])
       [] g.kind = "CZ"   -> Cz(s, q[1], q[2])
       [] g.kind = "Swap" -> Swap(s, q[1], q[2])
       [] OTHER           -> Apply1(s, Last(q), Matrix(g), Range(Front(q)))   \* the last qubit, the others its controls

InverseGate(g) ==
  CASE g.kind = "S"   -> [g EXCEPT !.kind = "Sdg"]
    [] g.kind = "Sdg" -> [g EXCEPT !.kind = "S"]
    [] g.kind = "T"   -> [g EXCEPT !.kind = "Tdg"]
    [] g.kind = "Tdg" -> [g EXCEPT !.kind = "T"]
    [] g.kind \in {"Phase", "Rx", "Ry", "Rz", "CPhase"} -> [g EXCEPT !.theta = -@]
    [] OTHER -> g

\* apply_unitary: u over the qubits, the first the least significant.
ApplyUnitary(s, qubits, u) ==
  LET d == 2 ^ Len(qubits)
      sub(i) == FoldLeft(LAMBDA acc, b : acc + Bit(i, qubits[b]) * 2 ^ (b - 1), 0, [b \in 1 .. Len(qubits) |-> b])
      at(i, c) == FoldLeft(LAMBDA acc, b : With(acc, qubits[b], Bit(c, b - 1)), i, [b \in 1 .. Len(qubits) |-> b])
  IN Reduced([amp |-> [i \in DOMAIN s.amp |-> Total([c \in 0 .. d - 1 |-> Times(u.u[sub(i) * d + c + 1], s.amp[at(i, c)])])],
              k   |-> s.k + u.k])
-----------------------------------------------------------------------------
(* Circuits are sequences of gates.                                        *)

Run(circuit, s)    == FoldLeft(Apply, s, circuit)
Undo(circuit)      == Reverse([j \in DOMAIN circuit |-> InverseGate(circuit[j])])
Qft(n) ==
  LET stage(j) == <<Gate("H", <<j>>, 0)>> \o [m \in 1 .. j |-> Gate("CPhase", <<j - m, j>>, 4 \div 2 ^ m)]
  IN FoldLeft(LAMBDA acc, m : acc \o stage(n - m), <<>>, [m \in 1 .. n |-> m])
       \o [m \in 1 .. n \div 2 |-> Gate("Swap", <<m - 1, n - m>>, 0)]
-----------------------------------------------------------------------------
(* Measurement.                                                            *)

\* measure and measure_forced: the branch in which qubit q reads o.
Collapse(s, q, o) ==
  Reduced([s EXCEPT !.amp = [i \in DOMAIN @ |-> IF Bit(i, q) = o THEN @[i] ELSE Zero]])

\* Row-major density matrix of a qubit.
ReducedDensity(s, q) ==
  LET entry(r, c) == Total([i \in {j \in DOMAIN s.amp : Bit(j, q) = 0} |->
                              Times(s.amp[With(i, q, r)], Conj(s.amp[With(i, q, c)]))])
  IN <<entry(0, 0), entry(0, 1), entry(1, 0), entry(1, 1)>>

Fidelity1(rho, a, b) ==
  Plus(Times(Conj(a), Plus(Times(rho[1], a), Times(rho[2], b))),
       Times(Conj(b), Plus(Times(rho[3], a), Times(rho[4], b))))
=============================================================================
