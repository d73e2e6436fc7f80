----------------------- MODULE TransitionSpace_proofs -----------------------
(***************************************************************************)
(* Membership of transitions, traces and the arithmetic of the machine,    *)
(* for every width, memory size, program and client.                       *)
(***************************************************************************)
EXTENDS TransitionSpace, MachineStep_proofs

(* Words.                                                                  *)

\* What wrapping does to a number that is off by less than a word.
LEMMA WrapNear ==
  ASSUME NEW x \in Int, -WordSize <= x, x < 2 * WordSize
  PROVE  Wrap(x) = IF x < 0 THEN x + WordSize ELSE IF x < WordSize THEN x ELSE x - WordSize
<1>0. WordSize \in Nat \ {0}
  BY SizesArePositive
<1>1. CASE x < 0
  <2>1. x = WordSize * (-1) + (x + WordSize) /\ x + WordSize \in 0 .. WordSize - 1
    BY <1>0, <1>1
  <2> QED
    BY <1>0, <1>1, <2>1, QuotientIs DEF Wrap
<1>2. CASE 0 <= x /\ x < WordSize
  <2>1. x = WordSize * 0 + x /\ x \in 0 .. WordSize - 1
    BY <1>0, <1>2
  <2> QED
    BY <1>0, <1>2, <2>1, QuotientIs DEF Wrap
<1>3. CASE WordSize <= x
  <2>1. x = WordSize * 1 + (x - WordSize) /\ x - WordSize \in 0 .. WordSize - 1
    BY <1>0, <1>3
  <2> QED
    BY <1>0, <1>3, <2>1, QuotientIs DEF Wrap
<1> QED
  BY <1>0, <1>1, <1>2, <1>3

\* A word is told from its signed reading, which is off by a whole word or none.
LEMMA SignedRange ==
  ASSUME NEW x \in Word
  PROVE  /\ Signed(x) \in Int /\ -WordSize <= 2 * Signed(x) /\ 2 * Signed(x) < WordSize
         /\ Signed(x) = x \/ Signed(x) = x - WordSize
         /\ Signed(x) < 0 <=> 2 * x >= WordSize
BY SizesArePositive DEF Word, Signed

LEMMA SignedOfWrap ==
  ASSUME NEW x \in Int, -WordSize <= 2 * x, 2 * x < WordSize
  PROVE  Signed(Wrap(x)) = x
<1>1. Wrap(x) = IF x < 0 THEN x + WordSize ELSE x
  BY WrapNear, SizesArePositive
<1> QED
  BY <1>1, SizesArePositive DEF Signed

\* The flags after an addition, subtraction or comparison.
FlagsOf(op, flags, x, y) ==
  SetZN(flags, Result(op, x, y)) \cup If("C", Carry(op, x, y, Result(op, x, y)))
                                 \cup If("V", Overflow(op, x, y, Result(op, x, y)))

LEMMA FlagsAre ==
  ASSUME NEW op, NEW flags, NEW x, NEW y, NEW r, r = Result(op, x, y)
  PROVE  /\ "Z" \in FlagsOf(op, flags, x, y) <=> r = 0
         /\ "N" \in FlagsOf(op, flags, x, y) <=> Signed(r) < 0
         /\ "C" \in FlagsOf(op, flags, x, y) <=> Carry(op, x, y, r)
         /\ "V" \in FlagsOf(op, flags, x, y) <=> Overflow(op, x, y, r)
BY DEF FlagsOf, SetZN, If

LEMMA SumWraps ==
  ASSUME NEW x \in Word, NEW y \in Word, NEW r, r = Wrap(x + y)
  PROVE  /\ r \in Word
         /\ r < x <=> x + y \notin Word
         /\ Overflow("add", x, y, r) <=> 2 * (Signed(x) + Signed(y)) \notin -WordSize .. WordSize - 1
<1>1. /\ x \in Nat /\ y \in Nat /\ x < WordSize /\ y < WordSize /\ WordSize \in Nat \ {0}
  BY SizesArePositive DEF Word
<1>2. r = IF x + y < WordSize THEN x + y ELSE x + y - WordSize
  BY <1>1, WrapNear
<1>3. r \in Word /\ (r < x <=> x + y \notin Word)
  BY <1>1, <1>2 DEF Word
<1>4. /\ Signed(x) < 0 <=> 2 * x >= WordSize
      /\ Signed(y) < 0 <=> 2 * y >= WordSize
      /\ Signed(r) < 0 <=> 2 * r >= WordSize
  BY <1>3, SignedRange
<1>5. Overflow("add", x, y, r) <=>
        /\ 2 * x >= WordSize <=> 2 * y >= WordSize
        /\ ~(2 * r >= WordSize <=> 2 * x >= WordSize)
  BY <1>4 DEF Overflow
<1>6. /\ Signed(x) = IF 2 * x >= WordSize THEN x - WordSize ELSE x
      /\ Signed(y) = IF 2 * y >= WordSize THEN y - WordSize ELSE y
  BY DEF Signed
<1>7. (/\ 2 * x >= WordSize <=> 2 * y >= WordSize
       /\ ~(2 * r >= WordSize <=> 2 * x >= WordSize)) <=>
         2 * (Signed(x) + Signed(y)) \notin -WordSize .. WordSize - 1
  BY <1>1, <1>2, <1>6
<1> QED
  BY <1>3, <1>5, <1>7

LEMMA DifferenceWraps ==
  ASSUME NEW x \in Word, NEW y \in Word, NEW op \in {"sub", "cmp"}, NEW r, r = Wrap(x - y)
  PROVE  /\ r \in Word
         /\ r = 0 <=> x = y
         /\ x < y <=> x - y \notin Word
         /\ Overflow(op, x, y, r) <=> 2 * (Signed(x) - Signed(y)) \notin -WordSize .. WordSize - 1
         /\ ~(Signed(r) < 0 <=> Overflow(op, x, y, r)) <=> Signed(x) < Signed(y)
<1>1. /\ x \in Nat /\ y \in Nat /\ x < WordSize /\ y < WordSize /\ WordSize \in Nat \ {0}
  BY SizesArePositive DEF Word
<1>2. r = IF x - y < 0 THEN x - y + WordSize ELSE x - y
  BY <1>1, WrapNear
<1>3. r \in Word /\ (r = 0 <=> x = y) /\ (x < y <=> x - y \notin Word)
  BY <1>1, <1>2 DEF Word
<1>4. /\ Signed(x) < 0 <=> 2 * x >= WordSize
      /\ Signed(y) < 0 <=> 2 * y >= WordSize
      /\ Signed(r) < 0 <=> 2 * r >= WordSize
  BY <1>3, SignedRange
<1>5. Overflow(op, x, y, r) <=>
        /\ ~(2 * x >= WordSize <=> 2 * y >= WordSize)
        /\ ~(2 * r >= WordSize <=> 2 * x >= WordSize)
  BY <1>4 DEF Overflow
<1>6. /\ Signed(x) = IF 2 * x >= WordSize THEN x - WordSize ELSE x
      /\ Signed(y) = IF 2 * y >= WordSize THEN y - WordSize ELSE y
  BY DEF Signed
<1> DEFINE V == /\ ~(2 * x >= WordSize <=> 2 * y >= WordSize)
                /\ ~(2 * r >= WordSize <=> 2 * x >= WordSize)
<1>7. V <=> 2 * (Signed(x) - Signed(y)) \notin -WordSize .. WordSize - 1
  BY <1>1, <1>2, <1>6
<1>8. ~(2 * r >= WordSize <=> V) <=> Signed(x) < Signed(y)
  BY <1>1, <1>2, <1>6
<1> QED
  BY <1>3, <1>4, <1>5, <1>7, <1>8

\* Division that truncates leaves a remainder smaller than the divisor, on the side of the dividend.
LEMMA Truncates ==
  ASSUME NEW x \in Int, NEW y \in Int, y # 0
  PROVE  /\ Quotient(x, y) \in Int /\ Remainder(x, y) \in Int
         /\ Quotient(x, y) * y + Remainder(x, y) = x
         /\ Abs(Remainder(x, y)) < Abs(y)
         /\ Remainder(x, y) # 0 => (Remainder(x, y) < 0 <=> x < 0)
<1> DEFINE a == Abs(x)
           b == Abs(y)
           p == a \div b
           e == a % b
<1>1. a \in Nat /\ b \in Nat \ {0} /\ (a = x \/ a = -x) /\ (b = y \/ b = -y)
      /\ (x < 0 <=> a # x) /\ (y < 0 <=> b # y)
  BY DEF Abs
<1>q. Quotient(x, y) = (IF (x < 0) # (y < 0) THEN -1 ELSE 1) * p
  BY DEF Quotient
<1> HIDE DEF a, b
<1>2. p \in Int /\ e \in 0 .. b - 1 /\ a = b * p + e
  BY <1>1
<1> HIDE DEF p, e
<1>3. /\ (-1) * p = -p /\ 1 * p = p
      /\ b * p \in Int /\ (-b) * p = -(b * p) /\ b * (-p) = -(b * p) /\ (-b) * (-p) = b * p
  BY <1>1, <1>2
<1>4. Quotient(x, y) = IF x < 0 <=> y < 0 THEN p ELSE -p
  <2>1. CASE x < 0 /\ y < 0
    BY <2>1, <1>q, <1>3
  <2>2. CASE x < 0 /\ ~(y < 0)
    BY <2>2, <1>q, <1>3
  <2>3. CASE ~(x < 0) /\ y < 0
    BY <2>3, <1>q, <1>3
  <2>4. CASE ~(x < 0) /\ ~(y < 0)
    BY <2>4, <1>q, <1>3
  <2> QED
    BY <2>1, <2>2, <2>3, <2>4
<1>5. Remainder(x, y) = x - y * Quotient(x, y)
  BY DEF Remainder
<1>6. y * Quotient(x, y) = IF x < 0 THEN -(b * p) ELSE b * p
  <2>1. CASE x < 0 /\ y < 0
    BY <2>1, <1>1, <1>3, <1>4
  <2>2. CASE x < 0 /\ ~(y < 0)
    BY <2>2, <1>1, <1>3, <1>4
  <2>3. CASE ~(x < 0) /\ y < 0
    BY <2>3, <1>1, <1>3, <1>4
  <2>4. CASE ~(x < 0) /\ ~(y < 0)
    BY <2>4, <1>1, <1>3, <1>4
  <2> QED
    BY <2>1, <2>2, <2>3, <2>4
<1>7. Remainder(x, y) = IF x < 0 THEN -e ELSE e
  BY <1>1, <1>2, <1>3, <1>5, <1>6
<1>8. Quotient(x, y) * y + Remainder(x, y) = x
  <2>1. Quotient(x, y) \in Int
    BY <1>2, <1>4
  <2>2. Quotient(x, y) * y = y * Quotient(x, y) /\ y * Quotient(x, y) \in Int
    BY <2>1
  <2> QED
    BY <1>5, <2>2
<1>9. Abs(Remainder(x, y)) = e
  BY <1>2, <1>7 DEF Abs
<1>10. Quotient(x, y) \in Int /\ Remainder(x, y) \in Int
  BY <1>2, <1>4, <1>7
<1>11. Remainder(x, y) # 0 => (Remainder(x, y) < 0 <=> x < 0)
  BY <1>2, <1>7
<1>12. Abs(Remainder(x, y)) < b
  BY <1>1, <1>2, <1>9
<1> QED
  BY <1>8, <1>10, <1>11, <1>12 DEF b

\* A number that is off by words wraps to the same word.
LEMMA WrapWhole ==
  ASSUME NEW x \in Word, NEW k \in Int, NEW z, z = WordSize * k + x
  PROVE  Wrap(z) = x
<1>1. x \in 0 .. WordSize - 1 /\ WordSize \in Nat \ {0} /\ x \in Int /\ WordSize * k \in Int
  BY SizesArePositive DEF Word
<1>2. z \in Int
  BY <1>1
<1> QED
  BY <1>1, <1>2, QuotientIs DEF Wrap

LEMMA WrapOff ==
  ASSUME NEW x \in Int
  PROVE  \E k \in Int : Wrap(x) = x + WordSize * k
<1>1. WordSize \in Nat \ {0}
  BY SizesArePositive
<1>2. x \div WordSize \in Int /\ x = WordSize * (x \div WordSize) + (x % WordSize) /\ x % WordSize \in Int
  BY <1>1
<1>3. PICK q : q = x \div WordSize
  OBVIOUS
<1>4. WordSize * (-q) = -(WordSize * q) /\ WordSize * q \in Int /\ -q \in Int
  BY <1>1, <1>2, <1>3
<1>5. Wrap(x) = x + WordSize * (-q)
  BY <1>2, <1>3, <1>4 DEF Wrap
<1> QED
  BY <1>4, <1>5

LEMMA DivisionWraps ==
  ASSUME NEW x \in Word, NEW y \in Word, y # 0,
         NEW q, q = Result("div", x, y), NEW r, r = Signed(Result("mod", x, y))
  PROVE  /\ Wrap(q * y + r) = x
         /\ Abs(r) < Abs(Signed(y))
         /\ r # 0 => (r < 0 <=> Signed(x) < 0)
<1> DEFINE X == Signed(x)
           Y == Signed(y)
           Q == Quotient(X, Y)
           R == Remainder(X, Y)
<1>0. WordSize \in Nat \ {0} /\ x \in Int /\ y \in Int
  BY SizesArePositive DEF Word
<1>1. X \in Int /\ Y \in Int /\ Y # 0
  BY SignedFacts
<1>2. Q \in Int /\ R \in Int /\ Q * Y + R = X /\ Abs(R) < Abs(Y) /\ (R # 0 => (R < 0 <=> X < 0))
  BY <1>1, Truncates
<1>3. q = Wrap(Q) /\ r = Signed(Wrap(R))
  BY DEF Result
<1>4. /\ -WordSize <= 2 * Y /\ 2 * Y < WordSize
      /\ \E i \in {0, 1} : Y = y - WordSize * i
      /\ \E i \in {0, 1} : X = x - WordSize * i
  <2>1. WordSize * 0 = 0 /\ WordSize * 1 = WordSize
    BY <1>0
  <2> QED
    BY <1>0, <2>1, SignedRange
<1> HIDE DEF X, Y, Q, R
<1>5. r = R
  <2>1. -WordSize <= 2 * R /\ 2 * R < WordSize
    BY <1>0, <1>1, <1>2, <1>4 DEF Abs
  <2> QED
    BY <1>2, <1>3, <2>1, SignedOfWrap
<1>6. Wrap(q * y + r) = x
  <2>1. PICK i \in {0, 1} : Y = y - WordSize * i
    BY <1>4
  <2>2. PICK j \in {0, 1} : X = x - WordSize * j
    BY <1>4
  <2>3. PICK k \in Int : q = Q + WordSize * k
    BY <1>2, <1>3, WrapOff
  <2>4. WordSize * i \in Int /\ WordSize * j \in Int /\ WordSize * k \in Int
    BY <1>0
  <2>5. y = Y + WordSize * i
    BY <1>0, <1>1, <2>1, <2>4
  <2>6. q * y = Q * Y + WordSize * (Q * i + k * y)
    <3>1. q * y = Q * y + (WordSize * k) * y
      BY <1>0, <1>2, <2>3, <2>4
    <3>2. Q * y = Q * Y + Q * (WordSize * i)
      BY <1>1, <1>2, <2>4, <2>5
    <3>3. Q * (WordSize * i) = WordSize * (Q * i) /\ (WordSize * k) * y = WordSize * (k * y)
      BY <1>0, <1>2
    <3>4. Q * i \in Int /\ k * y \in Int /\ Q * Y \in Int
      BY <1>0, <1>1, <1>2
    <3>5. WordSize * (Q * i + k * y) = WordSize * (Q * i) + WordSize * (k * y)
      BY <1>0, <3>4
    <3>6. WordSize * (Q * i) \in Int /\ WordSize * (k * y) \in Int
      BY <1>0, <3>4
    <3> QED
      BY <3>1, <3>2, <3>3, <3>4, <3>5, <3>6
  <2>7. PICK m \in Int : m = Q * i + k * y
    BY <1>0, <1>2
  <2>8. q * y + r = WordSize * (m - j) + x
    <3>1. q * y = Q * Y + WordSize * m
      BY <2>6, <2>7
    <3>2. WordSize * (m - j) = WordSize * m - WordSize * j /\ WordSize * m \in Int /\ Q * Y \in Int
      BY <1>0, <1>1, <1>2
    <3> QED
      BY <1>0, <1>2, <1>5, <2>2, <2>4, <3>1, <3>2
  <2> QED
    BY <2>8, WrapWhole
<1> QED
  BY <1>2, <1>5, <1>6 DEF X, Y
-----------------------------------------------------------------------------
(* Transitions.                                                            *)

\* The six components are all there is to a state.
LEMMA ComponentsAreAll ==
  ASSUME NEW u \in State, NEW v \in State
  PROVE  u = v <=> \A c \in Components : u[c] = v[c]
<1>1. ASSUME \A c \in Components : u[c] = v[c] PROVE u = v
  <2>1. /\ u.pc = v.pc /\ u.sp = v.sp /\ u.flags = v.flags /\ u.halted = v.halted
        /\ u.regs = v.regs /\ u.mem = v.mem
    BY <1>1 DEF Components
  <2> QED
    BY <2>1 DEF State
<1> QED
  BY <1>1

Transition == [before : State, instr : Instruction, after : State]

LEMMA MakeIsTransition ==
  ASSUME NEW s \in State, NEW ins \in Instruction
  PROVE  Make(s, ins) \in Transition
BY InstructionsKeepStates DEF Make, Transition

\* What the client's variables say of each other.
TransitionInv ==
  /\ t \in Transition
  /\ origin \in {"none", "generate", "forge", "project"}
  /\ origin \in {"generate", "project"} => t.after = Execute(t.before, t.instr)
  /\ origin = "generate" => t.before.halted = "Running"

TraceInv ==
  /\ program \in Seq(Instruction)
  /\ trace \in Seq(State) /\ Len(trace) > 0
  /\ ~tampered => \A i \in 1 .. Len(trace) - 1 : trace[i + 1] = StepOf(trace[i], program)

IInv == TransitionInv /\ TraceInv

LEMMA InitIInv == Init => IInv
<1> SUFFICES ASSUME Init PROVE IInv
  OBVIOUS
<1> DEFINE nop == [op |-> "nop", a |-> 0, b |-> 0, c |-> 0, imm |-> 0]
<1>1. nop \in Instruction
  BY DEF Instruction, Opcode, Plain
<1>2. Make(InitialState, nop) \in Transition
  BY <1>1, InitialIsState, MakeIsTransition
<1>3. TransitionInv
  BY <1>2 DEF Init, TransitionInv
<1>4. program \in Seq(Instruction)
  <2>1. CASE program = <<>>
    BY <2>1
  <2>2. CASE program \in Programs
    BY <2>2, TransitionsAssumption
  <2> QED
    BY <2>1, <2>2 DEF Init
<1>5. trace = <<InitialState>>
  BY DEF Init
<1>6. trace \in Seq(State) /\ Len(trace) = 1
  BY <1>5, InitialIsState
<1> QED
  BY <1>3, <1>4, <1>6 DEF IInv, TraceInv

LEMMA Clients ==
  /\ \A d \in Draws : d.state \in State /\ d.instr \in Instruction /\ d.state.halted = "Running"
  /\ \A f \in Forgeries : f.state \in State /\ f.instr \in Instruction
<1>1. \A d \in Draws \cup Forgeries : d.state \in State /\ d.instr \in Instruction
  BY TransitionsAssumption
<1>2. ASSUME NEW d \in Draws PROVE d.state.halted = "Running"
  <2>1. d.state = [InitialState EXCEPT !.regs = d.state.regs, !.mem = d.state.mem]
    BY TransitionsAssumption
  <2>2. [InitialState EXCEPT !.regs = d.state.regs, !.mem = d.state.mem].halted = "Running"
    BY DEF InitialState
  <2> QED
    BY <2>1, <2>2
<1> QED
  BY <1>1, <1>2

LEMMA StepIInv == IInv /\ [Next]_vars => IInv'
<1> SUFFICES ASSUME IInv, [Next]_vars PROVE IInv'
  OBVIOUS
<1>a. TransitionInv /\ TraceInv
  BY DEF IInv
<1>b. UNCHANGED <<program, trace, tampered>> => TraceInv'
  BY <1>a DEF TraceInv
<1>c. UNCHANGED <<t, origin>> => TransitionInv'
  BY <1>a DEF TransitionInv
<1>1. CASE Generate
  <2>1. PICK d \in Draws : t' = Make(d.state, d.instr)
    BY <1>1 DEF Generate
  <2>2. t' \in Transition
    BY <2>1, Clients, MakeIsTransition
  <2>3. t'.after = Execute(t'.before, t'.instr) /\ t'.before.halted = "Running"
    BY <2>1, Clients DEF Make
  <2>4. TransitionInv'
    BY <1>1, <2>2, <2>3 DEF TransitionInv, Generate
  <2> QED
    BY <1>1, <1>b, <2>4 DEF Generate, IInv
<1>2. CASE Project
  <2>1. t' = Make(t.before, t.instr) /\ origin' = "project"
    BY <1>2 DEF Project
  <2>2. t' \in Transition
    BY <1>a, <2>1, MakeIsTransition DEF TransitionInv, Transition
  <2>3. t'.after = Execute(t'.before, t'.instr)
    BY <2>1 DEF Make
  <2>4. TransitionInv'
    BY <2>1, <2>2, <2>3 DEF TransitionInv
  <2> QED
    BY <1>2, <1>b, <2>4 DEF Project, IInv
<1>3. ASSUME NEW f \in Forgeries, Forge(f) PROVE IInv'
  <2>0. t \in Transition /\ t.after \in State
    BY <1>a DEF TransitionInv, Transition
  <2>1. f.state \in State /\ f.instr \in Instruction
    BY Clients
  <2>2. [t EXCEPT !.instr = f.instr] \in Transition /\ [t EXCEPT !.after = f.state] \in Transition
    BY <2>0, <2>1 DEF Transition
  <2>3. [t EXCEPT !.after.mem = f.state.mem] \in Transition
    <3>1. [t.after EXCEPT !.mem = f.state.mem] \in State
      BY <2>0, <2>1, Contents, Changed
    <3>2. PICK u \in State : u = [t.after EXCEPT !.mem = f.state.mem]
      BY <3>1
    <3>3. [t EXCEPT !.after.mem = f.state.mem] = [t EXCEPT !.after = u]
      BY <3>2
    <3>4. [t EXCEPT !.after = u] \in Transition
      BY <2>0 DEF Transition
    <3> QED
      BY <3>3, <3>4
  <2>4. t' \in Transition /\ origin' = "forge"
    BY <1>3, <2>2, <2>3 DEF Forge
  <2>5. TransitionInv'
    BY <2>4 DEF TransitionInv
  <2> QED
    BY <1>3, <1>b, <2>5 DEF Forge, IInv
<1>4. CASE Record
  <2> DEFINE n == Len(trace)
             s == StepOf(trace[n], program)
  <2>1. trace' = Append(trace, s) /\ program' = program /\ tampered' = tampered
    BY <1>4 DEF Record
  <2>2. n \in Nat \ {0} /\ trace \in Seq(State) /\ trace[n] \in State /\ program \in Seq(Instruction)
    BY <1>a DEF TraceInv
  <2>3. s \in State
    BY <2>2, StepIsState
  <2>4. trace' \in Seq(State) /\ Len(trace') = n + 1 /\ trace'[n + 1] = s
        /\ \A i \in 1 .. n : trace'[i] = trace[i]
    BY <2>1, <2>2, <2>3
  <2>5. ASSUME ~tampered, NEW i \in 1 .. n PROVE trace'[i + 1] = StepOf(trace'[i], program)
    <3>1. CASE i = n
      BY <2>2, <2>4, <3>1
    <3>2. CASE i # n
      <4>1. i \in 1 .. n - 1 /\ i + 1 \in 1 .. n
        BY <2>2, <3>2
      <4>2. trace[i + 1] = StepOf(trace[i], program)
        BY <1>a, <2>5, <4>1 DEF TraceInv
      <4> QED
        BY <2>4, <4>1, <4>2
    <3> QED
      BY <3>1, <3>2
  <2> HIDE DEF s
  <2>6. TraceInv'
    BY <2>1, <2>2, <2>4, <2>5 DEF TraceInv
  <2> QED
    BY <1>4, <1>c, <2>6 DEF Record, IInv
<1>5. ASSUME NEW f \in Forgeries, NEW i \in DOMAIN trace, Tamper(i, f) PROVE IInv'
  <2>1. f.state \in State
    BY Clients
  <2>2. trace' = [trace EXCEPT ![i] = f.state] /\ tampered' = TRUE /\ program' = program
    BY <1>5 DEF Tamper
  <2>3. trace' \in Seq(State) /\ Len(trace') = Len(trace)
    BY <1>a, <2>1, <2>2 DEF TraceInv
  <2>4. TraceInv'
    BY <1>a, <2>2, <2>3 DEF TraceInv
  <2> QED
    BY <1>5, <1>c, <2>4 DEF Tamper, IInv
<1>6. CASE UNCHANGED vars
  BY <1>6, <1>b, <1>c DEF vars, IInv
<1> QED
  BY <1>1, <1>2, <1>3, <1>4, <1>5, <1>6 DEF Next

\* Whatever was generated, forged or recorded, t and trace stay as IInv says.
THEOREM Invariance == Spec => []IInv
<1> QED
  BY InitIInv, StepIInv, PTL DEF Spec

(* A transition is a member exactly if its instruction is well encoded and *)
(* its last state is what the machine makes of the first: the invariants   *)
(* that TransitionSpace adds one by one leave no component of a state out, *)
(* and project restores all of them.                                       *)
THEOREM ForgeriesAreDetected == Spec => []ForgeryIsDetected
<1>1. IInv => ForgeryIsDetected
  <2> SUFFICES ASSUME IInv PROVE ForgeryIsDetected
    OBVIOUS
  <2>1. t.before \in State /\ t.instr \in Instruction /\ t.after \in State
    BY DEF IInv, TransitionInv, Transition
  <2>2. Execute(t.before, t.instr) \in State
    BY <2>1, InstructionsKeepStates
  <2>3. Semantic(t.before, t.instr, t.after) <=> t.after = Execute(t.before, t.instr)
    BY <2>1, <2>2, ComponentsAreAll DEF Semantic
  <2>4. origin = "project" => t.after = Execute(t.before, t.instr)
    BY DEF IInv, TransitionInv
  <2> QED
    BY <2>3, <2>4 DEF ForgeryIsDetected, Contains
<1> QED
  BY <1>1, Invariance, PTL

\* The pairs whose first state has halted, and the first of them.
Halts(tr) == {i \in 1 .. Len(tr) - 1 : tr[i].halted # "Running"}

LEMMA FirstHalt ==
  ASSUME NEW tr \in Seq(State), Halts(tr) # {}
  PROVE  Min(Halts(tr)) \in Halts(tr) /\ \A i \in Halts(tr) : Min(Halts(tr)) <= i
<1>1. PICK H : H = Halts(tr)
  OBVIOUS
<1>2. H \subseteq Nat /\ H # {}
  BY <1>1 DEF Halts
<1>3. \E x \in H : \A y \in H : x <= y
  BY <1>2, LeastNumber
<1>4. Min(H) \in H /\ \A y \in H : Min(H) <= y
  BY <1>3 DEF Min
<1> QED
  BY <1>1, <1>4

\* What valid_trace asks of a pair is that the one state steps to the other.
LEMMA PairsAreSteps ==
  ASSUME NEW tr \in Seq(State), program \in Seq(Instruction), NEW i \in 1 .. Len(tr) - 1, tr[i].halted = "Running"
  PROVE  /\ PairOk(tr, i) => tr[i + 1] = StepOf(tr[i], program)
         /\ tr[i + 1] = StepOf(tr[i], program) /\ (\A k \in DOMAIN program : Structural(program[k])) => PairOk(tr, i)
<1>1. tr[i] \in State /\ tr[i + 1] \in State /\ tr[i].pc \in Nat
  <2>1. tr[i] \in State /\ tr[i + 1] \in State
    OBVIOUS
  <2> QED
    BY <2>1, Contents, SizesArePositive DEF Index
<1>2. CASE Ended(tr[i], program)
  BY <1>2 DEF PairOk
<1>3. CASE ~Ended(tr[i], program)
  <2> DEFINE ins == program[tr[i].pc + 1]
  <2>1. tr[i].pc + 1 \in DOMAIN program /\ ins \in Instruction
    <3>1. tr[i].pc + 1 \in 1 .. Len(program)
      BY <1>1, <1>3 DEF Ended
    <3> QED
      BY <3>1
  <2>2. StepOf(tr[i], program) = Execute(tr[i], ins)
    BY <1>3 DEF StepOf
  <2>3. PairOk(tr, i) <=> Contains([before |-> tr[i], instr |-> ins, after |-> tr[i + 1]])
    BY <1>3 DEF PairOk
  <2> HIDE DEF ins
  <2>4. Contains([before |-> tr[i], instr |-> ins, after |-> tr[i + 1]]) <=>
          Structural(ins) /\ Semantic(tr[i], ins, tr[i + 1])
    BY DEF Contains
  <2>5. Execute(tr[i], ins) \in State
    BY <1>1, <2>1, InstructionsKeepStates
  <2>6. Semantic(tr[i], ins, tr[i + 1]) <=> tr[i + 1] = Execute(tr[i], ins)
    BY <1>1, <2>5, ComponentsAreAll DEF Semantic
  <2>7. (\A k \in DOMAIN program : Structural(program[k])) => Structural(ins)
    BY <2>1 DEF ins
  <2> QED
    BY <2>2, <2>3, <2>4, <2>6, <2>7
<1> QED
  BY <1>2, <1>3

(* What run records of a well-encoded program is accepted as a trace; and  *)
(* what is accepted, tampered with or not, are steps of the machine up to  *)
(* the state after the first halt, the only part valid_trace looks at.     *)
THEOREM AcceptedTracesAreRuns == Spec => []TracesAreRuns
<1>1. IInv => TracesAreRuns
  <2> SUFFICES ASSUME IInv PROVE TracesAreRuns
    OBVIOUS
  <2>0. program \in Seq(Instruction) /\ trace \in Seq(State) /\ Len(trace) \in Nat
    BY DEF IInv, TraceInv
  <2> DEFINE H == Halts(trace)
             m == Min(H)
  <2>1. ValidTrace(trace) <=>
          IF H = {} THEN \A i \in 1 .. Len(trace) - 1 : PairOk(trace, i)
          ELSE (\A i \in 1 .. m - 1 : PairOk(trace, i)) /\ trace[m] = trace[m + 1]
    BY DEF ValidTrace, Halts
  <2>2. H \subseteq 1 .. Len(trace) - 1 /\ \A i \in 1 .. Len(trace) - 1 : i \in H <=> trace[i].halted # "Running"
    BY DEF Halts
  <2>3. H # {} => m \in H /\ \A i \in H : m <= i
    BY <2>0, FirstHalt
  <2> HIDE DEF H, m
  <2>4. \A i \in 1 .. Len(trace) - 1 : trace[i].halted # "Running" => StepOf(trace[i], program) = trace[i]
    BY DEF StepOf
  <2>5. ASSUME ~tampered, \A k \in DOMAIN program : Structural(program[k]) PROVE ValidTrace(trace)
    <3>1. \A i \in 1 .. Len(trace) - 1 : trace[i + 1] = StepOf(trace[i], program)
      BY <2>5 DEF IInv, TraceInv
    <3>2. ASSUME NEW i \in 1 .. Len(trace) - 1, i \notin H PROVE PairOk(trace, i)
      <4>1. trace[i].halted = "Running"
        BY <2>2, <3>2
      <4> QED
        BY <2>0, <2>5, <3>1, <4>1, PairsAreSteps
    <3>3. CASE H = {}
      BY <2>1, <3>2, <3>3
    <3>4. CASE H # {}
      <4>1. m \in 1 .. Len(trace) - 1 /\ trace[m].halted # "Running"
        BY <2>2, <2>3, <3>4
      <4>2. trace[m] = trace[m + 1]
        BY <2>4, <3>1, <4>1
      <4>3. ASSUME NEW i \in 1 .. m - 1 PROVE i \in 1 .. Len(trace) - 1 /\ i \notin H
        BY <2>0, <2>3, <3>4, <4>1
      <4> QED
        BY <2>1, <3>2, <3>4, <4>2, <4>3
    <3> QED
      BY <3>3, <3>4
  <2>6. ASSUME ValidTrace(trace), NEW i \in 1 .. Len(trace) - 1, \A j \in 1 .. i - 1 : trace[j].halted = "Running"
        PROVE  trace[i + 1] = StepOf(trace[i], program)
    <3>1. \A j \in 1 .. i - 1 : j \notin H
      BY <2>0, <2>2, <2>6
    <3>2. CASE i \in H
      <4>1. m \in H /\ m <= i /\ m \in 1 .. Len(trace) - 1
        BY <2>2, <2>3, <3>2
      <4>2. m = i
        BY <2>0, <3>1, <4>1
      <4>3. trace[i] = trace[i + 1]
        BY <2>1, <2>6, <3>2, <4>2
      <4>4. trace[i].halted # "Running"
        BY <2>2, <3>2
      <4> QED
        BY <2>4, <4>3, <4>4
    <3>3. CASE i \notin H
      <4>1. trace[i].halted = "Running"
        BY <2>2, <3>3
      <4>2. PairOk(trace, i)
        <5>1. CASE H = {}
          BY <2>1, <2>6, <5>1
        <5>2. CASE H # {}
          <6>1. m \in H /\ m \in 1 .. Len(trace) - 1
            BY <2>2, <2>3, <5>2
          <6>2. i \in 1 .. m - 1
            BY <2>0, <3>1, <3>3, <6>1
          <6> QED
            BY <2>1, <2>6, <5>2, <6>2
        <5> QED
          BY <5>1, <5>2
      <4> QED
        BY <2>0, <4>1, <4>2, PairsAreSteps
    <3> QED
      BY <3>2, <3>3
  <2> QED
    BY <2>5, <2>6 DEF TracesAreRuns
<1> QED
  BY <1>1, Invariance, PTL

LEMMA AddSubFlags ==
  ASSUME NEW s \in State, NEW ins
  PROVE  AddSub(s, ins).flags =
           FlagsOf(ins.op, s.flags, s.regs[IF ins.op = "cmp" THEN ins.a ELSE ins.b],
                                    s.regs[IF ins.op = "cmp" THEN ins.b ELSE ins.c])
<1> DEFINE x == s.regs[IF ins.op = "cmp" THEN ins.a ELSE ins.b]
           y == s.regs[IF ins.op = "cmp" THEN ins.b ELSE ins.c]
           r == Result(ins.op, x, y)
           flags == FlagsOf(ins.op, s.flags, x, y)
           flagged == [s EXCEPT !.flags = flags]
<1>1. AddSub(s, ins) = Advance(IF ins.op = "cmp" THEN flagged ELSE Write(flagged, ins.a, r))
  BY DEF AddSub, FlagsOf
<1> HIDE DEF flags, r
<1>2. flagged.flags = flags
  BY DEF State
<1>3. Write(flagged, ins.a, r).flags = flags
  BY DEF State, Write
<1> HIDE DEF flagged
<1>4. \A u : Advance(u).flags = u.flags
  BY DEF Advance
<1>5. AddSub(s, ins).flags = flags
  BY <1>1, <1>2, <1>3, <1>4
<1> QED
  BY <1>5 DEF flags

LEMMA QuotientIsWritten ==
  ASSUME NEW s \in State, NEW ins \in Instruction, WellFormed(ins), ins.op = "div", s.halted = "Running",
         Execute(s, ins).halted = "Running"
  PROVE  s.regs[ins.c] # 0 /\ Execute(s, ins).regs[ins.a] = Result("div", s.regs[ins.b], s.regs[ins.c])
<1> DEFINE r == Result("div", s.regs[ins.b], s.regs[ins.c])
           flagged == [s EXCEPT !.flags = SetZN(s.flags, r)]
<1>1. ins.a \in 0 .. Registers - 1
  BY OperandsAreRegisters DEF ThreeRegs
<1>2. Execute(s, ins) = Compute(s, ins)
  BY ExecuteIs
<1>3. Fault(s).halted = "Fault"
  BY DEF Fault, State
<1>4. s.regs[ins.c] # 0
  BY <1>2, <1>3 DEF Compute
<1>5. Compute(s, ins) = Advance(Write(flagged, ins.a, r))
  BY <1>4 DEF Compute
<1> HIDE DEF r
<1>6. Write(flagged, ins.a, r).regs[ins.a] = r
  BY <1>1 DEF State, Write
<1> HIDE DEF flagged
<1>7. \A u : Advance(u).regs = u.regs
  BY DEF Advance
<1> QED
  BY <1>2, <1>4, <1>5, <1>6, <1>7 DEF r

(* After a comparison the flags decide every relation of two words, signed *)
(* and unsigned, although their difference wraps; carry and overflow are   *)
(* set exactly when a sum or difference does not fit a word; and division  *)
(* and remainder agree, for every pair of words of every width.            *)
THEOREM ArithmeticStaysExact == Spec => []ArithmeticIsExact
<1>1. IInv => ArithmeticIsExact
  <2> SUFFICES ASSUME IInv PROVE ArithmeticIsExact
    OBVIOUS
  <2> DEFINE s == t.before
             ins == t.instr
             op == ins.op
             f == t.after.flags
             exact(u, v) == IF op = "add" THEN u + v ELSE u - v
  <2>1. s \in State /\ ins \in Instruction
    BY DEF IInv, TransitionInv, Transition
  <2>2. ASSUME origin = "generate"
        PROVE  s.halted = "Running" /\ t.after = Execute(s, ins)
    BY <2>2 DEF IInv, TransitionInv
  <2>3. ASSUME Generated({"cmp"})
        PROVE  /\ "Z" \in f <=> Operand("a") = Operand("b")
               /\ "C" \in f <=> Operand("a") < Operand("b")
               /\ ("N" \in f) # ("V" \in f) <=> Signed(Operand("a")) < Signed(Operand("b"))
    <3>1. WellFormed(ins) /\ op = "cmp" /\ s.halted = "Running" /\ t.after = Execute(s, ins)
      BY <2>2, <2>3 DEF Generated
    <3>2. ins.a \in 0 .. Registers - 1 /\ ins.b \in 0 .. Registers - 1
      BY <2>1, <3>1, OperandsAreRegisters DEF TwoRegs
    <3>3. PICK x, y : x = s.regs[ins.a] /\ y = s.regs[ins.b]
      OBVIOUS
    <3>4. x \in Word /\ y \in Word
      BY <2>1, <3>2, <3>3, Contents
    <3>5. Operand("a") = x /\ Operand("b") = y
      BY <3>3 DEF Operand
    <3>6. t.after = AddSub(s, ins)
      BY <3>1, ExecuteIs
    <3>7. f = FlagsOf("cmp", s.flags, x, y)
      BY <2>1, <3>1, <3>3, <3>6, AddSubFlags
    <3>8. PICK r : r = Wrap(x - y)
      OBVIOUS
    <3>9. r = Result("cmp", x, y)
      BY <3>8 DEF Result
    <3>10. /\ "Z" \in f <=> r = 0
           /\ "N" \in f <=> Signed(r) < 0
           /\ "C" \in f <=> Carry("cmp", x, y, r)
           /\ "V" \in f <=> Overflow("cmp", x, y, r)
      BY <3>7, <3>9, FlagsAre
    <3>11. Carry("cmp", x, y, r) <=> x < y
      BY DEF Carry
    <3>12. /\ r = 0 <=> x = y
           /\ ~(Signed(r) < 0 <=> Overflow("cmp", x, y, r)) <=> Signed(x) < Signed(y)
      BY <3>4, <3>8, DifferenceWraps
    <3>13. ("N" \in f) # ("V" \in f) <=> ~("N" \in f <=> "V" \in f)
      OBVIOUS
    <3> QED
      BY <3>5, <3>10, <3>11, <3>12, <3>13
  <2>4. ASSUME Generated({"add", "sub"})
        PROVE  /\ "C" \in f <=> exact(Operand("b"), Operand("c")) \notin Word
               /\ "V" \in f <=> 2 * exact(Signed(Operand("b")), Signed(Operand("c"))) \notin -WordSize .. WordSize - 1
    <3>1. WellFormed(ins) /\ op \in {"add", "sub"} /\ s.halted = "Running" /\ t.after = Execute(s, ins)
      BY <2>2, <2>4 DEF Generated
    <3>2. ins.b \in 0 .. Registers - 1 /\ ins.c \in 0 .. Registers - 1
      BY <2>1, <3>1, OperandsAreRegisters DEF ThreeRegs
    <3>3. PICK x, y : x = s.regs[ins.b] /\ y = s.regs[ins.c]
      OBVIOUS
    <3>4. x \in Word /\ y \in Word
      BY <2>1, <3>2, <3>3, Contents
    <3>5. Operand("b") = x /\ Operand("c") = y
      BY <3>3 DEF Operand
    <3>6. t.after = AddSub(s, ins)
      BY <3>1, ExecuteIs
    <3>7. f = FlagsOf(op, s.flags, x, y)
      BY <2>1, <3>1, <3>3, <3>6, AddSubFlags
    <3>8. PICK r : r = Result(op, x, y)
      OBVIOUS
    <3>9. /\ "C" \in f <=> Carry(op, x, y, r)
          /\ "V" \in f <=> Overflow(op, x, y, r)
      BY <3>7, <3>8, FlagsAre
    <3>10. CASE op = "add"
      <4>1. r = Wrap(x + y)
        BY <3>8, <3>10 DEF Result
      <4>2. Carry(op, x, y, r) <=> r < x
        BY <3>10 DEF Carry
      <4>3. /\ r < x <=> x + y \notin Word
            /\ Overflow("add", x, y, r) <=> 2 * (Signed(x) + Signed(y)) \notin -WordSize .. WordSize - 1
        BY <3>4, <4>1, SumWraps
      <4> QED
        BY <3>5, <3>9, <3>10, <4>2, <4>3
    <3>11. CASE op = "sub"
      <4>1. r = Wrap(x - y)
        BY <3>8, <3>11 DEF Result
      <4>2. Carry(op, x, y, r) <=> x < y
        BY <3>11 DEF Carry
      <4>3. /\ x < y <=> x - y \notin Word
            /\ Overflow("sub", x, y, r) <=> 2 * (Signed(x) - Signed(y)) \notin -WordSize .. WordSize - 1
        BY <3>4, <4>1, DifferenceWraps
      <4> QED
        BY <3>5, <3>9, <3>11, <4>2, <4>3
    <3> QED
      BY <3>1, <3>10, <3>11
  <2>5. ASSUME Generated({"div"}), t.after.halted = "Running"
        PROVE  LET x == Operand("b")
                   y == Operand("c")
                   r == Signed(Result("mod", x, y))
               IN /\ Wrap(t.after.regs[t.instr.a] * y + r) = x
                  /\ Abs(r) < Abs(Signed(y))
                  /\ r # 0 => (r < 0 <=> Signed(x) < 0)
    <3>1. WellFormed(ins) /\ op = "div" /\ s.halted = "Running" /\ t.after = Execute(s, ins)
      BY <2>2, <2>5 DEF Generated
    <3>2. ins.b \in 0 .. Registers - 1 /\ ins.c \in 0 .. Registers - 1
      BY <2>1, <3>1, OperandsAreRegisters DEF ThreeRegs
    <3>3. PICK x, y : x = s.regs[ins.b] /\ y = s.regs[ins.c]
      OBVIOUS
    <3>4. x \in Word /\ y \in Word
      BY <2>1, <3>2, <3>3, Contents
    <3>5. Operand("b") = x /\ Operand("c") = y
      BY <3>3 DEF Operand
    <3>6. y # 0 /\ t.after.regs[ins.a] = Result("div", x, y)
      BY <2>1, <2>5, <3>1, <3>3, QuotientIsWritten
    <3>7. PICK q, r : q = Result("div", x, y) /\ r = Signed(Result("mod", x, y))
      OBVIOUS
    <3>8. /\ Wrap(q * y + r) = x
          /\ Abs(r) < Abs(Signed(y))
          /\ r # 0 => (r < 0 <=> Signed(x) < 0)
      BY <3>4, <3>6, <3>7, DivisionWraps
    <3> QED
      BY <3>5, <3>6, <3>7, <3>8
  <2> QED
    BY <2>3, <2>4, <2>5 DEF ArithmeticIsExact
<1> QED
  BY <1>1, Invariance, PTL
=============================================================================
