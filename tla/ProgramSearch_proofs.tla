------------------------ MODULE ProgramSearch_proofs ------------------------
(***************************************************************************)
(* Both searches for programs are complete, for every alphabet, machine    *)
(* and set of examples: merging the programs whose states look the same    *)
(* loses no solution, as what comes after cannot tell them apart either.   *)
(***************************************************************************)
EXTENDS ProgramSearch, MachineStep_proofs, SequenceTheorems
-----------------------------------------------------------------------------
(* Straight-line programs.                                                 *)

Linear == {ins \in Instruction : ins.op \notin IsControl}

\* The states an execution goes through, and the last one.
IsTrace(f, s, program) ==
  /\ f \in [0 .. Len(program) -> State]
  /\ f[0] = s
  /\ \A k \in 1 .. Len(program) : f[k] = Execute(f[k - 1], program[k])

Trace(s, program) == CHOOSE f : IsTrace(f, s, program)
EndOf(s, program) == Trace(s, program)[Len(program)]

LEMMA TraceFacts ==
  ASSUME NEW s \in State, NEW program \in Seq(Linear)
  PROVE  IsTrace(Trace(s, program), s, program)
<1> DEFINE n == Len(program)
           step == [k \in 1 .. n |-> [t \in State |-> Execute(t, program[k])]]
<1>1. n \in Nat /\ \A k \in 1 .. n : program[k] \in Instruction
  BY DEF Linear
<1>2. step \in Steps(n, State)
  BY <1>1, InstructionsKeepStates DEF Steps
<1>3. PICK f \in [0 .. n -> State] : f[0] = s /\ \A k \in 1 .. n : f[k] = step[k][f[k - 1]]
  <2> HIDE DEF step
  <2> QED
    BY <1>1, <1>2, Recursion
<1>4. ASSUME NEW k \in 1 .. n PROVE f[k] = Execute(f[k - 1], program[k])
  <2>1. k - 1 \in 0 .. n
    BY <1>1
  <2> QED
    BY <1>3, <2>1
<1>5. IsTrace(f, s, program)
  BY <1>3, <1>4 DEF IsTrace
<1> QED
  BY <1>5 DEF Trace

\* Programs that begin alike go through the same states there.
LEMMA TracesAgree ==
  ASSUME NEW s \in State, NEW q \in Seq(Linear), NEW r \in Seq(Linear),
         NEW m \in Nat, m <= Len(q), m <= Len(r), \A i \in 1 .. m : q[i] = r[i]
  PROVE  Trace(s, q)[m] = Trace(s, r)[m]
<1> DEFINE f == Trace(s, q)
           g == Trace(s, r)
           S == {k \in Nat : k <= m => f[k] = g[k]}
<1>1. IsTrace(f, s, q) /\ IsTrace(g, s, r)
  BY TraceFacts
<1> HIDE DEF f, g
<1>2. 0 \in S
  BY <1>1 DEF IsTrace
<1>3. ASSUME NEW k \in Nat, k \in S PROVE k + 1 \in S
  <2>1. SUFFICES ASSUME k + 1 <= m PROVE f[k + 1] = g[k + 1]
    OBVIOUS
  <2>2. k + 1 \in 1 .. m /\ k + 1 \in 1 .. Len(q) /\ k + 1 \in 1 .. Len(r) /\ (k + 1) - 1 = k
    BY <2>1
  <2>3. f[k + 1] = Execute(f[k], q[k + 1]) /\ g[k + 1] = Execute(g[k], r[k + 1])
    BY <1>1, <2>2 DEF IsTrace
  <2> QED
    BY <1>3, <2>1, <2>2, <2>3
<1>4. m \in S
  <2> HIDE DEF S
  <2> QED
    BY <1>2, <1>3, NumberInduction
<1> QED
  BY <1>4 DEF f, g

LEMMA AppendIs ==
  ASSUME NEW X, NEW q \in Seq(X), NEW x \in X
  PROVE  /\ Append(q, x) \in Seq(X) /\ Len(Append(q, x)) = Len(q) + 1 /\ Len(q) \in Nat
         /\ \A i \in 1 .. Len(q) : Append(q, x)[i] = q[i]
         /\ Append(q, x)[Len(q) + 1] = x
BY AppendProperties

LEMMA EndOfFacts ==
  ASSUME NEW s \in State
  PROVE  /\ EndOf(s, <<>>) = s
         /\ \A q \in Seq(Linear) : EndOf(s, q) \in State
         /\ \A q \in Seq(Linear), ins \in Linear : EndOf(s, Append(q, ins)) = Execute(EndOf(s, q), ins)
<1>1. EndOf(s, <<>>) = s
  <2>1. <<>> \in Seq(Linear) /\ Len(<<>>) = 0
    OBVIOUS
  <2> QED
    BY <2>1, TraceFacts DEF EndOf, IsTrace
<1>2. ASSUME NEW q \in Seq(Linear) PROVE EndOf(s, q) \in State
  <2>1. Len(q) \in 0 .. Len(q)
    OBVIOUS
  <2> QED
    BY <2>1, TraceFacts DEF EndOf, IsTrace
<1>3. ASSUME NEW q \in Seq(Linear), NEW ins \in Linear
      PROVE  EndOf(s, Append(q, ins)) = Execute(EndOf(s, q), ins)
  <2> DEFINE r == Append(q, ins)
             n == Len(q)
  <2>1. r \in Seq(Linear) /\ Len(r) = n + 1 /\ n \in Nat /\ (\A i \in 1 .. n : r[i] = q[i]) /\ r[n + 1] = ins
    BY AppendIs
  <2> HIDE DEF r, n
  <2>2. Trace(s, r)[n] = Trace(s, q)[n]
    BY <2>1, TracesAgree DEF n
  <2>3. n + 1 \in 1 .. Len(r) /\ (n + 1) - 1 = n
    BY <2>1
  <2>4. Trace(s, r)[n + 1] = Execute(Trace(s, r)[n], r[n + 1])
    BY <2>1, <2>3, TraceFacts DEF IsTrace
  <2> QED
    BY <2>1, <2>2, <2>4 DEF EndOf, r, n
<1> QED
  BY <1>1, <1>2, <1>3

\* A machine that has halted stays as it is.
LEMMA HaltsForGood ==
  ASSUME NEW s \in State, NEW q \in Seq(Linear), NEW m \in 0 .. Len(q), Trace(s, q)[m].halted # "Running"
  PROVE  EndOf(s, q) = Trace(s, q)[m]
<1> DEFINE f == Trace(s, q)
           S == {k \in Nat : m + k <= Len(q) => f[m + k] = f[m]}
<1>1. IsTrace(f, s, q) /\ f[m].halted # "Running" /\ Len(q) \in Nat
  BY TraceFacts
<1> HIDE DEF f
<1>2. 0 \in S
  OBVIOUS
<1>3. ASSUME NEW k \in Nat, k \in S PROVE k + 1 \in S
  <2>1. SUFFICES ASSUME m + (k + 1) <= Len(q) PROVE f[m + (k + 1)] = f[m]
    OBVIOUS
  <2>2. m + (k + 1) \in 1 .. Len(q) /\ (m + (k + 1)) - 1 = m + k /\ m + k <= Len(q)
    BY <2>1
  <2>3. f[m + (k + 1)] = Execute(f[m + k], q[m + (k + 1)])
    BY <1>1, <2>2 DEF IsTrace
  <2> QED
    BY <1>1, <1>3, <2>2, <2>3 DEF Execute
<1>4. Len(q) - m \in S
  <2>1. Len(q) - m \in Nat
    BY <1>1
  <2> HIDE DEF S
  <2> QED
    BY <1>2, <1>3, <2>1, NumberInduction
<1>5. m + (Len(q) - m) = Len(q)
  BY <1>1
<1> QED
  BY <1>1, <1>4, <1>5 DEF f, EndOf
-----------------------------------------------------------------------------
(* What keys and images leave out.  These and the following definitions    *)
(* are those of the model, of a given problem.                             *)

LEMMA LargestIs ==
  ASSUME NEW S, S \subseteq Nat, 0 \in S, NEW b \in Nat, \A x \in S : x <= b
  PROVE  Max(S) \in S /\ \A x \in S : x <= Max(S)
<1> DEFINE T == {c \in Nat : \A x \in S : x <= c}
<1>1. T \subseteq Nat /\ b \in T
  OBVIOUS
<1>2. \E c \in T : \A d \in T : c <= d
  <2> HIDE DEF T
  <2> QED
    BY <1>1, LeastNumber
<1>3. PICK c \in T : \A d \in T : c <= d
  BY <1>2
<1>4. c \in S
  <2>1. SUFFICES ASSUME c \notin S PROVE FALSE
    OBVIOUS
  <2>2. c # 0 /\ c \in Nat /\ \A x \in S : x <= c /\ x # c /\ x \in Nat
    BY <2>1
  <2>3. c - 1 \in Nat /\ \A x \in S : x <= c - 1
    BY <2>2
  <2>4. c - 1 \in T
    BY <2>3
  <2> QED
    BY <1>3, <2>2, <2>4
<1>5. \E x \in S : \A y \in S : x >= y
  BY <1>4
<1>6. Max(S) \in S /\ \A y \in S : Max(S) >= y
  BY <1>5 DEF Max
<1> QED
  BY <1>6

InMem(p) == \E ins \in ToSet(p.alphabet) : ins.op \in UsesMemory

Fields(p) == {0} \cup UNION {{ins.a + 1, ins.b + 1, ins.c + 1} : ins \in ToSet(p.alphabet)}

Kept(p) == Min({Registers, Max(Fields(p))})

LEMMA ProblemIs ==
  ASSUME NEW p \in Problems
  PROVE  /\ p.inputs \in Seq(State) /\ DOMAIN p.inputs = 1 .. Len(p.inputs)
         /\ DOMAIN p.inputs # {} /\ \A e \in DOMAIN p.inputs : p.inputs[e] \in State
         /\ p.alphabet \in Seq(Instruction) /\ DOMAIN p.alphabet = 1 .. Len(p.alphabet)
         /\ p.alphabet \in Seq(ToSet(p.alphabet)) /\ Len(p.alphabet) \in Nat
         /\ ToSet(p.alphabet) \subseteq Linear
         /\ p.maxLength \in Nat /\ p.maxStates \in Nat /\ p.oe \in BOOLEAN
<1>1. IsProblem(p)
  BY ProblemsAssumption
<1>2. p.inputs \in Seq(State) /\ Len(p.inputs) > 0 /\ p.alphabet \in Seq(Instruction)
  BY <1>1 DEF IsProblem
<1>3. DOMAIN p.inputs = 1 .. Len(p.inputs) /\ DOMAIN p.inputs # {} /\ \A e \in DOMAIN p.inputs : p.inputs[e] \in State
  <2>1. DOMAIN p.inputs = 1 .. Len(p.inputs) /\ Len(p.inputs) \in Nat
    BY <1>2
  <2>2. 1 \in DOMAIN p.inputs
    BY <1>2, <2>1
  <2> QED
    BY <1>2, <2>1, <2>2
<1>4. DOMAIN p.alphabet = 1 .. Len(p.alphabet) /\ Len(p.alphabet) \in Nat
  BY <1>2
<1>5. ToSet(p.alphabet) \subseteq Linear
  BY <1>1, <1>2, <1>4 DEF IsProblem, ToSet, Linear
<1>6. p.alphabet \in Seq(ToSet(p.alphabet))
  <2>1. \A i \in 1 .. Len(p.alphabet) : p.alphabet[i] \in ToSet(p.alphabet)
    BY <1>4 DEF ToSet
  <2>2. p.alphabet \in [1 .. Len(p.alphabet) -> ToSet(p.alphabet)]
    BY <1>2, <1>4, <2>1
  <2> QED
    BY <1>4, <2>2
<1> QED
  BY <1>1, <1>2, <1>3, <1>4, <1>5, <1>6 DEF IsProblem

\* No instruction of the alphabet writes to a register that keys leave out.
LEMMA KeptIs ==
  ASSUME NEW p \in Problems
  PROVE  /\ Kept(p) \in Nat /\ Kept(p) <= Registers
         /\ \A ins \in ToSet(p.alphabet) : ins.a < Kept(p) \/ Kept(p) = Registers
<1> DEFINE al == p.alphabet
           n == Len(al)
           Tops(m, b) == \A i \in 1 .. m : al[i].a < b /\ al[i].b < b /\ al[i].c < b
           S == {m \in Nat : m <= n => \E b \in Nat : Tops(m, b)}
<1>1. n \in Nat /\ DOMAIN al = 1 .. n /\ \A i \in 1 .. n : al[i].a \in Nat /\ al[i].b \in Nat /\ al[i].c \in Nat
  <2>1. \A i \in 1 .. n : al[i] \in Instruction
    BY ProblemIs
  <2> QED
    BY <2>1, ProblemIs DEF Instruction
<1>2. 0 \in S
  OBVIOUS
<1> HIDE DEF Tops
<1>3. ASSUME NEW m \in Nat, m \in S PROVE m + 1 \in S
  <2>1. SUFFICES ASSUME m + 1 <= n PROVE \E b \in Nat : Tops(m + 1, b)
    OBVIOUS
  <2>2. PICK b \in Nat : Tops(m, b)
    BY <1>1, <1>3, <2>1
  <2>3. m + 1 \in 1 .. n /\ \A i \in 1 .. m + 1 : i \in 1 .. n /\ (i = m + 1 \/ i \in 1 .. m)
    BY <1>1, <2>1
  <2>4. PICK x \in Nat, y \in Nat, z \in Nat : x = al[m + 1].a /\ y = al[m + 1].b /\ z = al[m + 1].c
    BY <1>1, <2>3
  <2>5. PICK d \in Nat : d > b /\ x < d /\ y < d /\ z < d
    <3>1. b + x + y + z + 1 \in Nat /\ b + x + y + z + 1 > b
      OBVIOUS
    <3>2. x < b + x + y + z + 1 /\ y < b + x + y + z + 1 /\ z < b + x + y + z + 1
      OBVIOUS
    <3> QED
      BY <3>1, <3>2
  <2>6. ASSUME NEW i \in 1 .. m + 1 PROVE al[i].a < d /\ al[i].b < d /\ al[i].c < d
    <3>1. CASE i = m + 1
      BY <2>4, <2>5, <3>1
    <3>2. CASE i \in 1 .. m
      <4>1. al[i].a \in Nat /\ al[i].b \in Nat /\ al[i].c \in Nat /\ al[i].a < b /\ al[i].b < b /\ al[i].c < b
        BY <1>1, <2>2, <2>3, <3>2 DEF Tops
      <4> QED
        BY <2>5, <4>1
    <3> QED
      BY <2>3, <3>1, <3>2
  <2> QED
    BY <2>6 DEF Tops
<1>4. PICK b \in Nat : Tops(n, b)
  <2>1. n \in S
    <3> HIDE DEF S
    <3> QED
      BY <1>1, <1>2, <1>3, NumberInduction
  <2> QED
    BY <1>1, <2>1
<1> DEFINE F == Fields(p)
<1>5. F \subseteq Nat /\ 0 \in F /\ \A x \in F : x <= b
  <2>1. ASSUME NEW x \in F PROVE x = 0 \/ \E i \in 1 .. n : x \in {al[i].a + 1, al[i].b + 1, al[i].c + 1}
    BY <1>1 DEF Fields, ToSet
  <2>2. ASSUME NEW x, NEW i \in 1 .. n, x \in {al[i].a + 1, al[i].b + 1, al[i].c + 1} PROVE x \in Nat /\ x <= b
    <3>1. PICK u \in Nat, v \in Nat, w \in Nat : u = al[i].a /\ v = al[i].b /\ w = al[i].c
      BY <1>1
    <3>2. u < b /\ v < b /\ w < b
      BY <1>4, <3>1 DEF Tops
    <3>3. x = u + 1 \/ x = v + 1 \/ x = w + 1
      BY <2>2, <3>1
    <3> QED
      BY <3>2, <3>3
  <2>3. 0 \in F
    BY DEF Fields
  <2> HIDE DEF F
  <2>4. \A x \in F : x \in Nat /\ x <= b
    BY <2>1, <2>2
  <2> QED
    BY <2>3, <2>4
<1>6. \A ins \in ToSet(p.alphabet) : ins.a + 1 \in F /\ ins.a \in Nat
  BY <1>1 DEF Fields, ToSet
<1> HIDE DEF F
<1>7. Max(F) \in Nat /\ \A x \in F : x <= Max(F)
  BY <1>5, LargestIs
<1>8. Registers \in Nat
  BY WidthsAssumption
<1>9. /\ Kept(p) \in {Registers, Max(F)} /\ Kept(p) <= Registers /\ Kept(p) <= Max(F)
  <2>1. \E x \in {Registers, Max(F)} : \A y \in {Registers, Max(F)} : x <= y
    BY <1>7, <1>8
  <2> QED
    BY <2>1 DEF Kept, F, Min
<1> QED
  BY <1>6, <1>7, <1>8, <1>9

LowOf(p, regs) == [r \in 0 .. Kept(p) - 1 |-> regs[r]]

KeyOf(p, s) ==
  IF InMem(p) THEN [f \in DOMAIN s \ {"pc"} |-> s[f]] ELSE [flags |-> s.flags, regs |-> LowOf(p, s.regs)]

ImageOf(p, s) == IF InMem(p) THEN s ELSE [s EXCEPT !.regs = LowOf(p, @), !.mem = <<>>]

LoadOf(p, image, s) ==
  IF InMem(p) THEN image
  ELSE [image EXCEPT !.regs = [r \in DOMAIN s.regs |-> IF r < Kept(p) THEN @[r] ELSE s.regs[r]],
                     !.mem = s.mem]

\* What of a state every program of the alphabet leaves alone.
Local(p, s, t) ==
  InMem(p) \/ /\ t.sp = s.sp /\ t.mem = s.mem
              /\ \A r \in 0 .. Registers - 1 : r >= Kept(p) => t.regs[r] = s.regs[r]

LEMMA KeysTellApart ==
  ASSUME NEW p \in Problems, NEW s \in State, NEW t \in State, NEW u \in State,
         Local(p, s, t), Local(p, s, u), t.halted = u.halted, KeyOf(p, t) = KeyOf(p, u)
  PROVE  Alike(t, u)
<1>1. CASE InMem(p)
  <2> DEFINE D == {"sp", "flags", "halted", "regs", "mem"}
  <2>1. DOMAIN t \ {"pc"} = D /\ DOMAIN u \ {"pc"} = D
    BY DEF State
  <2>2. [f \in D |-> t[f]] = [f \in D |-> u[f]]
    BY <1>1, <2>1 DEF KeyOf
  <2>3. \A f \in D : t[f] = u[f]
    BY <2>2
  <2> QED
    BY <2>3, AlikeIs
<1>2. CASE ~InMem(p)
  <2>1. t.flags = u.flags /\ LowOf(p, t.regs) = LowOf(p, u.regs)
    BY <1>2 DEF KeyOf
  <2>2. \A r \in 0 .. Kept(p) - 1 : t.regs[r] = u.regs[r]
    BY <2>1 DEF LowOf
  <2>3. Kept(p) \in Nat /\ Registers \in Nat
    BY KeptIs, WidthsAssumption
  <2>4. \A r \in 0 .. Registers - 1 : t.regs[r] = u.regs[r]
    BY <1>2, <2>2, <2>3 DEF Local
  <2>5. t.regs = u.regs
    <3>1. t.regs = [r \in 0 .. Registers - 1 |-> t.regs[r]] /\ u.regs = [r \in 0 .. Registers - 1 |-> u.regs[r]]
      BY DEF State
    <3> QED
      BY <2>4, <3>1
  <2>6. t.sp = u.sp /\ t.mem = u.mem
    BY <1>2 DEF Local
  <2> QED
    BY <2>1, <2>5, <2>6, AlikeIs
<1> QED
  BY <1>1, <1>2

LEMMA AlikeHaveOneKey ==
  ASSUME NEW p, NEW t \in State, NEW u \in State, Alike(t, u)
  PROVE  KeyOf(p, t) = KeyOf(p, u)
<1>1. t.sp = u.sp /\ t.flags = u.flags /\ t.halted = u.halted /\ t.regs = u.regs /\ t.mem = u.mem
  BY AlikeIs
<1> DEFINE D == {"sp", "flags", "halted", "regs", "mem"}
<1>2. DOMAIN t \ {"pc"} = D /\ DOMAIN u \ {"pc"} = D
  BY DEF State
<1>3. \A f \in D : t[f] = u[f]
  BY <1>1
<1>4. [f \in D |-> t[f]] = [f \in D |-> u[f]]
  BY <1>3
<1> QED
  BY <1>1, <1>2, <1>4 DEF KeyOf

\* An image, loaded over any state of the search, is the state stored.
LEMMA LoadedIsStored ==
  ASSUME NEW p \in Problems, NEW s \in State, NEW t \in State, NEW u \in State,
         Local(p, s, t), Local(p, s, u)
  PROVE  LoadOf(p, ImageOf(p, t), u) = t
<1>1. CASE InMem(p)
  BY <1>1 DEF LoadOf, ImageOf
<1>2. CASE ~InMem(p)
  <2> DEFINE back == [r \in DOMAIN u.regs |-> IF r < Kept(p) THEN LowOf(p, t.regs)[r] ELSE u.regs[r]]
  <2>1. LoadOf(p, ImageOf(p, t), u) = [t EXCEPT !.regs = back, !.mem = u.mem]
    BY <1>2 DEF LoadOf, ImageOf, State
  <2>2. DOMAIN u.regs = 0 .. Registers - 1 /\ DOMAIN t.regs = 0 .. Registers - 1
    BY DEF State
  <2>3. ASSUME NEW r \in 0 .. Registers - 1 PROVE back[r] = t.regs[r]
    <3>1. Kept(p) \in Nat /\ Registers \in Nat
      BY KeptIs, WidthsAssumption
    <3>2. CASE r < Kept(p)
      <4>1. r \in 0 .. Kept(p) - 1
        BY <3>1, <3>2
      <4> QED
        BY <2>2, <3>2, <4>1 DEF LowOf
    <3>3. CASE ~(r < Kept(p))
      BY <1>2, <2>2, <3>1, <3>3 DEF Local
    <3> QED
      BY <3>2, <3>3
  <2>4. back = t.regs
    <3>1. t.regs = [r \in 0 .. Registers - 1 |-> t.regs[r]]
      BY DEF State
    <3>2. back = [r \in 0 .. Registers - 1 |-> back[r]]
      BY <2>2
    <3> HIDE DEF back
    <3> QED
      BY <2>3, <3>1, <3>2
  <2>5. u.mem = t.mem
    BY <1>2 DEF Local
  <2> HIDE DEF back
  <2> QED
    BY <2>1, <2>4, <2>5 DEF State
<1> QED
  BY <1>1, <1>2

LEMMA EndIsLocal ==
  ASSUME NEW p \in Problems, NEW s \in State, NEW q \in Seq(ToSet(p.alphabet))
  PROVE  Local(p, s, EndOf(s, q))
<1> DEFINE f == Trace(s, q)
           n == Len(q)
           S == {k \in Nat : k <= n => Local(p, s, f[k])}
<1>1. n \in Nat /\ q \in Seq(Linear) /\ \A k \in 1 .. n : q[k] \in ToSet(p.alphabet)
  BY ProblemIs
<1>2. IsTrace(f, s, q)
  BY <1>1, TraceFacts
<1> HIDE DEF f
<1>3. 0 \in S
  BY <1>2 DEF IsTrace, Local
<1>4. ASSUME NEW k \in Nat, k \in S PROVE k + 1 \in S
  <2>1. SUFFICES ASSUME k + 1 <= n, ~InMem(p) PROVE Local(p, s, f[k + 1])
    BY DEF Local
  <2>2. k + 1 \in 1 .. n /\ (k + 1) - 1 = k /\ k \in 0 .. n
    BY <1>1, <2>1
  <2>3. f[k + 1] = Execute(f[k], q[k + 1]) /\ f[k] \in State
    BY <1>2, <2>2 DEF IsTrace
  <2>4. q[k + 1] \in ToSet(p.alphabet) /\ q[k + 1] \in Instruction /\ q[k + 1].op \notin IsControl \cup UsesMemory
    BY <1>1, <2>1, <2>2, ProblemIs DEF InMem, Linear
  <2>5. PICK t \in State, ins \in ToSet(p.alphabet) : t = f[k] /\ ins = q[k + 1]
    BY <2>3, <2>4
  <2>6. /\ Execute(t, ins).sp = t.sp /\ Execute(t, ins).mem = t.mem
        /\ \A r \in 0 .. Registers - 1 : r # ins.a => Execute(t, ins).regs[r] = t.regs[r]
    BY <2>4, <2>5, ExecuteStaysLocal
  <2>7. \A r \in 0 .. Registers - 1 : r >= Kept(p) => r # ins.a
    <3>1. ins.a < Kept(p) \/ Kept(p) = Registers
      BY <2>5, KeptIs
    <3>2. Kept(p) \in Nat /\ Registers \in Nat /\ ins.a \in Nat
      BY <2>4, <2>5, KeptIs, WidthsAssumption DEF Instruction
    <3> QED
      BY <3>1, <3>2
  <2>8. t.sp = s.sp /\ t.mem = s.mem /\ \A r \in 0 .. Registers - 1 : r >= Kept(p) => t.regs[r] = s.regs[r]
    BY <1>4, <2>1, <2>2, <2>5 DEF Local
  <2> QED
    BY <2>3, <2>5, <2>6, <2>7, <2>8 DEF Local
<1>5. n \in S
  <2> HIDE DEF S
  <2> QED
    BY <1>1, <1>3, <1>4, NumberInduction
<1> QED
  BY <1>1, <1>5 DEF EndOf, f
-----------------------------------------------------------------------------
(* The states of all examples.                                             *)

Alph(p)    == ToSet(p.alphabet)
Ends(p, q) == [e \in DOMAIN p.inputs |-> EndOf(p.inputs[e], q)]
Sig(p, q)  == [e \in DOMAIN p.inputs |-> KeyOf(p, EndOf(p.inputs[e], q))]
GoesOn(p, q)  == \A e \in DOMAIN p.inputs : EndOf(p.inputs[e], q).halted = "Running"
Meets(p, q)   == \A e \in DOMAIN p.inputs : GoalHolds(p.goals[e], EndOf(p.inputs[e], q))
Same(p, q, r) == \A e \in DOMAIN p.inputs : Alike(EndOf(p.inputs[e], q), EndOf(p.inputs[e], r))

LEMMA AlphIsLinear ==
  ASSUME NEW p \in Problems
  PROVE  /\ Alph(p) \subseteq Linear /\ Seq(Alph(p)) \subseteq Seq(Linear)
         /\ <<>> \in Seq(Alph(p)) /\ Len(<<>>) = 0
BY ProblemIs DEF Alph

LEMMA EndsAreStates ==
  ASSUME NEW p \in Problems, NEW q \in Seq(Linear), NEW e \in DOMAIN p.inputs
  PROVE  p.inputs[e] \in State /\ EndOf(p.inputs[e], q) \in State
BY ProblemIs, EndOfFacts

LEMMA SigIsSame ==
  ASSUME NEW p \in Problems, NEW q \in Seq(Alph(p)), NEW r \in Seq(Alph(p)), GoesOn(p, q), GoesOn(p, r)
  PROVE  Sig(p, q) = Sig(p, r) <=> Same(p, q, r)
<1>1. ASSUME NEW e \in DOMAIN p.inputs
      PROVE  KeyOf(p, EndOf(p.inputs[e], q)) = KeyOf(p, EndOf(p.inputs[e], r))
               <=> Alike(EndOf(p.inputs[e], q), EndOf(p.inputs[e], r))
  <2>1. PICK s \in State, t \in State, u \in State :
          s = p.inputs[e] /\ t = EndOf(p.inputs[e], q) /\ u = EndOf(p.inputs[e], r)
    BY EndsAreStates, AlphIsLinear
  <2>2. Local(p, s, t) /\ Local(p, s, u)
    BY <2>1, EndIsLocal DEF Alph
  <2>3. t.halted = u.halted
    BY <2>1 DEF GoesOn
  <2>4. KeyOf(p, t) = KeyOf(p, u) => Alike(t, u)
    BY <2>2, <2>3, KeysTellApart
  <2>5. Alike(t, u) => KeyOf(p, t) = KeyOf(p, u)
    BY AlikeHaveOneKey
  <2> QED
    BY <2>1, <2>4, <2>5
<1>2. Sig(p, q) = Sig(p, r) <=> \A e \in DOMAIN p.inputs : KeyOf(p, EndOf(p.inputs[e], q)) = KeyOf(p, EndOf(p.inputs[e], r))
  BY DEF Sig
<1> QED
  BY <1>1, <1>2 DEF Same

LEMMA AlikeGoesOn ==
  ASSUME NEW s \in State, NEW t \in State, t.halted = "Running", Alike(s, t), NEW ins \in Linear
  PROVE  Alike(Execute(s, ins), Execute(t, ins))
<1>1. s.pc \in Index /\ s = At(t, s.pc) /\ ins \in Instruction /\ ins.op \notin IsControl
  BY DEF Alike, State, Linear
<1>2. PICK m \in Index : Execute(At(t, s.pc), ins) = At(Execute(t, ins), m)
  BY <1>1, ExecuteAt
<1>3. Execute(t, ins) \in State
  BY <1>1, InstructionsKeepStates
<1>4. At(Execute(t, ins), m).pc = m
  BY <1>3, AtFacts
<1> QED
  BY <1>1, <1>2, <1>4 DEF Alike

\* What comes after cannot tell apart programs that reach the same states.
LEMMA SameGoesOn ==
  ASSUME NEW p \in Problems, NEW q \in Seq(Linear), NEW r \in Seq(Linear),
         GoesOn(p, q), GoesOn(p, r), Same(p, q, r), NEW ins \in Linear
  PROVE  /\ Same(p, Append(q, ins), Append(r, ins))
         /\ GoesOn(p, Append(q, ins)) <=> GoesOn(p, Append(r, ins))
<1>1. ASSUME NEW e \in DOMAIN p.inputs
      PROVE  /\ Alike(EndOf(p.inputs[e], Append(q, ins)), EndOf(p.inputs[e], Append(r, ins)))
             /\ EndOf(p.inputs[e], Append(q, ins)).halted = EndOf(p.inputs[e], Append(r, ins)).halted
  <2>1. PICK s \in State, t \in State, u \in State :
          s = p.inputs[e] /\ t = EndOf(p.inputs[e], q) /\ u = EndOf(p.inputs[e], r)
    BY EndsAreStates
  <2>2. EndOf(s, Append(q, ins)) = Execute(t, ins) /\ EndOf(s, Append(r, ins)) = Execute(u, ins)
    BY <2>1, EndOfFacts
  <2>3. Alike(t, u) /\ u.halted = "Running"
    BY <2>1 DEF Same, GoesOn
  <2>4. Alike(Execute(t, ins), Execute(u, ins))
    BY <2>3, AlikeGoesOn
  <2>5. Execute(t, ins) \in State /\ Execute(u, ins) \in State
    BY InstructionsKeepStates DEF Linear
  <2>6. Execute(t, ins).halted = Execute(u, ins).halted
    BY <2>4, <2>5, AlikeIs
  <2> QED
    BY <2>1, <2>2, <2>4, <2>6
<1> QED
  BY <1>1 DEF Same, GoesOn

\* A program that goes on to its end goes on to the end of each of its parts.
LEMMA PartsGoOn ==
  ASSUME NEW p \in Problems, NEW q \in Seq(Linear), NEW r \in Seq(Linear),
         Len(q) <= Len(r), \A i \in 1 .. Len(q) : q[i] = r[i], GoesOn(p, r)
  PROVE  GoesOn(p, q)
<1>1. ASSUME NEW e \in DOMAIN p.inputs PROVE EndOf(p.inputs[e], q).halted = "Running"
  <2>1. PICK s \in State : s = p.inputs[e]
    BY EndsAreStates
  <2>2. Len(q) \in 0 .. Len(r)
    OBVIOUS
  <2>3. Trace(s, q)[Len(q)] = Trace(s, r)[Len(q)]
    BY <2>2, TracesAgree
  <2>4. Trace(s, r)[Len(q)].halted = "Running"
    BY <2>1, <2>2, HaltsForGood DEF GoesOn
  <2> QED
    BY <2>1, <2>3, <2>4 DEF EndOf
<1> QED
  BY <1>1 DEF GoesOn
-----------------------------------------------------------------------------
(* Runs of straight-line programs.                                         *)

LEMMA RunIs ==
  ASSUME NEW s \in State, s.pc = 0, NEW q \in Seq(Linear), Len(q) < IndexSize
  PROVE  /\ EndOf(s, q).halted = "Running" =>
               EndOf(s, q).pc = Len(q) /\ RunOf(s, q) = [EndOf(s, q) EXCEPT !.halted = "EndOfProgram"]
         /\ EndOf(s, q).halted # "Running" => RunOf(s, q) = EndOf(s, q)
         /\ s.halted = "Running" => EndOf(s, q).halted \in {"Running", "Fault"}
<1> DEFINE n == Len(q)
           f == Trace(s, q)
           T == Turns(s, q, n + 1)
           Goes(k) == /\ T[k] = {f[k]}
                      /\ f[k].halted = "Running" => f[k].pc = k
                      /\ s.halted = "Running" => f[k].halted \in {"Running", "Fault"}
           S == {k \in Nat : k <= n => Goes(k)}
<1>1. n \in Nat /\ n + 1 \in Nat /\ \A k \in 1 .. n : q[k] \in Linear
  OBVIOUS
<1>2. IsTrace(f, s, q)
  BY TraceFacts
<1>3. T[0] = {s} /\ \A k \in 1 .. n + 1 : T[k] = {OneTurn(t, q) : t \in T[k - 1]}
  BY <1>1, TurnsFacts
<1> HIDE DEF f, T
<1>4. 0 \in S
  BY <1>2, <1>3 DEF IsTrace
<1> HIDE DEF Goes
<1>5. ASSUME NEW k \in Nat, k \in S PROVE k + 1 \in S
  <2>1. SUFFICES ASSUME k + 1 <= n PROVE Goes(k + 1)
    OBVIOUS
  <2>2. k + 1 \in 1 .. n /\ k + 1 \in 1 .. n + 1 /\ (k + 1) - 1 = k /\ k \in 0 .. n /\ k <= n /\ k < n
    BY <1>1, <2>1
  <2>3. Goes(k)
    BY <1>5, <2>2
  <2> USE DEF Goes
  <2>4. PICK t \in State, ins \in Linear : t = f[k] /\ ins = q[k + 1] /\ f[k + 1] = Execute(t, ins)
    BY <1>1, <1>2, <2>2 DEF IsTrace
  <2>5. T[k + 1] = {OneTurn(t, q)}
    BY <1>3, <2>2, <2>3, <2>4
  <2>6. CASE t.halted # "Running"
    <3>1. OneTurn(t, q) = t /\ Execute(t, ins) = t
      BY <2>6 DEF OneTurn, Execute
    <3> QED
      BY <2>3, <2>4, <2>5, <2>6, <3>1
  <2>7. CASE t.halted = "Running"
    <3>1. t.pc = k
      BY <2>3, <2>4, <2>7
    <3>2. ~Ended(t, q)
      BY <1>1, <2>2, <3>1 DEF Ended
    <3>3. OneTurn(t, q) = Execute(t, ins)
      BY <2>4, <2>7, <3>1, <3>2 DEF OneTurn, StepOf
    <3>4. ins \in Instruction /\ ins.op \notin IsControl /\ t.pc \in Index
      BY DEF Linear, State
    <3>5. /\ Execute(t, ins).halted \in {"Running", "Fault"}
          /\ Execute(t, ins).halted = "Running" => Execute(t, ins).pc = (k + 1) % IndexSize
      BY <2>7, <3>1, <3>4, ExecuteAt
    <3>6. (k + 1) % IndexSize = k + 1
      BY <1>1, <2>2, SizesArePositive
    <3> QED
      BY <2>4, <2>5, <3>3, <3>5, <3>6
  <2> QED
    BY <2>6, <2>7
<1>6. Goes(n)
  <2>1. n \in S
    <3> HIDE DEF S
    <3> QED
      BY <1>1, <1>4, <1>5, NumberInduction
  <2> QED
    BY <1>1, <2>1
<1> USE DEF Goes
<1>7. PICK t \in State : t = f[n] /\ t = EndOf(s, q)
  BY EndOfFacts DEF EndOf, f
<1>8. T[n + 1] = {OneTurn(t, q)}
  <2>1. n + 1 \in 1 .. n + 1 /\ (n + 1) - 1 = n
    BY <1>1
  <2> QED
    BY <1>3, <1>6, <1>7, <2>1
<1>9. RunOf(s, q) = OneTurn(t, q)
  BY <1>8 DEF RunOf, RunFor, T
<1>10. CASE t.halted # "Running"
  BY <1>6, <1>7, <1>9, <1>10 DEF OneTurn
<1>11. CASE t.halted = "Running"
  <2>1. t.pc = n /\ Ended(t, q)
    BY <1>1, <1>6, <1>7, <1>11 DEF Ended
  <2>2. OneTurn(t, q) = [t EXCEPT !.halted = "EndOfProgram"]
    BY <1>11, <2>1 DEF OneTurn, StepOf
  <2> QED
    BY <1>7, <1>9, <1>11, <2>1, <2>2
<1> QED
  BY <1>10, <1>11
-----------------------------------------------------------------------------
(* Which examples, goals and alphabets the theorems are about.             *)

\* The examples start at the first instruction, and no program returns there.
FromStart(p) == p.maxLength < IndexSize /\ \A e \in DOMAIN p.inputs : p.inputs[e].pc = 0

Awake(p) == \A e \in DOMAIN p.inputs : p.inputs[e].halted = "Running"

\* No goal looks at pc, or at why the machine halted.
BlindGoals(p) ==
  \A e \in DOMAIN p.inputs : \A s, t \in State :
    s.sp = t.sp /\ s.flags = t.flags /\ s.regs = t.regs /\ s.mem = t.mem
      => (GoalHolds(p.goals[e], s) <=> GoalHolds(p.goals[e], t))

Idle(ins) == \A s \in State : Execute(s, ins).halted = "Running" => Alike(Execute(s, ins), s)

Equal(ins, other) == \A s \in State : Execute(s, ins) = Execute(s, other)

\* Instructions of the space that are not of the alphabet do nothing, or what another does.
Covers(p) ==
  p.space \subseteq Linear /\ \A ins \in p.space : Idle(ins) \/ \E other \in ToSet(p.alphabet) : Equal(ins, other)

Verifies(p, q) == \A e \in DOMAIN p.inputs : GoalHolds(p.goals[e], RunOf(p.inputs[e], q))
Fails(p, q)    == \E e \in DOMAIN p.inputs : RunOf(p.inputs[e], q).halted = "Fault"

LEMMA VerifyIs ==
  ASSUME NEW p \in Problems, FromStart(p), BlindGoals(p), NEW q \in Seq(Linear), Len(q) <= p.maxLength
  PROVE  /\ Verifies(p, q) <=> Meets(p, q)
         /\ Awake(p) => (Fails(p, q) <=> ~GoesOn(p, q))
<1>1. ASSUME NEW e \in DOMAIN p.inputs
      PROVE  /\ GoalHolds(p.goals[e], RunOf(p.inputs[e], q)) <=> GoalHolds(p.goals[e], EndOf(p.inputs[e], q))
             /\ Awake(p) => (RunOf(p.inputs[e], q).halted = "Fault" <=> EndOf(p.inputs[e], q).halted # "Running")
  <2>1. PICK s \in State, t \in State : s = p.inputs[e] /\ t = EndOf(p.inputs[e], q)
    BY EndsAreStates
  <2>2. s.pc = 0 /\ Len(q) < IndexSize
    <3>1. Len(q) \in Nat /\ p.maxLength \in Nat /\ IndexSize \in Nat
      BY ProblemIs, SizesArePositive
    <3> QED
      BY <2>1, <3>1 DEF FromStart
  <2>3. /\ t.halted = "Running" => RunOf(s, q) = [t EXCEPT !.halted = "EndOfProgram"]
        /\ t.halted # "Running" => RunOf(s, q) = t
        /\ s.halted = "Running" => t.halted \in {"Running", "Fault"}
    BY <2>1, <2>2, RunIs
  <2>4. [t EXCEPT !.halted = "EndOfProgram"] \in State
    BY Changed DEF Reason
  <2>5. PICK u \in State : u = [t EXCEPT !.halted = "EndOfProgram"]
    BY <2>4
  <2>6. u.sp = t.sp /\ u.flags = t.flags /\ u.regs = t.regs /\ u.mem = t.mem /\ u.halted = "EndOfProgram"
    BY <2>5 DEF State
  <2>7. GoalHolds(p.goals[e], u) <=> GoalHolds(p.goals[e], t)
    BY <2>6 DEF BlindGoals
  <2>8. Awake(p) => s.halted = "Running"
    BY <2>1 DEF Awake
  <2> QED
    BY <2>1, <2>3, <2>5, <2>6, <2>7, <2>8
<1> QED
  BY <1>1 DEF Verifies, Fails, Meets, GoesOn

LEMMA SameMeet ==
  ASSUME NEW p \in Problems, BlindGoals(p), NEW q \in Seq(Linear), NEW r \in Seq(Linear), Same(p, q, r)
  PROVE  Meets(p, q) <=> Meets(p, r)
<1>1. ASSUME NEW e \in DOMAIN p.inputs
      PROVE  GoalHolds(p.goals[e], EndOf(p.inputs[e], q)) <=> GoalHolds(p.goals[e], EndOf(p.inputs[e], r))
  <2>1. PICK t \in State, u \in State : t = EndOf(p.inputs[e], q) /\ u = EndOf(p.inputs[e], r)
    BY EndsAreStates
  <2>2. Alike(t, u)
    BY <2>1 DEF Same
  <2>3. t.sp = u.sp /\ t.flags = u.flags /\ t.regs = u.regs /\ t.mem = u.mem
    BY <2>2, AlikeIs
  <2> QED
    BY <2>1, <2>3 DEF BlindGoals
<1> QED
  BY <1>1 DEF Meets

\* No program of at most n instructions of the alphabet solves the problem.
NoneOf(p, n) == \A r \in Seq(Alph(p)) : Len(r) <= n /\ GoesOn(p, r) => ~Meets(p, r)

\* Whatever a program of the space reaches, one of the alphabet, no longer, reaches too.
LEMMA SpaceIsCovered ==
  ASSUME NEW p \in Problems, Covers(p), NEW n \in Nat, NEW w \in Seq(p.space), Len(w) = n, GoesOn(p, w)
  PROVE  \E r \in Seq(Alph(p)) : Len(r) <= n /\ GoesOn(p, r) /\ Same(p, w, r)
<1> DEFINE Reach(v) == \E r \in Seq(Alph(p)) : Len(r) <= Len(v) /\ GoesOn(p, r) /\ Same(p, v, r)
           S == {k \in Nat : \A v \in Seq(p.space) : Len(v) = k /\ GoesOn(p, v) => Reach(v)}
<1>1. p.space \subseteq Linear /\ Seq(p.space) \subseteq Seq(Linear)
  BY DEF Covers
<1>2. 0 \in S
  <2>1. SUFFICES ASSUME NEW v \in Seq(p.space), Len(v) = 0, GoesOn(p, v) PROVE Reach(v)
    OBVIOUS
  <2>2. v = <<>>
    BY <2>1
  <2>3. Same(p, <<>>, <<>>)
    <3>1. ASSUME NEW e \in DOMAIN p.inputs PROVE Alike(EndOf(p.inputs[e], <<>>), EndOf(p.inputs[e], <<>>))
      BY EndsAreStates, AlphIsLinear, AlikeIs
    <3> QED
      BY <3>1 DEF Same
  <2>4. <<>> \in Seq(Alph(p)) /\ Len(<<>>) <= Len(v) /\ GoesOn(p, <<>>) /\ Same(p, v, <<>>)
    BY <2>1, <2>2, <2>3
  <2> QED
    BY <2>4
<1> HIDE DEF Reach
<1>3. ASSUME NEW k \in Nat, k \in S PROVE k + 1 \in S
  <2>1. SUFFICES ASSUME NEW v \in Seq(p.space), Len(v) = k + 1, GoesOn(p, v) PROVE Reach(v)
    OBVIOUS
  <2>2. PICK u \in Seq(p.space), ins \in p.space : v = Append(u, ins)
    <3>1. v # <<>>
      BY <2>1
    <3> QED
      BY <3>1, SequenceEmptyOrAppend
  <2>3. /\ u \in Seq(Linear) /\ v \in Seq(Linear) /\ ins \in Linear /\ Len(u) = k
        /\ \A i \in 1 .. Len(u) : u[i] = v[i]
    <3>1. Len(v) = Len(u) + 1 /\ Len(u) \in Nat /\ \A i \in 1 .. Len(u) : u[i] = v[i]
      BY <2>2, AppendIs
    <3> QED
      BY <1>1, <2>1, <3>1
  <2>4. GoesOn(p, u)
    BY <2>1, <2>3, PartsGoOn
  <2>5. PICK r \in Seq(Alph(p)) : Len(r) <= Len(u) /\ GoesOn(p, r) /\ Same(p, u, r)
    BY <1>3, <2>3, <2>4 DEF Reach
  <2>6. r \in Seq(Linear) /\ Len(r) \in Nat
    BY AlphIsLinear
  <2>7. ASSUME NEW e \in DOMAIN p.inputs
        PROVE  /\ EndOf(p.inputs[e], v) = Execute(EndOf(p.inputs[e], u), ins)
               /\ EndOf(p.inputs[e], u) \in State /\ EndOf(p.inputs[e], r) \in State /\ EndOf(p.inputs[e], v) \in State
    BY <2>2, <2>3, <2>6, EndsAreStates, EndOfFacts
  <2>8. CASE Idle(ins)
    <3>1. ASSUME NEW e \in DOMAIN p.inputs PROVE Alike(EndOf(p.inputs[e], v), EndOf(p.inputs[e], r))
      <4>1. PICK s \in State, t \in State, x \in State :
              s = EndOf(p.inputs[e], u) /\ t = EndOf(p.inputs[e], r) /\ x = EndOf(p.inputs[e], v)
        BY <2>7
      <4>2. x = Execute(s, ins) /\ x.halted = "Running"
        BY <2>1, <2>7, <4>1 DEF GoesOn
      <4>3. Alike(x, s) /\ Alike(s, t)
        BY <2>5, <2>8, <4>1, <4>2 DEF Idle, Same
      <4>4. Alike(x, t)
        BY <4>3, AlikeIs
      <4> QED
        BY <4>1, <4>4
    <3>2. Same(p, v, r)
      BY <3>1 DEF Same
    <3>3. Len(r) <= Len(v)
      BY <2>1, <2>3, <2>5, <2>6
    <3> QED
      BY <2>5, <3>2, <3>3 DEF Reach
  <2>9. CASE \E other \in ToSet(p.alphabet) : Equal(ins, other)
    <3>1. PICK j \in Alph(p) : Equal(ins, j)
      BY <2>9 DEF Alph
    <3>2. j \in Linear
      BY AlphIsLinear
    <3> DEFINE x == Append(u, j)
               y == Append(r, j)
    <3>3. Same(p, x, y) /\ (GoesOn(p, x) <=> GoesOn(p, y))
      BY <2>3, <2>4, <2>5, <2>6, <3>2, SameGoesOn
    <3>4. ASSUME NEW e \in DOMAIN p.inputs PROVE EndOf(p.inputs[e], x) = EndOf(p.inputs[e], v)
      <4>1. EndOf(p.inputs[e], x) = Execute(EndOf(p.inputs[e], u), j)
        BY <2>3, <3>2, EndsAreStates, EndOfFacts
      <4> QED
        BY <2>7, <3>1, <4>1 DEF Equal
    <3>5. Same(p, v, y) /\ GoesOn(p, y)
      BY <2>1, <3>3, <3>4 DEF Same, GoesOn
    <3>6. y \in Seq(Alph(p)) /\ Len(y) = Len(r) + 1
      BY <3>1, AppendIs
    <3>7. Len(y) <= Len(v)
      BY <2>1, <2>3, <2>5, <2>6, <3>6
    <3> QED
      BY <3>5, <3>6, <3>7 DEF Reach
  <2> QED
    BY <2>8, <2>9 DEF Covers
<1>4. n \in S
  <2> HIDE DEF S
  <2> QED
    BY <1>2, <1>3, NumberInduction
<1> QED
  BY <1>4 DEF Reach

LEMMA NoneInSpace ==
  ASSUME NEW p \in Problems, FromStart(p), BlindGoals(p), Covers(p), Awake(p),
         NEW m \in Int, NoneOf(p, m), NEW n \in Nat, n <= m, n <= p.maxLength, NEW w \in [1 .. n -> p.space]
  PROVE  ~(Verifies(p, w) /\ ~Fails(p, w))
<1>1. SUFFICES ASSUME Verifies(p, w), ~Fails(p, w) PROVE FALSE
  OBVIOUS
<1>2. w \in Seq(p.space) /\ Len(w) = n
  OBVIOUS
<1>3. w \in Seq(Linear)
  BY <1>2 DEF Covers
<1>4. Meets(p, w) /\ GoesOn(p, w)
  BY <1>1, <1>2, <1>3, VerifyIs
<1>5. PICK r \in Seq(Alph(p)) : Len(r) <= n /\ GoesOn(p, r) /\ Same(p, w, r)
  BY <1>2, <1>4, SpaceIsCovered
<1>6. Meets(p, r)
  BY <1>3, <1>4, <1>5, SameMeet, AlphIsLinear
<1>7. Len(r) <= m
  <2>1. Len(r) \in Nat
    OBVIOUS
  <2> QED
    BY <1>5, <2>1
<1> QED
  BY <1>5, <1>6, <1>7 DEF NoneOf
-----------------------------------------------------------------------------
(* The search: what holds of it at any time.                               *)

NodeOf(p, r) ==
  [images |-> [e \in DOMAIN p.inputs |-> ImageOf(p, EndOf(p.inputs[e], r))], program |-> r]

NodesOf(p, d) == {NodeOf(p, r) : r \in {q \in Seq(Alph(p)) : Len(q) = d}}

LEMMA NodeFacts ==
  ASSUME NEW p, NEW d, NEW f \in Seq(NodesOf(p, d)), NEW k \in DOMAIN f
  PROVE  /\ f[k] = NodeOf(p, f[k].program) /\ f[k].program \in Seq(Alph(p)) /\ Len(f[k].program) = d
         /\ f[k].images = [e \in DOMAIN p.inputs |-> ImageOf(p, EndOf(p.inputs[e], f[k].program))]
<1>1. f[k] \in NodesOf(p, d)
  OBVIOUS
<1>2. PICK r \in Seq(Alph(p)) : Len(r) = d /\ f[k] = NodeOf(p, r)
  BY <1>1 DEF NodesOf
<1> QED
  BY <1>2 DEF NodeOf

BudgetInv ==
  /\ prob \in Problems /\ phase \in {"start", "search", "done"}
  /\ states \in Nat /\ states <= prob.maxStates
  /\ exhausted \in BOOLEAN /\ (exhausted => states = prob.maxStates /\ result = {} /\ phase = "done")
  /\ phase # "done" => result = {}
  /\ phase = "start" => depth = 0 /\ turn = 0 /\ next = <<>> /\ work = prob.inputs

\* Breadth first: what nodes and scratch states are.
BreadthInv ==
  /\ depth \in Nat \ {0} /\ depth <= prob.maxLength /\ turn \in Nat
  /\ frontier \in Seq(NodesOf(prob, depth - 1)) /\ next \in Seq(NodesOf(prob, depth))
  /\ \E r \in Seq(Alph(prob)) : work = Ends(prob, r)
  /\ \A k \in DOMAIN next : GoesOn(prob, next[k].program)
  /\ Awake(prob) => \A k \in DOMAIN frontier : GoesOn(prob, frontier[k].program)

\* What the model computes of the states a program reaches.
LEMMA EndsAre ==
  ASSUME prob \in Problems, NEW r \in Seq(Alph(prob))
  PROVE  /\ prob.inputs = Ends(prob, <<>>)
         /\ Faulted(Ends(prob, r)) <=> ~GoesOn(prob, r)
         /\ Keys(Ends(prob, r)) = Sig(prob, r)
         /\ GoalsHold(Ends(prob, r)) <=> Meets(prob, r)
         /\ Node(Ends(prob, r), r) = NodeOf(prob, r)
         /\ \A ins \in Alph(prob) : Apply(ins, Ends(prob, r)) = Ends(prob, Append(r, ins))
<1> DEFINE D == DOMAIN prob.inputs
<1>1. \A e \in D : prob.inputs[e] \in State /\ EndOf(prob.inputs[e], r) \in State /\ EndOf(prob.inputs[e], <<>>) = prob.inputs[e]
  BY EndsAreStates, AlphIsLinear, EndOfFacts
<1>2. prob.inputs = [e \in D |-> prob.inputs[e]]
  BY ProblemIs
<1>3. prob.inputs = Ends(prob, <<>>)
  BY <1>1, <1>2 DEF Ends
<1>4. \A s : Key(s) = KeyOf(prob, s) /\ Image(s) = ImageOf(prob, s)
  BY DEF Key, KeyOf, Image, ImageOf, MemoryOps, InMem, Low, LowOf, KeyRegisters, Kept, Fields
<1>5. Faulted(Ends(prob, r)) <=> ~GoesOn(prob, r)
  BY DEF Faulted, Ends, GoesOn, Examples
<1>6. Keys(Ends(prob, r)) = Sig(prob, r)
  BY <1>4 DEF Keys, Sig, Ends, Examples
<1>7. GoalsHold(Ends(prob, r)) <=> Meets(prob, r)
  BY DEF GoalsHold, Meets, Ends, Examples
<1>8. Node(Ends(prob, r), r) = NodeOf(prob, r)
  BY <1>4 DEF Node, NodeOf, Ends, Examples
<1>9. ASSUME NEW ins \in Alph(prob) PROVE Apply(ins, Ends(prob, r)) = Ends(prob, Append(r, ins))
  <2>1. \A e \in D : EndOf(prob.inputs[e], Append(r, ins)) = Execute(EndOf(prob.inputs[e], r), ins)
    BY <1>1, AlphIsLinear, EndOfFacts
  <2> QED
    BY <2>1 DEF Apply, Ends, Examples
<1> QED
  BY <1>3, <1>5, <1>6, <1>7, <1>8, <1>9

\* The turn of a node and one of l instructions, and the node and the instruction of a turn.
TurnOf(k, i, l) == (k - 1) * l + (i - 1)
NodeAt(t, l)    == (t \div l) + 1
InsAt(t, l)     == (t % l) + 1

LEMMA TurnIs ==
  ASSUME NEW l \in Nat, NEW n \in Nat, NEW t \in Nat
  PROVE  /\ t < n * l => NodeAt(t, l) \in 1 .. n /\ InsAt(t, l) \in 1 .. l
         /\ \A k \in 1 .. n, i \in 1 .. l :
               /\ TurnOf(k, i, l) \in Nat /\ TurnOf(k, i, l) < n * l
               /\ TurnOf(k, i, l) = t => k = NodeAt(t, l) /\ i = InsAt(t, l)
<1>1. ASSUME t < n * l PROVE l # 0 /\ (t \div l) + 1 \in 1 .. n /\ (t % l) + 1 \in 1 .. l
  <2>1. l # 0
    <3>1. SUFFICES ASSUME l = 0 PROVE FALSE
      OBVIOUS
    <3>2. n * l = 0
      BY <3>1
    <3> QED
      BY <1>1, <3>2
  <2> DEFINE q == t \div l
             m == t % l
  <2>2. q \in Int /\ m \in 0 .. l - 1 /\ t = l * q + m
    BY <2>1
  <2> HIDE DEF q, m
  <2>3. q >= 0
    <3>1. SUFFICES ASSUME q <= -1 PROVE FALSE
      BY <2>2
    <3>2. l * q <= -l
      <4>1. l * (q + 1) <= 0
        BY <2>1, <2>2, <3>1
      <4>2. l * (q + 1) = l * q + l /\ l * q \in Int
        BY <2>2
      <4> QED
        BY <4>1, <4>2
    <3> QED
      BY <2>2, <3>2
  <2>4. q < n
    <3>1. SUFFICES ASSUME q >= n PROVE FALSE
      BY <2>2
    <3>2. l * (q - n) >= 0
      BY <2>1, <2>2, <3>1
    <3>3. l * (q - n) = l * q - l * n /\ l * n = n * l /\ l * q \in Int /\ l * n \in Int
      BY <2>2
    <3> QED
      BY <1>1, <2>2, <3>2, <3>3
  <2>5. q + 1 \in 1 .. n /\ m + 1 \in 1 .. l
    BY <2>2, <2>3, <2>4
  <2> QED
    BY <2>1, <2>5 DEF q, m
<1>2. ASSUME NEW k \in 1 .. n, NEW i \in 1 .. l
      PROVE  /\ (k - 1) * l + (i - 1) \in Nat /\ (k - 1) * l + (i - 1) < n * l
             /\ (k - 1) * l + (i - 1) = t => k = (t \div l) + 1 /\ i = (t % l) + 1
  <2>1. l \in Nat \ {0} /\ k - 1 \in Int /\ i - 1 \in 0 .. l - 1 /\ (k - 1) * l = l * (k - 1)
    OBVIOUS
  <2>2. (k - 1) * l + (i - 1) \in Nat
    <3>1. (k - 1) * l >= 0 /\ (k - 1) * l \in Int
      <4>1. PICK j \in Nat : j = k - 1
        OBVIOUS
      <4>2. j * l \in Nat
        OBVIOUS
      <4> QED
        BY <4>1, <4>2
    <3> QED
      BY <2>1, <3>1
  <2>3. (k - 1) * l + (i - 1) < n * l
    <3>1. PICK j \in Nat : j = n - k
      OBVIOUS
    <3>2. j * l \in Nat /\ (k - 1) * l \in Int /\ n * l \in Int
      OBVIOUS
    <3>3. n = (k - 1) + 1 + j
      BY <3>1
    <3>4. n * l = (k - 1) * l + l + j * l
      BY <3>3
    <3> QED
      BY <2>1, <3>2, <3>4
  <2>4. ASSUME (k - 1) * l + (i - 1) = t PROVE k = (t \div l) + 1 /\ i = (t % l) + 1
    <3>1. t = l * (k - 1) + (i - 1)
      BY <2>1, <2>4
    <3>2. t \div l = k - 1 /\ t % l = i - 1
      BY <2>1, <3>1, QuotientIs
    <3> QED
      BY <3>2
  <2> QED
    BY <2>2, <2>3, <2>4
<1> QED
  BY <1>1, <1>2 DEF TurnOf, NodeAt, InsAt

\* The candidate of a turn extends its parent, and is applied to the states the parent
\* reaches, whatever is left in the scratch states.
LEMMA CandidateIs ==
  ASSUME prob \in Problems, BreadthInv, Breadth
  PROVE  /\ NodeAt(turn, Len(prob.alphabet)) \in DOMAIN frontier
         /\ InsAt(turn, Len(prob.alphabet)) \in 1 .. Len(prob.alphabet)
         /\ Parent.program \in Seq(Alph(prob)) /\ Len(Parent.program) = depth - 1
         /\ Candidate \in Alph(prob)
         /\ Extended \in Seq(Alph(prob)) /\ Len(Extended) = depth
         /\ \A e \in Examples : Loaded(Parent.images[e], work[e]) = EndOf(prob.inputs[e], Parent.program)
         /\ Reached = Ends(prob, Extended)
<1> DEFINE l == Len(prob.alphabet)
           k == NodeAt(turn, l)
           i == InsAt(turn, l)
           q == Parent.program
<1>1. l \in Nat /\ turn \in Nat /\ Len(frontier) \in Nat /\ DOMAIN frontier = 1 .. Len(frontier) /\ depth \in Nat
  BY ProblemIs DEF BreadthInv
<1>2. turn < Len(frontier) * l
  BY DEF Breadth
<1>3. k \in DOMAIN frontier /\ i \in 1 .. l
  BY <1>1, <1>2, TurnIs
<1>4. Parent = frontier[k] /\ Candidate = prob.alphabet[i]
  BY DEF Parent, Candidate, NodeAt, InsAt
<1> HIDE DEF k, i
<1>5. /\ q \in Seq(Alph(prob)) /\ Len(q) = depth - 1
      /\ Parent.images = [e \in DOMAIN prob.inputs |-> ImageOf(prob, EndOf(prob.inputs[e], q))]
  <2>1. PICK d : d = depth - 1
    OBVIOUS
  <2>2. frontier \in Seq(NodesOf(prob, d))
    BY <2>1 DEF BreadthInv
  <2>3. /\ frontier[k].program \in Seq(Alph(prob)) /\ Len(frontier[k].program) = d
        /\ frontier[k].images = [e \in DOMAIN prob.inputs |-> ImageOf(prob, EndOf(prob.inputs[e], frontier[k].program))]
    BY <1>3, <2>2, NodeFacts
  <2> QED
    BY <1>4, <2>1, <2>3
<1>6. Candidate \in Alph(prob)
  BY <1>3, <1>4, ProblemIs DEF Alph
<1> HIDE DEF q
<1>7. Extended = Append(q, Candidate) /\ Extended \in Seq(Alph(prob)) /\ Len(Extended) = depth
  BY <1>1, <1>5, <1>6, AppendIs DEF Extended, q
<1>8. ASSUME NEW e \in DOMAIN prob.inputs PROVE Loaded(Parent.images[e], work[e]) = EndOf(prob.inputs[e], q)
  <2>1. PICK r \in Seq(Alph(prob)) : work = Ends(prob, r)
    BY DEF BreadthInv
  <2>2. PICK s \in State, t \in State, u \in State :
          s = prob.inputs[e] /\ t = EndOf(s, q) /\ u = EndOf(s, r) /\ u = work[e]
    BY <1>5, <2>1, EndsAreStates, AlphIsLinear DEF Ends
  <2>3. Local(prob, s, t) /\ Local(prob, s, u)
    BY <1>5, <2>2, EndIsLocal DEF Alph
  <2>4. LoadOf(prob, ImageOf(prob, t), u) = t
    BY <2>3, LoadedIsStored
  <2>5. Loaded(Parent.images[e], work[e]) = LoadOf(prob, ImageOf(prob, t), u)
    BY <1>5, <2>2 DEF Loaded, LoadOf, MemoryOps, InMem, KeyRegisters, Kept, Fields
  <2> QED
    BY <2>2, <2>4, <2>5
<1>9. Reached = Apply(Candidate, Ends(prob, q))
  BY <1>8 DEF Reached, Ends, Examples
<1>10. Reached = Ends(prob, Extended)
  BY <1>5, <1>6, <1>7, <1>9, EndsAre
<1> QED
  BY <1>3, <1>5, <1>6, <1>7, <1>8, <1>10 DEF k, i, q, Examples

LEMMA BudgetInit == Init => BudgetInv
<1> SUFFICES ASSUME Init PROVE BudgetInv
  OBVIOUS
<1>1. prob \in Problems /\ prob.maxStates \in Nat
  BY ProblemIs DEF Init
<1>2. /\ phase = "start" /\ states = 0 /\ exhausted = FALSE /\ result = {} /\ depth = 0 /\ turn = 0
      /\ next = <<>> /\ work = prob.inputs
  BY DEF Init
<1>3. states \in Nat /\ states <= prob.maxStates
  BY <1>1, <1>2
<1>4. exhausted \in BOOLEAN /\ ~exhausted
  BY <1>2
<1> QED
  BY <1>1, <1>2, <1>3, <1>4 DEF BudgetInv

LEMMA BudgetNext ==
  ASSUME BudgetInv, [Next]_vars
  PROVE  BudgetInv' /\ prob' = prob
<1>1. prob.maxStates \in Nat
  BY ProblemIs DEF BudgetInv
<1>2. CASE Trivial
  BY <1>2 DEF Trivial, Done, BudgetInv
<1>3. CASE Begin
  BY <1>3 DEF Begin, Done, BudgetInv
<1>4. CASE GiveUp
  BY <1>1, <1>4 DEF GiveUp, OverBudget, Done, BudgetInv
<1>5. CASE Discard
  BY <1>1, <1>5 DEF Discard, Try, Breadth, OverBudget, Done, BudgetInv
<1>6. CASE Keep
  BY <1>1, <1>6 DEF Keep, Try, Breadth, OverBudget, Done, BudgetInv
<1>7. CASE Level
  BY <1>7 DEF Level, Done, BudgetInv
<1>8. CASE Visit
  BY <1>1, <1>8 DEF Visit, Deep, OverBudget, Done, BudgetInv, oeVars
<1>9. CASE Backtrack
  BY <1>9 DEF Backtrack, BudgetInv, oeVars
<1>10. CASE Limit
  BY <1>10 DEF Limit, Done, BudgetInv, oeVars
<1>11. CASE UNCHANGED vars
  BY <1>11 DEF vars, oeVars, BudgetInv
<1> QED
  BY <1>2, <1>3, <1>4, <1>5, <1>6, <1>7, <1>8, <1>9, <1>10, <1>11 DEF Next

\* Of the sequences of nodes, and a turn, when a candidate has been tried.
LEMMA BreadthStep ==
  ASSUME BudgetInv, phase = "search" /\ prob.oe => BreadthInv, [Next]_vars,
         phase' = "search", prob'.oe
  PROVE  BreadthInv'
<1>1. prob \in Problems /\ prob' = prob
  BY BudgetNext DEF BudgetInv
<1>2. CASE Begin
  <2>1. /\ phase = "start" /\ depth' = 1 /\ prob.maxLength # 0 /\ turn' = 0 /\ next' = <<>> /\ work' = prob.inputs
        /\ frontier' = <<Node(prob.inputs, <<>>)>>
    BY <1>1, <1>2 DEF Begin, Done, BudgetInv
  <2>2. <<>> \in Seq(Alph(prob)) /\ Len(<<>>) = 0
    BY <1>1, AlphIsLinear
  <2>3. work' = Ends(prob, <<>>) /\ frontier' = <<NodeOf(prob, <<>>)>>
    BY <1>1, <2>1, <2>2, EndsAre
  <2>4. NodeOf(prob, <<>>) \in NodesOf(prob, 0)
    BY <2>2 DEF NodesOf
  <2>5. frontier' \in Seq(NodesOf(prob, 0)) /\ DOMAIN frontier' = {1} /\ frontier'[1].program = <<>>
    <3>1. frontier'[1] = NodeOf(prob, <<>>) /\ NodeOf(prob, <<>>).program = <<>>
      BY <2>3 DEF NodeOf
    <3> QED
      BY <2>3, <2>4, <3>1
  <2>6. Awake(prob) => GoesOn(prob, <<>>)
    BY <1>1, EndsAreStates, AlphIsLinear, EndOfFacts DEF Awake, GoesOn
  <2>7. 1 <= prob.maxLength /\ 1 - 1 = 0
    BY <1>1, <2>1, ProblemIs
  <2>8. <<>> \in Seq(NodesOf(prob, 1)) /\ DOMAIN <<>> = {}
    OBVIOUS
  <2>9. depth' - 1 = 0 /\ NodesOf(prob', depth' - 1) = NodesOf(prob, 0) /\ NodesOf(prob', depth') = NodesOf(prob, 1)
    BY <1>1, <2>1
  <2>10. /\ depth' \in Nat \ {0} /\ depth' <= prob'.maxLength /\ turn' \in Nat
         /\ frontier' \in Seq(NodesOf(prob', depth' - 1)) /\ next' \in Seq(NodesOf(prob', depth'))
    BY <1>1, <2>1, <2>5, <2>7, <2>8, <2>9
  <2>11. \E r \in Seq(Alph(prob')) : work' = Ends(prob', r)
    BY <1>1, <2>2, <2>3
  <2>12. /\ \A k \in DOMAIN next' : GoesOn(prob', next'[k].program)
         /\ Awake(prob') => \A k \in DOMAIN frontier' : GoesOn(prob', frontier'[k].program)
    BY <1>1, <2>1, <2>5, <2>6, <2>8
  <2> QED
    BY <2>10, <2>11, <2>12 DEF BreadthInv
<1>3. CASE Discard \/ Keep
  <2>1. /\ Breadth /\ turn' = turn + 1 /\ work' = Reached /\ UNCHANGED <<prob, depth, frontier>>
        /\ phase = "search"
    BY <1>3 DEF Discard, Keep, Try, Breadth
  <2>2. BreadthInv
    BY <1>1, <2>1
  <2>3. Extended \in Seq(Alph(prob)) /\ Len(Extended) = depth /\ Reached = Ends(prob, Extended)
    BY <1>1, <2>1, <2>2, CandidateIs
  <2>4. next' \in Seq(NodesOf(prob, depth)) /\ \A k \in DOMAIN next' : GoesOn(prob, next'[k].program)
    <3>1. CASE next' = next
      BY <2>2, <3>1 DEF BreadthInv
    <3>2. CASE next' # next
      <4>1. next' = Append(next, Node(Reached, Extended)) /\ ~Faulted(Reached)
        BY <1>3, <3>2 DEF Discard, Keep
      <4>2. PICK node : node = NodeOf(prob, Extended)
        OBVIOUS
      <4>3. next' = Append(next, node) /\ GoesOn(prob, Extended)
        BY <1>1, <2>3, <4>1, <4>2, EndsAre
      <4>4. node \in NodesOf(prob, depth) /\ node.program = Extended
        BY <2>3, <4>2 DEF NodesOf, NodeOf
      <4>5. next \in Seq(NodesOf(prob, depth)) /\ \A k \in DOMAIN next : GoesOn(prob, next[k].program)
        BY <2>2 DEF BreadthInv
      <4>6. /\ next' \in Seq(NodesOf(prob, depth)) /\ Len(next') = Len(next) + 1 /\ Len(next) \in Nat
            /\ \A i \in 1 .. Len(next) : next'[i] = next[i]
            /\ next'[Len(next) + 1] = node
        BY <4>3, <4>4, <4>5, AppendIs
      <4>7. ASSUME NEW k \in DOMAIN next' PROVE GoesOn(prob, next'[k].program)
        <5>1. k \in 1 .. Len(next) \/ k = Len(next) + 1
          BY <4>6
        <5>2. CASE k \in 1 .. Len(next)
          <6>1. k \in DOMAIN next /\ next'[k] = next[k]
            BY <4>5, <4>6, <5>2
          <6> QED
            BY <4>5, <6>1
        <5>3. CASE k = Len(next) + 1
          BY <4>3, <4>4, <4>6, <5>3
        <5> QED
          BY <5>1, <5>2, <5>3
      <4> QED
        BY <4>6, <4>7
    <3> QED
      BY <3>1, <3>2
  <2>5. turn + 1 \in Nat
    BY <2>2 DEF BreadthInv
  <2> QED
    BY <2>1, <2>2, <2>3, <2>4, <2>5 DEF BreadthInv
<1>4. CASE Level
  <2>1. /\ phase = "search" /\ prob.oe /\ frontier' = next /\ next' = <<>> /\ turn' = 0 /\ depth' = depth + 1
        /\ depth < prob.maxLength /\ work' = work
    BY <1>4 DEF Level, Done
  <2>2. BreadthInv
    BY <1>1, <2>1
  <2>3. depth \in Nat /\ prob.maxLength \in Nat
    BY <1>1, <2>2, ProblemIs DEF BreadthInv
  <2>4. depth' - 1 = depth /\ depth' \in Nat \ {0} /\ depth' <= prob.maxLength
    BY <2>1, <2>3
  <2>5. <<>> \in Seq(NodesOf(prob, depth')) /\ DOMAIN <<>> = {}
    OBVIOUS
  <2> QED
    BY <1>1, <2>1, <2>2, <2>4, <2>5 DEF BreadthInv
<1>5. CASE UNCHANGED vars
  BY <1>5 DEF vars, oeVars, BreadthInv
<1>6. CASE Trivial \/ GiveUp
  BY <1>6 DEF Trivial, GiveUp, Done
<1>7. CASE Visit \/ Backtrack \/ Limit
  BY <1>1, <1>7 DEF Visit, Deep, Backtrack, Limit
<1> QED
  BY <1>2, <1>3, <1>4, <1>5, <1>6, <1>7 DEF Next

\* What the node to expand stores is what its program reaches.
LEMMA ImagesAre ==
  ASSUME prob \in Problems, phase = "search" /\ prob.oe => BreadthInv, FromStart(prob)
  PROVE  ImagesAreStates
<1> SUFFICES ASSUME Breadth, NEW e \in Examples
             PROVE  StepOf(Loaded(Parent.images[e], work[e]), Parent.program) = RunOf(prob.inputs[e], Parent.program)
  BY DEF ImagesAreStates
<1>1. BreadthInv
  BY DEF Breadth
<1>2. PICK q \in Seq(Alph(prob)) : q = Parent.program /\ Len(q) = depth - 1
  BY <1>1, CandidateIs
<1>3. PICK s \in State, t \in State : s = prob.inputs[e] /\ t = EndOf(s, q)
  BY EndsAreStates, AlphIsLinear DEF Examples
<1>4. Loaded(Parent.images[e], work[e]) = t
  BY <1>1, <1>2, <1>3, CandidateIs
<1>5. s.pc = 0 /\ Len(q) < IndexSize /\ q \in Seq(Linear) /\ Len(q) \in Nat
  <2>1. depth <= prob.maxLength /\ prob.maxLength < IndexSize /\ prob.maxLength \in Nat /\ IndexSize \in Nat /\ depth \in Nat
    BY <1>1, ProblemIs, SizesArePositive DEF BreadthInv, FromStart
  <2> QED
    BY <1>2, <1>3, <2>1, AlphIsLinear DEF FromStart, Examples
<1>6. /\ t.halted = "Running" => t.pc = Len(q) /\ RunOf(s, q) = [t EXCEPT !.halted = "EndOfProgram"]
      /\ t.halted # "Running" => RunOf(s, q) = t
  BY <1>3, <1>5, RunIs
<1>7. StepOf(t, q) = RunOf(s, q)
  BY <1>5, <1>6 DEF StepOf, Ended
<1> QED
  BY <1>2, <1>3, <1>4, <1>7
-----------------------------------------------------------------------------
(* Breadth first: nothing is lost.                                         *)

Covered(p, keys, r, i) ==
  GoesOn(p, Append(r, p.alphabet[i])) => Sig(p, Append(r, p.alphabet[i])) \in keys

\* Each key is that of a program which is no solution, whose own level is over, unless
\* that is the last one or a node of the next one has this key.
KnownInv ==
  \A key \in seen : \E r \in Seq(Alph(prob)) :
    /\ GoesOn(prob, r) /\ Sig(prob, r) = key /\ ~Meets(prob, r) /\ Len(r) <= depth
    /\ Len(r) < depth \/ depth = prob.maxLength \/ \E k \in DOMAIN next : Sig(prob, next[k].program) = key

\* Every program of the levels before is known; so is each program one longer, unless a node
\* that reaches what the former reaches is still to be extended in this way.
CoveredTo(keys, t) ==
  \A r \in Seq(Alph(prob)) : GoesOn(prob, r) /\ Len(r) < depth =>
    /\ Sig(prob, r) \in keys
    /\ \A i \in 1 .. Len(prob.alphabet) :
         \/ Covered(prob, keys, r, i)
         \/ \E k \in DOMAIN frontier :
              Sig(prob, frontier[k].program) = Sig(prob, r) /\ TurnOf(k, i, Len(prob.alphabet)) >= t

LEMMA CoveredAlike ==
  ASSUME NEW p \in Problems, NEW q \in Seq(Alph(p)), NEW r \in Seq(Alph(p)), GoesOn(p, q), GoesOn(p, r),
         Sig(p, q) = Sig(p, r), NEW i \in 1 .. Len(p.alphabet), NEW keys, Covered(p, keys, q, i)
  PROVE  Covered(p, keys, r, i)
<1>1. PICK ins \in Alph(p) : ins = p.alphabet[i]
  BY ProblemIs DEF Alph
<1> DEFINE q1 == Append(q, ins)
           r1 == Append(r, ins)
<1>2. q1 \in Seq(Alph(p)) /\ r1 \in Seq(Alph(p))
  BY AppendIs
<1>3. Same(p, q, r)
  BY SigIsSame
<1>4. Same(p, q1, r1) /\ (GoesOn(p, q1) <=> GoesOn(p, r1))
  BY <1>3, SameGoesOn, AlphIsLinear
<1> HIDE DEF q1, r1
<1>5. ASSUME GoesOn(p, r1) PROVE Sig(p, r1) \in keys
  <2>1. GoesOn(p, q1)
    BY <1>4, <1>5
  <2>2. Sig(p, q1) = Sig(p, r1)
    BY <1>2, <1>4, <1>5, <2>1, SigIsSame
  <2>3. Sig(p, q1) \in keys
    BY <1>1, <2>1 DEF Covered, q1
  <2> QED
    BY <2>2, <2>3
<1> QED
  BY <1>1, <1>5 DEF Covered, r1

\* A candidate that was tried is covered, and so is that of every program which reaches
\* what its parent reaches.
LEMMA TryCovers ==
  ASSUME prob \in Problems, BreadthInv, Awake(prob), Breadth, CoveredTo(seen, turn),
         NEW keys, seen \subseteq keys, GoesOn(prob, Extended) => Sig(prob, Extended) \in keys
  PROVE  CoveredTo(keys, turn + 1)
<1> DEFINE l == Len(prob.alphabet)
           n == Len(frontier)
           k0 == NodeAt(turn, l)
           i0 == InsAt(turn, l)
<1>1. PICK q \in Seq(Alph(prob)) : q = Parent.program
  BY CandidateIs
<1>2. /\ k0 \in DOMAIN frontier /\ i0 \in 1 .. l /\ q = frontier[k0].program /\ Extended = Append(q, prob.alphabet[i0])
  BY <1>1, CandidateIs DEF Parent, Extended, Candidate, NodeAt, InsAt
<1>3. l \in Nat /\ turn \in Nat /\ n \in Nat /\ DOMAIN frontier = 1 .. n
  BY ProblemIs DEF BreadthInv
<1>4. GoesOn(prob, q)
  BY <1>2 DEF BreadthInv
<1>5. Covered(prob, keys, q, i0)
  BY <1>2 DEF Covered
<1> HIDE DEF k0, i0
<1>6. ASSUME NEW r \in Seq(Alph(prob)), GoesOn(prob, r), Len(r) < depth, NEW i \in 1 .. l
      PROVE  \/ Covered(prob, keys, r, i)
             \/ \E k \in DOMAIN frontier :
                  Sig(prob, frontier[k].program) = Sig(prob, r) /\ TurnOf(k, i, l) >= turn + 1
  <2>1. CASE Covered(prob, seen, r, i)
    BY <2>1 DEF Covered
  <2>2. CASE ~Covered(prob, seen, r, i)
    <3>1. PICK k \in DOMAIN frontier : Sig(prob, frontier[k].program) = Sig(prob, r) /\ TurnOf(k, i, l) >= turn
      BY <1>6, <2>2 DEF CoveredTo
    <3>2. PICK at \in Nat : at = TurnOf(k, i, l)
      BY <1>3, TurnIs
    <3>3. CASE at = turn
      <4>1. k = k0 /\ i = i0
        BY <1>3, <3>2, <3>3, TurnIs DEF k0, i0
      <4>2. Sig(prob, q) = Sig(prob, r)
        BY <1>2, <3>1, <4>1
      <4>3. Covered(prob, keys, r, i0)
        BY <1>2, <1>4, <1>5, <1>6, <4>2, CoveredAlike
      <4> QED
        BY <4>1, <4>3
    <3>4. CASE at # turn
      <4>1. at >= turn + 1
        BY <1>3, <3>1, <3>2, <3>4
      <4> QED
        BY <3>1, <3>2, <4>1
    <3> QED
      BY <3>3, <3>4
  <2> QED
    BY <2>1, <2>2
<1>7. ASSUME NEW r \in Seq(Alph(prob)), GoesOn(prob, r), Len(r) < depth PROVE Sig(prob, r) \in keys
  BY <1>7 DEF CoveredTo
<1> QED
  BY <1>6, <1>7 DEF CoveredTo

\* At the end of a level all its programs are known.
LEMMA LevelCovers ==
  ASSUME prob \in Problems, BreadthInv, CoveredTo(seen, turn), phase = "search", prob.oe, ~Breadth
  PROVE  /\ \A r \in Seq(Alph(prob)), i \in 1 .. Len(prob.alphabet) :
              GoesOn(prob, r) /\ Len(r) < depth => Covered(prob, seen, r, i)
         /\ \A r \in Seq(Alph(prob)) : GoesOn(prob, r) /\ Len(r) <= depth => Sig(prob, r) \in seen
<1> DEFINE l == Len(prob.alphabet)
           n == Len(frontier)
<1>1. l \in Nat /\ turn \in Nat /\ n \in Nat /\ DOMAIN frontier = 1 .. n /\ depth \in Nat \ {0}
  BY ProblemIs DEF BreadthInv
<1>2. ~(turn < n * l) /\ n * l \in Nat
  BY <1>1 DEF Breadth
<1>3. ASSUME NEW r \in Seq(Alph(prob)), NEW i \in 1 .. l, GoesOn(prob, r), Len(r) < depth
      PROVE  Covered(prob, seen, r, i)
  <2>1. SUFFICES ASSUME NEW k \in DOMAIN frontier, TurnOf(k, i, l) >= turn PROVE FALSE
    BY <1>3 DEF CoveredTo
  <2>2. PICK at \in Nat : at = TurnOf(k, i, l) /\ at < n * l
    BY <1>1, TurnIs
  <2> QED
    BY <1>1, <1>2, <2>1, <2>2
<1>4. ASSUME NEW r \in Seq(Alph(prob)), GoesOn(prob, r), Len(r) <= depth PROVE Sig(prob, r) \in seen
  <2>1. CASE Len(r) < depth
    BY <1>4, <2>1 DEF CoveredTo
  <2>2. CASE ~(Len(r) < depth)
    <3>1. Len(r) \in Nat /\ Len(r) = depth /\ r # <<>>
      <4>1. Len(r) \in Nat
        OBVIOUS
      <4>2. Len(r) = depth
        BY <1>1, <1>4, <2>2, <4>1
      <4> QED
        BY <1>1, <4>1, <4>2
    <3>2. PICK u \in Seq(Alph(prob)), ins \in Alph(prob) : r = Append(u, ins)
      BY <3>1, SequenceEmptyOrAppend
    <3>3. Len(r) = Len(u) + 1 /\ Len(u) \in Nat /\ \A i \in 1 .. Len(u) : u[i] = r[i]
      BY <3>2, AppendIs
    <3>4. Len(u) < depth /\ Len(u) <= Len(r)
      BY <3>1, <3>3
    <3>5. GoesOn(prob, u)
      BY <1>4, <3>3, <3>4, PartsGoOn, AlphIsLinear
    <3>6. PICK i \in 1 .. l : ins = prob.alphabet[i]
      BY ProblemIs DEF Alph, ToSet
    <3>7. Covered(prob, seen, u, i)
      BY <1>3, <3>4, <3>5
    <3> QED
      BY <1>4, <3>2, <3>6, <3>7 DEF Covered
  <2> QED
    BY <2>1, <2>2
<1> QED
  BY <1>3, <1>4

\* What is known is no solution.
LEMMA KnownFails ==
  ASSUME prob \in Problems, BlindGoals(prob), KnownInv, NEW r \in Seq(Alph(prob)), GoesOn(prob, r),
         Sig(prob, r) \in seen
  PROVE  ~Meets(prob, r)
<1>1. PICK q \in Seq(Alph(prob)) : GoesOn(prob, q) /\ Sig(prob, q) = Sig(prob, r) /\ ~Meets(prob, q)
  BY DEF KnownInv
<1>2. Same(prob, q, r)
  BY <1>1, SigIsSame
<1> QED
  BY <1>1, <1>2, SameMeet, AlphIsLinear

\* If no node is left, whatever the length of a program, it is known.
LEMMA AllKnown ==
  ASSUME prob \in Problems, BreadthInv, KnownInv, CoveredTo(seen, turn), phase = "search", prob.oe, ~Breadth,
         next = <<>>, depth # prob.maxLength, NEW r \in Seq(Alph(prob)), GoesOn(prob, r)
  PROVE  Sig(prob, r) \in seen
<1> DEFINE S == {n \in Nat : \A q \in Seq(Alph(prob)) : Len(q) = n /\ GoesOn(prob, q) => Sig(prob, q) \in seen}
<1>1. 0 \in S
  <2>1. depth \in Nat \ {0}
    BY DEF BreadthInv
  <2> QED
    BY <2>1 DEF CoveredTo
<1>2. ASSUME NEW n \in Nat, n \in S PROVE n + 1 \in S
  <2>1. SUFFICES ASSUME NEW q \in Seq(Alph(prob)), Len(q) = n + 1, GoesOn(prob, q) PROVE Sig(prob, q) \in seen
    OBVIOUS
  <2>2. PICK u \in Seq(Alph(prob)), ins \in Alph(prob) : q = Append(u, ins)
    <3>1. q # <<>>
      BY <2>1
    <3> QED
      BY <3>1, SequenceEmptyOrAppend
  <2>3. Len(q) = Len(u) + 1 /\ Len(u) \in Nat /\ \A i \in 1 .. Len(u) : u[i] = q[i]
    BY <2>2, AppendIs
  <2>4. Len(u) = n /\ Len(u) <= Len(q)
    BY <2>1, <2>3
  <2>5. GoesOn(prob, u)
    BY <2>1, <2>3, <2>4, PartsGoOn, AlphIsLinear
  <2>6. Sig(prob, u) \in seen
    BY <1>2, <2>4, <2>5
  <2>7. PICK v \in Seq(Alph(prob)) : GoesOn(prob, v) /\ Sig(prob, v) = Sig(prob, u) /\ Len(v) < depth
    BY <2>6 DEF KnownInv
  <2>8. PICK i \in 1 .. Len(prob.alphabet) : ins = prob.alphabet[i]
    BY ProblemIs DEF Alph, ToSet
  <2>9. Covered(prob, seen, v, i)
    BY <2>7, LevelCovers
  <2>10. Covered(prob, seen, u, i)
    BY <2>5, <2>7, <2>9, CoveredAlike
  <2> QED
    BY <2>1, <2>2, <2>8, <2>10 DEF Covered
<1>3. Len(r) \in S
  <2>1. Len(r) \in Nat
    OBVIOUS
  <2> HIDE DEF S
  <2> QED
    BY <1>1, <1>2, <2>1, NumberInduction
<1> QED
  BY <1>3

LEMMA CoverStep ==
  ASSUME BudgetInv, Awake(prob), [Next]_vars, phase' = "search", prob'.oe,
         phase = "search" /\ prob.oe => BreadthInv /\ KnownInv /\ CoveredTo(seen, turn)
  PROVE  KnownInv' /\ CoveredTo(seen, turn)'
<1>1. prob \in Problems /\ prob' = prob /\ depth' \in Nat
  <2>1. BreadthInv'
    BY BreadthStep
  <2> QED
    BY <2>1, BudgetNext DEF BudgetInv, BreadthInv
<1>2. CASE Begin
  <2>1. /\ phase = "start" /\ depth' = 1 /\ turn' = 0 /\ next' = <<>> /\ ~GoalsHold(prob.inputs)
        /\ frontier' = <<Node(prob.inputs, <<>>)>> /\ seen' = {Keys(prob.inputs)}
    BY <1>1, <1>2 DEF Begin, Done, BudgetInv
  <2>2. <<>> \in Seq(Alph(prob)) /\ Len(<<>>) = 0
    BY <1>1, AlphIsLinear
  <2>3. seen' = {Sig(prob, <<>>)} /\ ~Meets(prob, <<>>) /\ frontier' = <<NodeOf(prob, <<>>)>>
    BY <1>1, <2>1, <2>2, EndsAre
  <2>4. GoesOn(prob, <<>>)
    BY <1>1, EndsAreStates, AlphIsLinear, EndOfFacts DEF Awake, GoesOn
  <2>5. KnownInv'
    <3>1. ASSUME NEW key \in seen'
          PROVE  \E r \in Seq(Alph(prob)) : GoesOn(prob, r) /\ Sig(prob, r) = key /\ ~Meets(prob, r) /\ Len(r) < 1 /\ Len(r) <= 1
      <4>1. <<>> \in Seq(Alph(prob)) /\ Len(<<>>) < 1 /\ Len(<<>>) <= 1
        BY <2>2
      <4>2. GoesOn(prob, <<>>) /\ Sig(prob, <<>>) = key /\ ~Meets(prob, <<>>)
        BY <2>3, <2>4
      <4> QED
        BY <4>1, <4>2
    <3> QED
      BY <1>1, <2>1, <3>1 DEF KnownInv
  <2>6. ASSUME NEW r \in Seq(Alph(prob)), Len(r) < depth' PROVE r = <<>>
    <3>1. Len(r) \in Nat
      OBVIOUS
    <3> QED
      BY <2>1, <2>6, <3>1
  <2>7. 1 \in DOMAIN frontier' /\ frontier'[1].program = <<>>
    <3>1. NodeOf(prob, <<>>).program = <<>>
      BY DEF NodeOf
    <3> QED
      BY <2>3, <3>1
  <2>8. ASSUME NEW i \in 1 .. Len(prob.alphabet) PROVE TurnOf(1, i, Len(prob.alphabet)) >= turn'
    <3>1. Len(prob.alphabet) \in Nat /\ 1 \in 1 .. 1 /\ 1 \in Nat
      BY <1>1, ProblemIs
    <3>2. TurnOf(1, i, Len(prob.alphabet)) \in Nat
      BY <3>1, TurnIs
    <3> QED
      BY <2>1, <3>2
  <2>9. CoveredTo(seen, turn)'
    BY <1>1, <2>3, <2>6, <2>7, <2>8 DEF CoveredTo
  <2> QED
    BY <2>5, <2>9
<1>3. CASE Discard \/ Keep
  <2>1. /\ Breadth /\ turn' = turn + 1 /\ UNCHANGED <<prob, depth, frontier>> /\ phase = "search" /\ prob.oe
        /\ BreadthInv /\ KnownInv /\ CoveredTo(seen, turn)
    BY <1>3 DEF Discard, Keep, Try, Breadth
  <2>2. Extended \in Seq(Alph(prob)) /\ Len(Extended) = depth /\ Reached = Ends(prob, Extended)
    BY <1>1, <2>1, CandidateIs
  <2>3. /\ Faulted(Reached) <=> ~GoesOn(prob, Extended)
        /\ Keys(Reached) = Sig(prob, Extended)
        /\ GoalsHold(Reached) <=> Meets(prob, Extended)
        /\ Node(Reached, Extended) = NodeOf(prob, Extended)
    BY <1>1, <2>2, EndsAre
  <2>4. seen \subseteq seen' /\ (GoesOn(prob, Extended) => Sig(prob, Extended) \in seen')
    BY <1>3, <2>3 DEF Discard, Keep
  <2>5. CoveredTo(seen, turn)'
    <3>1. PICK keys : keys = seen'
      OBVIOUS
    <3>2. CoveredTo(keys, turn + 1)
      BY <1>1, <2>1, <2>4, <3>1, TryCovers
    <3> QED
      BY <2>1, <3>1, <3>2 DEF CoveredTo
  <2>6. CASE Discard
    <3>1. UNCHANGED <<next, seen>>
      BY <2>6 DEF Discard
    <3>2. KnownInv'
      BY <2>1, <3>1 DEF KnownInv
    <3> QED
      BY <2>5, <3>2
  <2>7. CASE Keep
    <3>1. PICK node : node = NodeOf(prob, Extended)
      OBVIOUS
    <3>2. /\ GoesOn(prob, Extended) /\ ~Meets(prob, Extended) /\ seen' = seen \cup {Sig(prob, Extended)}
          /\ next' = IF depth < prob.maxLength THEN Append(next, node) ELSE next
      BY <2>3, <2>7, <3>1 DEF Keep, Done
    <3>3. depth \in Nat /\ prob.maxLength \in Nat /\ depth <= prob.maxLength
      BY <1>1, <2>1, ProblemIs DEF BreadthInv
    <3>4. \A k \in DOMAIN next : k \in DOMAIN next' /\ next'[k] = next[k]
      <4>1. next \in Seq(NodesOf(prob, depth)) /\ node \in NodesOf(prob, depth)
        BY <2>1, <2>2, <3>1 DEF BreadthInv, NodesOf
      <4>2. Len(next) \in Nat /\ DOMAIN next = 1 .. Len(next)
        BY <4>1
      <4>3. CASE next' = Append(next, node)
        <5>1. /\ next' \in Seq(NodesOf(prob, depth)) /\ Len(next') = Len(next) + 1
              /\ \A k \in 1 .. Len(next) : next'[k] = next[k]
          BY <4>1, <4>3, AppendIs
        <5> QED
          BY <4>2, <5>1
      <4> QED
        BY <3>2, <4>3
    <3>5. depth # prob.maxLength => \E k \in DOMAIN next' : next'[k] = node
      <4>1. SUFFICES ASSUME depth # prob.maxLength PROVE \E k \in DOMAIN next' : next'[k] = node
        OBVIOUS
      <4>2. next' = Append(next, node)
        BY <3>2, <3>3, <4>1
      <4>3. next \in Seq(NodesOf(prob, depth)) /\ node \in NodesOf(prob, depth)
        BY <2>1, <2>2, <3>1 DEF BreadthInv, NodesOf
      <4>4. /\ next' \in Seq(NodesOf(prob, depth)) /\ Len(next') = Len(next) + 1 /\ Len(next) \in Nat
            /\ next'[Len(next) + 1] = node
        BY <4>2, <4>3, AppendIs
      <4> QED
        BY <4>4
    <3>6. node.program = Extended
      BY <3>1 DEF NodeOf
    <3>7. ASSUME NEW key \in seen'
          PROVE  \E r \in Seq(Alph(prob)) :
                   /\ GoesOn(prob, r) /\ Sig(prob, r) = key /\ ~Meets(prob, r) /\ Len(r) <= depth
                   /\ \/ Len(r) < depth \/ depth = prob.maxLength
                      \/ \E k \in DOMAIN next' : Sig(prob, next'[k].program) = key
      <4>1. CASE key \in seen
        <5>1. PICK r \in Seq(Alph(prob)) :
                /\ GoesOn(prob, r) /\ Sig(prob, r) = key /\ ~Meets(prob, r) /\ Len(r) <= depth
                /\ Len(r) < depth \/ depth = prob.maxLength \/ \E k \in DOMAIN next : Sig(prob, next[k].program) = key
          BY <2>1, <4>1 DEF KnownInv
        <5> QED
          BY <3>4, <5>1
      <4>2. CASE key = Sig(prob, Extended)
        <5>1. depth = prob.maxLength \/ \E k \in DOMAIN next' : Sig(prob, next'[k].program) = key
          BY <3>5, <3>6, <4>2
        <5>2. Len(Extended) <= depth
          BY <2>2, <3>3
        <5> QED
          BY <2>2, <3>2, <4>2, <5>1, <5>2
      <4> QED
        BY <3>2, <4>1, <4>2
    <3>8. KnownInv'
      BY <2>1, <3>7 DEF KnownInv
    <3> QED
      BY <2>5, <3>8
  <2> QED
    BY <1>3, <2>6, <2>7
<1>4. CASE Level
  <2>1. /\ phase = "search" /\ prob.oe /\ ~Breadth /\ frontier' = next /\ next' = <<>> /\ turn' = 0 /\ depth' = depth + 1
        /\ depth < prob.maxLength /\ seen' = seen
    BY <1>4 DEF Level, Done
  <2>2. BreadthInv /\ KnownInv /\ CoveredTo(seen, turn)
    BY <2>1
  <2>3. depth \in Nat /\ depth < depth + 1 /\ depth # prob.maxLength
    BY <1>1, <2>1, <2>2, ProblemIs DEF BreadthInv
  <2>4. ASSUME NEW r \in Seq(Alph(prob)) PROVE (Len(r) <= depth <=> Len(r) < depth') /\ (Len(r) <= depth => Len(r) <= depth')
    <3>1. Len(r) \in Nat
      OBVIOUS
    <3> QED
      BY <2>1, <2>3, <3>1
  <2>5. KnownInv'
    <3>1. ASSUME NEW key \in seen
          PROVE  \E r \in Seq(Alph(prob)) :
                   /\ GoesOn(prob, r) /\ Sig(prob, r) = key /\ ~Meets(prob, r) /\ Len(r) <= depth' /\ Len(r) < depth'
      <4>1. PICK r \in Seq(Alph(prob)) : GoesOn(prob, r) /\ Sig(prob, r) = key /\ ~Meets(prob, r) /\ Len(r) <= depth
        BY <2>2 DEF KnownInv
      <4> QED
        BY <2>4, <4>1
    <3> QED
      BY <1>1, <2>1, <3>1 DEF KnownInv
  <2>6. ASSUME NEW r \in Seq(Alph(prob)), GoesOn(prob, r), Len(r) < depth' PROVE Sig(prob, r) \in seen
    BY <1>1, <2>1, <2>2, <2>4, <2>6, LevelCovers
  <2>7. ASSUME NEW r \in Seq(Alph(prob)), GoesOn(prob, r), Len(r) < depth', NEW i \in 1 .. Len(prob.alphabet)
        PROVE  \/ Covered(prob, seen, r, i)
               \/ \E k \in DOMAIN next :
                    Sig(prob, next[k].program) = Sig(prob, r) /\ TurnOf(k, i, Len(prob.alphabet)) >= 0
    <3>1. PICK q \in Seq(Alph(prob)) :
            /\ GoesOn(prob, q) /\ Sig(prob, q) = Sig(prob, r)
            /\ Len(q) < depth \/ \E k \in DOMAIN next : Sig(prob, next[k].program) = Sig(prob, r)
      BY <2>2, <2>3, <2>6, <2>7 DEF KnownInv
    <3>2. CASE Len(q) < depth
      <4>1. Covered(prob, seen, q, i)
        BY <1>1, <2>1, <2>2, <3>1, <3>2, LevelCovers
      <4> QED
        BY <1>1, <2>7, <3>1, <4>1, CoveredAlike
    <3>3. CASE \E k \in DOMAIN next : Sig(prob, next[k].program) = Sig(prob, r)
      <4>1. PICK k \in DOMAIN next : Sig(prob, next[k].program) = Sig(prob, r)
        BY <3>3
      <4>2. Len(next) \in Nat /\ k \in 1 .. Len(next) /\ Len(prob.alphabet) \in Nat
        <5>1. DOMAIN next = 1 .. Len(next) /\ Len(next) \in Nat
          BY <2>2 DEF BreadthInv
        <5>2. Len(prob.alphabet) \in Nat
          BY <1>1, ProblemIs
        <5> QED
          BY <4>1, <5>1, <5>2
      <4>3. TurnOf(k, i, Len(prob.alphabet)) \in Nat
        <5>1. PICK l \in Nat, n \in Nat : l = Len(prob.alphabet) /\ n = Len(next)
          BY <4>2
        <5>2. k \in 1 .. n /\ i \in 1 .. l /\ 0 \in Nat
          BY <4>2, <5>1
        <5>3. TurnOf(k, i, l) \in Nat
          BY <5>2, TurnIs
        <5> QED
          BY <5>1, <5>3
      <4> QED
        BY <4>1, <4>3
    <3> QED
      BY <3>1, <3>2, <3>3
  <2>8. CoveredTo(seen, turn)'
    BY <1>1, <2>1, <2>6, <2>7 DEF CoveredTo
  <2> QED
    BY <2>5, <2>8
<1>5. CASE UNCHANGED vars
  BY <1>5 DEF vars, oeVars, KnownInv, CoveredTo
<1>6. CASE Trivial \/ GiveUp
  BY <1>6 DEF Trivial, GiveUp, Done
<1>7. CASE Visit \/ Backtrack \/ Limit
  BY <1>1, <1>7 DEF Visit, Deep, Backtrack, Limit
<1> QED
  BY <1>2, <1>3, <1>4, <1>5, <1>6, <1>7 DEF Next
-----------------------------------------------------------------------------
(* What a search returns.                                                  *)

Answers(p, programs, gaveUp) ==
  /\ \A q \in programs : q \in Seq(Alph(p)) /\ Len(q) <= p.maxLength /\ Meets(p, q)
  /\ ~gaveUp /\ Awake(p) /\ BlindGoals(p) =>
       /\ programs = {} => NoneOf(p, p.maxLength)
       /\ \A q \in programs : GoesOn(p, q) /\ NoneOf(p, Len(q) - 1)

FoundInv == phase = "done" => Answers(prob, result, exhausted)

\* One program that solves the problem, if no shorter one does.
LEMMA AnswerIs ==
  ASSUME NEW p, NEW q \in Seq(Alph(p)), Len(q) <= p.maxLength, Meets(p, q),
         Awake(p) /\ BlindGoals(p) => GoesOn(p, q) /\ NoneOf(p, Len(q) - 1), NEW gaveUp
  PROVE  Answers(p, {q}, gaveUp)
BY DEF Answers

\* There is no shorter program than the empty one.
LEMMA EmptyIsShortest ==
  ASSUME NEW p \in Problems
  PROVE  /\ \A n \in Int : n < 0 => NoneOf(p, n)
         /\ ~Meets(p, <<>>) => NoneOf(p, 0)
<1>1. ASSUME NEW n \in Int, n < 0, NEW r \in Seq(Alph(p)), Len(r) <= n PROVE FALSE
  <2>1. Len(r) \in Nat
    OBVIOUS
  <2> QED
    BY <1>1, <2>1
<1>2. ASSUME NEW r \in Seq(Alph(p)), Len(r) <= 0 PROVE r = <<>>
  <2>1. Len(r) \in Nat
    OBVIOUS
  <2> QED
    BY <1>2, <2>1
<1> QED
  BY <1>1, <1>2 DEF NoneOf

\* What both searches do before they start, and when they give up.
LEMMA AtOnceFound ==
  ASSUME BudgetInv, Trivial \/ Begin \/ GiveUp, phase' = "done"
  PROVE  FoundInv'
<1>1. prob \in Problems /\ prob' = prob /\ exhausted' \in BOOLEAN
  BY DEF BudgetInv, Trivial, Begin, GiveUp
<1>2. <<>> \in Seq(Alph(prob)) /\ Len(<<>>) = 0 /\ (GoalsHold(prob.inputs) <=> Meets(prob, <<>>)) /\ prob.maxLength \in Nat
  BY <1>1, AlphIsLinear, EndsAre, ProblemIs
<1>3. CASE Trivial
  <2>1. PICK q \in Seq(Alph(prob)) : q = <<>> /\ Len(q) = 0
    BY <1>2
  <2>2. Meets(prob, q) /\ result' = {q}
    BY <1>2, <1>3, <2>1 DEF Trivial, Done
  <2>3. Awake(prob) => GoesOn(prob, q)
    BY <1>1, <2>1, EndsAreStates, AlphIsLinear, EndOfFacts DEF Awake, GoesOn
  <2>4. NoneOf(prob, Len(q) - 1) /\ Len(q) <= prob.maxLength
    BY <1>1, <1>2, <2>1, EmptyIsShortest
  <2>5. Answers(prob, {q}, exhausted')
    BY <2>2, <2>3, <2>4, AnswerIs
  <2> QED
    BY <1>1, <2>2, <2>5 DEF FoundInv
<1>4. CASE Begin
  <2>1. result' = {} /\ prob.maxLength = 0 /\ ~Meets(prob, <<>>)
    BY <1>2, <1>4 DEF Begin, Done
  <2>2. NoneOf(prob, prob.maxLength)
    BY <1>1, <2>1, EmptyIsShortest
  <2> QED
    BY <1>1, <2>1, <2>2 DEF FoundInv, Answers
<1>5. CASE GiveUp
  <2>1. result' = {} /\ exhausted' = TRUE
    BY <1>5 DEF GiveUp, Done
  <2> QED
    BY <2>1 DEF FoundInv, Answers
<1> QED
  BY <1>3, <1>4, <1>5

\* Breadth first, a candidate that solves the problem is a shortest one, and at the end of
\* the last level, or of one that reaches nothing new, there is none.
LEMMA BreadthFound ==
  ASSUME BudgetInv, BreadthInv, Awake(prob) => KnownInv /\ CoveredTo(seen, turn),
         phase = "search", Keep \/ Level, phase' = "done"
  PROVE  FoundInv'
<1>1. prob \in Problems /\ prob' = prob /\ prob.maxLength \in Nat
  BY ProblemIs DEF BudgetInv, Keep, Try, Level
<1>2. depth \in Nat \ {0} /\ depth <= prob.maxLength
  BY DEF BreadthInv
<1>3. CASE Keep
  <2>1. Breadth /\ result' = {Extended} /\ GoalsHold(Reached) /\ ~Faulted(Reached)
    BY <1>3 DEF Keep, Try, Breadth, Done
  <2>2. PICK q \in Seq(Alph(prob)) : q = Extended /\ Len(q) = depth /\ Reached = Ends(prob, q)
    BY <1>1, <2>1, CandidateIs
  <2>3. Meets(prob, q) /\ GoesOn(prob, q)
    BY <1>1, <2>1, <2>2, EndsAre
  <2>4. ASSUME Awake(prob), BlindGoals(prob), NEW r \in Seq(Alph(prob)), Len(r) <= depth - 1, GoesOn(prob, r)
        PROVE  ~Meets(prob, r)
    <3>1. Len(r) \in Nat
      OBVIOUS
    <3>2. Len(r) < depth
      BY <1>2, <2>4, <3>1
    <3>3. Sig(prob, r) \in seen
      BY <2>4, <3>2 DEF CoveredTo
    <3> QED
      BY <1>1, <2>4, <3>3, KnownFails
  <2>5. Awake(prob) /\ BlindGoals(prob) => NoneOf(prob, Len(q) - 1)
    BY <2>2, <2>4 DEF NoneOf
  <2>6. Answers(prob, {q}, exhausted')
    BY <1>2, <2>2, <2>3, <2>5, AnswerIs
  <2> QED
    BY <1>1, <2>1, <2>2, <2>6 DEF FoundInv
<1>4. CASE Level
  <2>1. result' = {} /\ (depth = prob.maxLength \/ (next = <<>> /\ depth # prob.maxLength)) /\ prob.oe /\ ~Breadth
    BY <1>1, <1>2, <1>4 DEF Level, Done
  <2>2. ASSUME Awake(prob), BlindGoals(prob), NEW r \in Seq(Alph(prob)), Len(r) <= prob.maxLength, GoesOn(prob, r)
        PROVE  ~Meets(prob, r)
    <3>1. Sig(prob, r) \in seen
      <4>1. CASE depth = prob.maxLength
        BY <1>1, <2>1, <2>2, <4>1, LevelCovers
      <4>2. CASE next = <<>> /\ depth # prob.maxLength
        BY <1>1, <2>1, <2>2, <4>2, AllKnown
      <4> QED
        BY <2>1, <4>1, <4>2
    <3> QED
      BY <1>1, <2>2, <3>1, KnownFails
  <2>3. Awake(prob) /\ BlindGoals(prob) => NoneOf(prob, prob.maxLength)
    BY <2>2 DEF NoneOf
  <2> QED
    BY <1>1, <2>1, <2>3 DEF FoundInv, Answers
<1> QED
  BY <1>3, <1>4
-----------------------------------------------------------------------------
(* Depth first: what is behind the frames.                                 *)

\* No program of n instructions that begins with q solves the problem.
NoneBelow(p, n, q) ==
  \A r \in Seq(Alph(p)) :
    Len(r) = n /\ Len(q) <= n /\ (\A i \in 1 .. Len(q) : r[i] = q[i]) /\ GoesOn(p, r) => ~Meets(p, r)

LEMMA NoneBelowIs ==
  ASSUME NEW p \in Problems, NEW n \in Nat, NEW q \in Seq(Alph(p))
  PROVE  /\ ~GoesOn(p, q) => NoneBelow(p, n, q)
         /\ Len(q) = n /\ ~Meets(p, q) => NoneBelow(p, n, q)
         /\ Len(q) < n /\ (\A i \in 1 .. Len(p.alphabet) : NoneBelow(p, n, Append(q, p.alphabet[i])))
              => NoneBelow(p, n, q)
<1>1. ASSUME ~GoesOn(p, q) PROVE NoneBelow(p, n, q)
  <2>1. ASSUME NEW r \in Seq(Alph(p)), Len(r) = n, Len(q) <= n, \A i \in 1 .. Len(q) : r[i] = q[i] PROVE ~GoesOn(p, r)
    BY <1>1, <2>1, PartsGoOn, AlphIsLinear
  <2> QED
    BY <2>1 DEF NoneBelow
<1>2. ASSUME Len(q) = n, ~Meets(p, q) PROVE NoneBelow(p, n, q)
  <2>1. ASSUME NEW r \in Seq(Alph(p)), Len(r) = n, \A i \in 1 .. Len(q) : r[i] = q[i] PROVE r = q
    BY <1>2, <2>1, SeqEqual
  <2> QED
    BY <1>2, <2>1 DEF NoneBelow
<1>3. ASSUME Len(q) < n, \A i \in 1 .. Len(p.alphabet) : NoneBelow(p, n, Append(q, p.alphabet[i]))
      PROVE  NoneBelow(p, n, q)
  <2>1. SUFFICES ASSUME NEW r \in Seq(Alph(p)), Len(r) = n, \A i \in 1 .. Len(q) : r[i] = q[i], GoesOn(p, r)
                 PROVE  ~Meets(p, r)
    BY DEF NoneBelow
  <2>2. Len(q) \in Nat /\ Len(q) + 1 \in 1 .. Len(r)
    <3>1. Len(q) \in Nat
      OBVIOUS
    <3> QED
      BY <1>3, <2>1, <3>1
  <2>3. r[Len(q) + 1] \in Alph(p)
    BY <2>2
  <2>4. PICK i \in 1 .. Len(p.alphabet) : r[Len(q) + 1] = p.alphabet[i]
    BY <2>3, ProblemIs DEF Alph, ToSet
  <2>5. PICK x \in Seq(Alph(p)) : x = Append(q, p.alphabet[i])
    BY <2>3, <2>4, AppendIs
  <2>6. Len(x) = Len(q) + 1 /\ (\A k \in 1 .. Len(q) : x[k] = q[k]) /\ x[Len(q) + 1] = r[Len(q) + 1]
    BY <2>3, <2>4, <2>5, AppendIs
  <2>7. Len(x) <= n /\ \A k \in 1 .. Len(x) : r[k] = x[k]
    <3>1. ASSUME NEW k \in 1 .. Len(x) PROVE k \in 1 .. Len(q) \/ k = Len(q) + 1
      BY <2>2, <2>6
    <3> QED
      BY <2>1, <2>2, <2>6, <3>1
  <2>8. NoneBelow(p, n, x)
    BY <1>3, <2>5
  <2> QED
    BY <2>1, <2>7, <2>8 DEF NoneBelow
<1> QED
  BY <1>1, <1>2, <1>3

LEMMA NoneBelowAll ==
  ASSUME NEW p \in Problems, NEW n \in Nat \ {0}, NoneOf(p, n - 1), NoneBelow(p, n, <<>>)
  PROVE  NoneOf(p, n)
<1>1. SUFFICES ASSUME NEW r \in Seq(Alph(p)), Len(r) <= n, GoesOn(p, r) PROVE ~Meets(p, r)
  BY DEF NoneOf
<1>2. Len(r) \in Nat /\ Len(<<>>) = 0
  OBVIOUS
<1>3. CASE Len(r) = n
  BY <1>1, <1>2, <1>3 DEF NoneBelow
<1>4. CASE Len(r) # n
  <2>1. Len(r) <= n - 1
    BY <1>1, <1>2, <1>4
  <2> QED
    BY <1>1, <2>1 DEF NoneOf
<1> QED
  BY <1>3, <1>4

\* The program of the frames before one, as far as each has got.
Prefix(p, frames, d) == [j \in 1 .. d - 1 |-> p.alphabet[frames[j].tried]]

FrameSet(p) == [states : [DOMAIN p.inputs -> State], tried : 0 .. Len(p.alphabet)]

\* A frame of the states that q reaches: the last one has tried so many instructions, one
\* before it is at the last of those it has tried.
Top(p, n, frame, q) ==
  /\ frame.states = Ends(p, q)
  /\ \A i \in 1 .. frame.tried : NoneBelow(p, n, Append(q, p.alphabet[i]))

Passed(p, n, frame, q) ==
  /\ frame.states = Ends(p, q) /\ frame.tried # 0
  /\ \A i \in 1 .. frame.tried : i # frame.tried => NoneBelow(p, n, Append(q, p.alphabet[i]))

StackIs(p, n, frames) ==
  /\ frames \in Seq(FrameSet(p)) /\ Len(frames) \in 1 .. n
  /\ \A d \in 1 .. Len(frames) - 1 : Passed(p, n, frames[d], Prefix(p, frames, d))
  /\ Top(p, n, frames[Len(frames)], Prefix(p, frames, Len(frames)))

\* Depth first: what the frames are, and that the limit has grown past all shorter programs.
DepthInv ==
  /\ depth \in Nat \ {0} /\ depth <= prob.maxLength
  /\ StackIs(prob, depth, stack)
  /\ NoneOf(prob, depth - 1)

LEMMA PrefixIs ==
  ASSUME NEW p \in Problems, NEW d \in Nat \ {0}, NEW frames, NEW others,
         \A j \in 1 .. d - 1 : frames[j].tried \in 1 .. Len(p.alphabet) /\ others[j].tried = frames[j].tried
  PROVE  /\ Prefix(p, frames, d) \in Seq(Alph(p)) /\ Len(Prefix(p, frames, d)) = d - 1
         /\ Prefix(p, others, d) = Prefix(p, frames, d)
         /\ d = 1 => Prefix(p, frames, d) = <<>>
<1>1. \A j \in 1 .. d - 1 : p.alphabet[frames[j].tried] \in Alph(p)
  BY ProblemIs DEF Alph
<1>2. Prefix(p, frames, d) \in [1 .. d - 1 -> Alph(p)]
  BY <1>1 DEF Prefix
<1>3. Prefix(p, frames, d) \in Seq(Alph(p)) /\ Len(Prefix(p, frames, d)) = d - 1
  <2>1. d - 1 \in Nat
    OBVIOUS
  <2>2. PICK q \in [1 .. d - 1 -> Alph(p)] : q = Prefix(p, frames, d)
    BY <1>2
  <2>3. q \in Seq(Alph(p)) /\ Len(q) = d - 1
    BY <2>1
  <2> QED
    BY <2>2, <2>3
<1>4. Prefix(p, others, d) = Prefix(p, frames, d)
  BY DEF Prefix
<1>5. ASSUME d = 1 PROVE Prefix(p, frames, d) = <<>>
  <2>1. PICK q \in Seq(Alph(p)) : q = Prefix(p, frames, d)
    BY <1>3
  <2>2. Len(q) = 0
    BY <1>3, <1>5, <2>1
  <2> QED
    BY <2>1, <2>2
<1> QED
  BY <1>3, <1>4, <1>5

\* One frame further.
LEMMA PrefixGrows ==
  ASSUME NEW p \in Problems, NEW d \in Nat \ {0}, NEW frames,
         \A j \in 1 .. d : frames[j].tried \in 1 .. Len(p.alphabet)
  PROVE  Prefix(p, frames, d + 1) = Append(Prefix(p, frames, d), p.alphabet[frames[d].tried])
<1>1. d + 1 \in Nat \ {0} /\ (d + 1) - 1 = d /\ d \in 1 .. d /\ \A j \in 1 .. d - 1 : j \in 1 .. d
  OBVIOUS
<1>2. PICK x \in Seq(Alph(p)) : x = Prefix(p, frames, d + 1) /\ Len(x) = d
  BY <1>1, PrefixIs
<1>3. PICK q \in Seq(Alph(p)) : q = Prefix(p, frames, d) /\ Len(q) = d - 1
  <2>1. \A j \in 1 .. d - 1 : frames[j].tried \in 1 .. Len(p.alphabet)
    BY <1>1
  <2>2. Prefix(p, frames, d) \in Seq(Alph(p)) /\ Len(Prefix(p, frames, d)) = d - 1
    BY <2>1, PrefixIs
  <2> QED
    BY <2>2
<1>4. PICK ins \in Alph(p) : ins = p.alphabet[frames[d].tried]
  BY <1>1, ProblemIs DEF Alph
<1>5. \A j \in 1 .. d : x[j] = p.alphabet[frames[j].tried]
  BY <1>1, <1>2 DEF Prefix
<1>6. \A j \in 1 .. d - 1 : q[j] = p.alphabet[frames[j].tried]
  BY <1>3 DEF Prefix
<1>7. PICK y \in Seq(Alph(p)) : y = Append(q, ins) /\ Len(y) = d /\ y[d] = ins /\ \A j \in 1 .. d - 1 : y[j] = q[j]
  <2>1. PICK y \in Seq(Alph(p)) : y = Append(q, ins)
    BY AppendIs
  <2>2. Len(y) = Len(q) + 1 /\ (\A j \in 1 .. Len(q) : y[j] = q[j]) /\ y[Len(q) + 1] = ins
    BY <2>1, AppendIs
  <2>3. Len(q) + 1 = d
    BY <1>3
  <2> QED
    BY <1>3, <2>1, <2>2, <2>3
<1>8. ASSUME NEW j \in 1 .. d PROVE x[j] = y[j]
  <2>1. j = d \/ j \in 1 .. d - 1
    OBVIOUS
  <2> QED
    BY <1>1, <1>4, <1>5, <1>6, <1>7, <2>1
<1>9. x = y
  BY <1>2, <1>7, <1>8, SeqEqual
<1> QED
  BY <1>2, <1>3, <1>4, <1>7, <1>9

LEMMA StackFacts ==
  ASSUME NEW p \in Problems, NEW n \in Nat \ {0}, NEW frames, StackIs(p, n, frames)
  PROVE  /\ Len(frames) \in Nat \ {0} /\ Len(frames) <= n /\ DOMAIN frames = 1 .. Len(frames)
         /\ Last(frames) = frames[Len(frames)]
         /\ \A d \in 1 .. Len(frames) : frames[d] \in FrameSet(p) /\ frames[d].tried \in 0 .. Len(p.alphabet)
         /\ \A d \in 1 .. Len(frames) - 1 : frames[d].tried \in 1 .. Len(p.alphabet)
         /\ \A d \in 1 .. Len(frames) : Prefix(p, frames, d) \in Seq(Alph(p)) /\ Len(Prefix(p, frames, d)) = d - 1
<1>1. frames \in Seq(FrameSet(p)) /\ Len(frames) \in 1 .. n
  BY DEF StackIs
<1>2. Len(frames) \in Nat \ {0} /\ Len(frames) <= n /\ DOMAIN frames = 1 .. Len(frames) /\ Len(p.alphabet) \in Nat
  BY <1>1, ProblemIs
<1>3. ASSUME NEW d \in 1 .. Len(frames) PROVE frames[d] \in FrameSet(p) /\ frames[d].tried \in 0 .. Len(p.alphabet)
  <2>1. frames[d] \in FrameSet(p)
    BY <1>1
  <2> QED
    BY <2>1 DEF FrameSet
<1>4. ASSUME NEW d \in 1 .. Len(frames) - 1 PROVE frames[d].tried \in 1 .. Len(p.alphabet)
  <2>1. d \in 1 .. Len(frames)
    BY <1>2
  <2>2. frames[d].tried \in 0 .. Len(p.alphabet) /\ frames[d].tried # 0
    BY <1>3, <2>1 DEF StackIs, Passed
  <2> QED
    BY <1>2, <2>2
<1>5. ASSUME NEW d \in 1 .. Len(frames)
      PROVE  Prefix(p, frames, d) \in Seq(Alph(p)) /\ Len(Prefix(p, frames, d)) = d - 1
  <2>1. d \in Nat \ {0} /\ \A j \in 1 .. d - 1 : frames[j].tried \in 1 .. Len(p.alphabet)
    BY <1>2, <1>4
  <2> QED
    BY <2>1, PrefixIs
<1> QED
  BY <1>2, <1>3, <1>4, <1>5 DEF Last

\* Another last frame, or one frame less.
LEMMA StackKept ==
  ASSUME NEW p \in Problems, NEW n \in Nat \ {0}, NEW frames, StackIs(p, n, frames),
         NEW others \in Seq(FrameSet(p)), Len(others) \in 1 .. Len(frames),
         \A d \in 1 .. Len(others) - 1 : others[d] = frames[d],
         Top(p, n, others[Len(others)], Prefix(p, frames, Len(others)))
  PROVE  StackIs(p, n, others)
<1> DEFINE m == Len(others)
<1>1. m \in Nat \ {0} /\ Len(frames) \in Nat \ {0} /\ m <= Len(frames) /\ m <= n
  <2>1. Len(frames) \in Nat \ {0} /\ Len(frames) <= n /\ m \in 1 .. Len(frames)
    BY StackFacts
  <2> HIDE DEF m
  <2> QED
    BY <2>1
<1>2. \A d \in 1 .. m : d \in 1 .. Len(frames) /\ (d # m => d \in 1 .. Len(frames) - 1)
  BY <1>1
<1>3. \A j \in 1 .. m - 1 : frames[j].tried \in 1 .. Len(p.alphabet) /\ others[j].tried = frames[j].tried
  <2>1. \A j \in 1 .. m - 1 : j \in 1 .. Len(frames) - 1
    BY <1>1
  <2>2. \A j \in 1 .. Len(frames) - 1 : frames[j].tried \in 1 .. Len(p.alphabet)
    BY StackFacts
  <2> QED
    BY <2>1, <2>2
<1>4. ASSUME NEW d \in 1 .. m PROVE Prefix(p, others, d) = Prefix(p, frames, d)
  <2>1. d \in Nat \ {0} /\ \A j \in 1 .. d - 1 : j \in 1 .. m - 1
    BY <1>1
  <2> QED
    BY <1>3, <2>1, PrefixIs
<1>5. ASSUME NEW d \in 1 .. m - 1 PROVE Passed(p, n, others[d], Prefix(p, others, d))
  <2>1. d \in 1 .. m /\ d \in 1 .. Len(frames) - 1
    BY <1>1, <1>2
  <2> QED
    BY <1>4, <2>1 DEF StackIs
<1>6. Top(p, n, others[m], Prefix(p, others, m))
  BY <1>1, <1>4
<1> QED
  BY <1>1, <1>5, <1>6 DEF StackIs

\* One frame more.
LEMMA StackGrows ==
  ASSUME NEW p \in Problems, NEW n \in Nat \ {0}, NEW frames, StackIs(p, n, frames), Len(frames) < n,
         NEW others \in Seq(FrameSet(p)), Len(others) = Len(frames) + 1,
         \A d \in 1 .. Len(frames) - 1 : others[d] = frames[d],
         NEW q, q = Prefix(p, frames, Len(frames)), NEW i \in 1 .. Len(p.alphabet),
         others[Len(frames)].tried = i, Passed(p, n, others[Len(frames)], q),
         Top(p, n, others[Len(others)], Append(q, p.alphabet[i]))
  PROVE  StackIs(p, n, others)
<1> DEFINE m == Len(frames)
<1>1. m \in Nat \ {0} /\ m < n /\ Len(others) = m + 1 /\ m + 1 \in 1 .. n
  BY StackFacts
<1>2. \A j \in 1 .. m - 1 : frames[j].tried \in 1 .. Len(p.alphabet) /\ others[j].tried = frames[j].tried
  BY StackFacts
<1>3. ASSUME NEW d \in 1 .. m PROVE Prefix(p, others, d) = Prefix(p, frames, d)
  <2>1. d \in Nat \ {0} /\ \A j \in 1 .. d - 1 : j \in 1 .. m - 1
    BY <1>1
  <2> QED
    BY <1>2, <2>1, PrefixIs
<1>4. ASSUME NEW d \in 1 .. m PROVE Passed(p, n, others[d], Prefix(p, others, d))
  <2>1. CASE d = m
    BY <1>3, <2>1
  <2>2. CASE d # m
    <3>1. d \in 1 .. m - 1
      BY <1>1, <2>2
    <3> QED
      BY <1>3, <3>1 DEF StackIs
  <2> QED
    BY <2>1, <2>2
<1>5. Prefix(p, others, m + 1) = Append(q, p.alphabet[i])
  <2>1. \A j \in 1 .. m : others[j].tried \in 1 .. Len(p.alphabet)
    <3>1. \A j \in 1 .. m : j = m \/ j \in 1 .. m - 1
      BY <1>1
    <3> QED
      BY <1>2, <3>1
  <2>2. Prefix(p, others, m + 1) = Append(Prefix(p, others, m), p.alphabet[others[m].tried])
    BY <1>1, <2>1, PrefixGrows
  <2>3. m \in 1 .. m
    BY <1>1
  <2> QED
    BY <1>3, <2>2, <2>3
<1>6. Len(others) - 1 = m
  BY <1>1
<1> QED
  BY <1>1, <1>4, <1>5, <1>6 DEF StackIs

LEMMA FrameIs ==
  ASSUME prob \in Problems, NEW q \in Seq(Alph(prob))
  PROVE  /\ Frame(Ends(prob, q)) \in FrameSet(prob)
         /\ Frame(Ends(prob, q)).tried = 0
         /\ \A n : Top(prob, n, Frame(Ends(prob, q)), q)
<1>1. Ends(prob, q) \in [DOMAIN prob.inputs -> State] /\ Len(prob.alphabet) \in Nat
  BY EndsAreStates, AlphIsLinear, ProblemIs DEF Ends
<1> QED
  BY <1>1 DEF Frame, FrameSet, Top

LEMMA StackStarts ==
  ASSUME prob \in Problems, NEW n \in Nat \ {0}
  PROVE  StackIs(prob, n, <<Frame(prob.inputs)>>)
<1>1. <<>> \in Seq(Alph(prob)) /\ prob.inputs = Ends(prob, <<>>)
  BY AlphIsLinear, EndsAre
<1>2. PICK frame \in FrameSet(prob) : frame = Frame(prob.inputs) /\ Top(prob, n, frame, <<>>)
  BY <1>1, FrameIs
<1>3. PICK frames \in Seq(FrameSet(prob)) : frames = <<frame>>
  <2>1. <<frame>> \in Seq(FrameSet(prob))
    OBVIOUS
  <2> QED
    BY <2>1
<1>4. Len(frames) = 1 /\ frames[1] = frame /\ 1 - 1 = 0
  BY <1>3
<1>5. Prefix(prob, frames, 1) = <<>>
  <2>1. 1 \in Nat \ {0} /\ \A j \in 1 .. 1 - 1 : FALSE
    OBVIOUS
  <2> QED
    BY <2>1, PrefixIs
<1>6. \A d \in 1 .. 0 : FALSE
  OBVIOUS
<1> QED
  BY <1>2, <1>3, <1>4, <1>5, <1>6 DEF StackIs

\* The instruction that is tried next: the states it reaches, and the frames after it.
LEMMA VisitIs ==
  ASSUME prob \in Problems, DepthInv, Deep,
         NEW m, m = Len(stack), NEW q, q = Prefix(prob, stack, m),
         NEW i, i = stack[m].tried + 1, NEW x, x = Append(q, prob.alphabet[i])
  PROVE  /\ i \in 1 .. Len(prob.alphabet) /\ x \in Seq(Alph(prob)) /\ Len(x) = m /\ q \in Seq(Alph(prob))
         /\ Below = Ends(prob, x)
         /\ Touched \in Seq(FrameSet(prob)) /\ Len(Touched) = m
         /\ \A d \in 1 .. m - 1 : Touched[d] = stack[d]
         /\ Touched[m].tried = i
         /\ Passed(prob, depth, Touched[m], q)
         /\ NoneBelow(prob, depth, x) => Top(prob, depth, Touched[m], q)
<1> DEFINE l == Len(prob.alphabet)
           t == stack[m].tried
           next_ == [stack[m] EXCEPT !.tried = t + 1]
<1>1. depth \in Nat \ {0} /\ StackIs(prob, depth, stack)
  BY DEF DepthInv
<1>2. /\ m \in Nat \ {0} /\ m <= depth /\ DOMAIN stack = 1 .. m /\ m \in 1 .. m
      /\ Last(stack) = stack[m] /\ t \in 0 .. l /\ l \in Nat /\ stack[m] \in FrameSet(prob)
      /\ q \in Seq(Alph(prob)) /\ Len(q) = m - 1 /\ stack \in Seq(FrameSet(prob))
  <2>1. m \in Nat \ {0} /\ m <= depth /\ DOMAIN stack = 1 .. m /\ Last(stack) = stack[m]
    BY <1>1, StackFacts
  <2>2. m \in 1 .. m
    BY <2>1
  <2>3. t \in 0 .. l /\ stack[m] \in FrameSet(prob) /\ q \in Seq(Alph(prob)) /\ Len(q) = m - 1
    BY <1>1, <2>2, StackFacts
  <2> QED
    BY <1>1, <2>1, <2>2, <2>3, ProblemIs DEF StackIs
<1>3. i \in 1 .. l /\ i = t + 1
  BY <1>2 DEF Deep
<1>4. PICK ins \in Alph(prob) : ins = prob.alphabet[i]
  BY <1>3, ProblemIs DEF Alph
<1>5. x \in Seq(Alph(prob)) /\ Len(x) = m
  BY <1>2, <1>4, AppendIs
<1>6. Top(prob, depth, stack[m], q)
  BY <1>1 DEF StackIs
<1>7. Below = Ends(prob, x)
  <2>1. Below = Apply(ins, Ends(prob, q))
    BY <1>2, <1>3, <1>4, <1>6 DEF Below, Top
  <2> QED
    BY <1>2, <1>4, <2>1, EndsAre
<1>8. next_ \in FrameSet(prob) /\ next_.tried = i /\ next_.states = stack[m].states
  <2>1. PICK S : S = [DOMAIN prob.inputs -> State]
    OBVIOUS
  <2>2. PICK frame \in [states : S, tried : 0 .. l] : frame = stack[m]
    BY <1>2, <2>1 DEF FrameSet
  <2>3. t + 1 \in 0 .. l
    BY <1>2, <1>3
  <2>4. /\ [frame EXCEPT !.tried = t + 1] \in [states : S, tried : 0 .. l]
        /\ [frame EXCEPT !.tried = t + 1].tried = t + 1 /\ [frame EXCEPT !.tried = t + 1].states = frame.states
    BY <2>3
  <2> QED
    BY <1>3, <2>1, <2>2, <2>4 DEF FrameSet
<1>9. Touched = [stack EXCEPT ![m] = next_]
  BY DEF Touched
<1> HIDE DEF next_
<1>10. /\ Touched \in Seq(FrameSet(prob)) /\ Len(Touched) = m /\ Touched[m] = next_
       /\ \A d \in 1 .. m - 1 : Touched[d] = stack[d]
  BY <1>2, <1>8, <1>9
<1>11. \A j \in 1 .. i : j = i \/ j \in 1 .. t
  BY <1>2, <1>3
<1>12. Passed(prob, depth, next_, q)
  BY <1>3, <1>6, <1>8, <1>11 DEF Passed, Top
<1>13. NoneBelow(prob, depth, x) => Top(prob, depth, next_, q)
  BY <1>6, <1>8, <1>11 DEF Top
<1> QED
  BY <1>2, <1>3, <1>5, <1>7, <1>8, <1>10, <1>12, <1>13

\* Nothing is left below the last frame.
LEMMA AllTried ==
  ASSUME prob \in Problems, DepthInv, phase = "search", ~prob.oe, ~Deep
  PROVE  NoneBelow(prob, depth, Prefix(prob, stack, Len(stack)))
<1> DEFINE l == Len(prob.alphabet)
           m == Len(stack)
<1>1. depth \in Nat \ {0} /\ StackIs(prob, depth, stack)
  BY DEF DepthInv
<1>2. m \in Nat \ {0} /\ m <= depth /\ m \in 1 .. m /\ Last(stack) = stack[m] /\ l \in Nat
  <2>1. m \in Nat \ {0} /\ m <= depth /\ Last(stack) = stack[m]
    BY <1>1, StackFacts
  <2> QED
    BY <2>1, ProblemIs
<1>3. PICK q \in Seq(Alph(prob)) : q = Prefix(prob, stack, m) /\ Len(q) = m - 1
  BY <1>1, <1>2, StackFacts
<1>4. stack[m].tried \in 0 .. l
  BY <1>1, <1>2, StackFacts
<1>5. stack[m].tried = l
  BY <1>2, <1>4 DEF Deep
<1>6. \A i \in 1 .. l : NoneBelow(prob, depth, Append(q, prob.alphabet[i]))
  BY <1>1, <1>3, <1>5 DEF StackIs, Top
<1>7. Len(q) < depth
  BY <1>1, <1>2, <1>3
<1> QED
  BY <1>1, <1>3, <1>6, <1>7, NoneBelowIs

\* At the end of a limit no program of that length is left.
LEMMA LimitIs ==
  ASSUME prob \in Problems, DepthInv, phase = "search", ~prob.oe, ~Deep, Len(stack) = 1
  PROVE  NoneOf(prob, depth) /\ depth \in Nat \ {0}
<1>1. depth \in Nat \ {0} /\ NoneOf(prob, depth - 1)
  BY DEF DepthInv
<1>2. Prefix(prob, stack, 1) = <<>>
  <2>1. 1 \in Nat \ {0} /\ \A j \in 1 .. 1 - 1 : FALSE
    OBVIOUS
  <2> QED
    BY <2>1, PrefixIs
<1>3. NoneBelow(prob, depth, <<>>)
  BY <1>2, AllTried
<1> QED
  BY <1>1, <1>3, NoneBelowAll

LEMMA DepthStep ==
  ASSUME BudgetInv, phase = "search" /\ ~prob.oe => DepthInv, [Next]_vars,
         phase' = "search", ~prob'.oe
  PROVE  DepthInv'
<1>1. prob \in Problems /\ prob' = prob
  BY BudgetNext DEF BudgetInv
<1>2. CASE Begin
  <2>1. phase = "start" /\ depth' = 1 /\ prob.maxLength # 0 /\ ~GoalsHold(prob.inputs) /\ stack' = <<Frame(prob.inputs)>>
    BY <1>1, <1>2 DEF Begin, Done, BudgetInv
  <2>2. <<>> \in Seq(Alph(prob)) /\ prob.maxLength \in Nat
    BY <1>1, AlphIsLinear, ProblemIs
  <2>3. ~Meets(prob, <<>>) /\ prob.inputs = Ends(prob, <<>>)
    BY <1>1, <2>1, <2>2, EndsAre
  <2>4. StackIs(prob, 1, stack')
    BY <1>1, <2>1, <2>3, StackStarts
  <2>5. NoneOf(prob, 0)
    BY <1>1, <2>3, EmptyIsShortest
  <2> QED
    BY <1>1, <2>1, <2>2, <2>4, <2>5 DEF DepthInv
<1>3. CASE Visit
  <2>1. DepthInv /\ Deep /\ depth' = depth
    BY <1>1, <1>3 DEF Visit, Deep
  <2> DEFINE m == Len(stack)
             q == Prefix(prob, stack, m)
             i == stack[m].tried + 1
             x == Append(q, prob.alphabet[i])
  <2>2. /\ i \in 1 .. Len(prob.alphabet) /\ x \in Seq(Alph(prob)) /\ Len(x) = m /\ q \in Seq(Alph(prob))
        /\ Below = Ends(prob, x)
        /\ Touched \in Seq(FrameSet(prob)) /\ Len(Touched) = m
        /\ \A d \in 1 .. m - 1 : Touched[d] = stack[d]
        /\ Touched[m].tried = i
        /\ Passed(prob, depth, Touched[m], q)
        /\ NoneBelow(prob, depth, x) => Top(prob, depth, Touched[m], q)
    BY <1>1, <2>1, VisitIs
  <2>3. /\ depth \in Nat \ {0} /\ depth <= prob.maxLength /\ StackIs(prob, depth, stack) /\ NoneOf(prob, depth - 1)
    BY <2>1 DEF DepthInv
  <2>4. m \in Nat \ {0} /\ m <= depth /\ m \in 1 .. m
    <3>1. m \in Nat \ {0} /\ m <= depth
      BY <1>1, <2>3, StackFacts
    <3> QED
      BY <3>1
  <2>5. (Faulted(Below) <=> ~GoesOn(prob, x)) /\ (GoalsHold(Below) <=> Meets(prob, x))
    BY <1>1, <2>2, EndsAre
  <2> HIDE DEF x, i
  <2>6. ASSUME NoneBelow(prob, depth, x), stack' = Touched PROVE StackIs(prob, depth, stack')
    <3>1. Top(prob, depth, Touched[m], q)
      BY <2>2, <2>6
    <3>2. PICK others \in Seq(FrameSet(prob)) : others = Touched /\ Len(others) = m
      BY <2>2
    <3>3. StackIs(prob, depth, others)
      BY <1>1, <2>2, <2>3, <2>4, <3>1, <3>2, StackKept
    <3> QED
      BY <2>6, <3>2, <3>3
  <2>7. StackIs(prob, depth, stack')
    <3>1. CASE Faulted(Below)
      <4>1. stack' = Touched
        BY <1>3, <3>1 DEF Visit
      <4>2. NoneBelow(prob, depth, x)
        BY <1>1, <2>2, <2>3, <2>5, <3>1, NoneBelowIs
      <4> QED
        BY <2>6, <4>1, <4>2
    <3>2. CASE ~Faulted(Below) /\ Len(stack) < depth
      <4>1. PICK frame \in FrameSet(prob) : frame = Frame(Below) /\ Top(prob, depth, frame, x)
        BY <1>1, <2>2, FrameIs
      <4>2. stack' = Append(Touched, frame)
        BY <1>3, <3>2, <4>1 DEF Visit
      <4>3. PICK others \in Seq(FrameSet(prob)) : others = stack'
        BY <2>2, <4>2, AppendIs
      <4>4. /\ Len(others) = m + 1 /\ others[m + 1] = frame /\ others[m] = Touched[m]
            /\ \A d \in 1 .. m - 1 : others[d] = stack[d]
        <5>1. Len(others) = m + 1 /\ others[m + 1] = frame /\ \A d \in 1 .. m : others[d] = Touched[d]
          BY <2>2, <4>2, <4>3, AppendIs
        <5>2. \A d \in 1 .. m - 1 : d \in 1 .. m
          BY <2>4
        <5> QED
          BY <2>2, <2>4, <5>1, <5>2
      <4>5. StackIs(prob, depth, others)
        BY <1>1, <2>2, <2>3, <3>2, <4>1, <4>4, StackGrows DEF x
      <4> QED
        BY <4>3, <4>5
    <3>3. CASE ~Faulted(Below) /\ ~(Len(stack) < depth)
      <4>1. stack' = Touched /\ ~GoalsHold(Below)
        BY <1>3, <3>3 DEF Visit, Done
      <4>2. m = depth
        BY <2>3, <2>4, <3>3
      <4>3. NoneBelow(prob, depth, x)
        BY <1>1, <2>2, <2>3, <2>5, <4>1, <4>2, NoneBelowIs
      <4> QED
        BY <2>6, <4>1, <4>3
    <3> QED
      BY <3>1, <3>2, <3>3
  <2> QED
    BY <1>1, <2>1, <2>3, <2>7 DEF DepthInv
<1>4. CASE Backtrack
  <2>1. DepthInv /\ ~Deep /\ Len(stack) > 1 /\ stack' = Front(stack) /\ phase = "search" /\ ~prob.oe /\ UNCHANGED depth
    BY <1>4 DEF Backtrack
  <2>2. /\ depth \in Nat \ {0} /\ depth <= prob.maxLength /\ StackIs(prob, depth, stack) /\ NoneOf(prob, depth - 1)
    BY <2>1 DEF DepthInv
  <2> DEFINE m == Len(stack)
             k == m - 1
             q == Prefix(prob, stack, k)
             i == stack[k].tried
  <2>3. m \in Nat \ {0} /\ k \in Nat \ {0} /\ k \in 1 .. m /\ k \in 1 .. k /\ k < depth /\ m = k + 1
    <3>1. m \in Nat \ {0} /\ m <= depth
      BY <1>1, <2>2, StackFacts
    <3>2. m > 1 /\ depth \in Nat
      BY <2>1, <2>2
    <3> HIDE DEF m
    <3> QED
      BY <3>1, <3>2
  <2>4. /\ q \in Seq(Alph(prob)) /\ Len(q) = k - 1 /\ stack[k] \in FrameSet(prob)
        /\ \A j \in 1 .. k : stack[j].tried \in 1 .. Len(prob.alphabet)
    <3>1. q \in Seq(Alph(prob)) /\ Len(q) = k - 1 /\ stack[k] \in FrameSet(prob)
      <4>1. PICK j \in 1 .. Len(stack) : j = k
        BY <2>3
      <4>2. Prefix(prob, stack, j) \in Seq(Alph(prob)) /\ Len(Prefix(prob, stack, j)) = j - 1 /\ stack[j] \in FrameSet(prob)
        BY <1>1, <2>2, StackFacts
      <4> QED
        BY <4>1, <4>2
    <3>2. \A j \in 1 .. m - 1 : stack[j].tried \in 1 .. Len(prob.alphabet)
      BY <1>1, <2>2, StackFacts
    <3> QED
      BY <3>1, <3>2
  <2>5. Prefix(prob, stack, m) = Append(q, prob.alphabet[i])
    <3>1. Prefix(prob, stack, k + 1) = Append(Prefix(prob, stack, k), prob.alphabet[stack[k].tried])
      BY <1>1, <2>3, <2>4, PrefixGrows
    <3> QED
      BY <2>3, <3>1
  <2>6. NoneBelow(prob, depth, Append(q, prob.alphabet[i]))
    BY <1>1, <2>1, <2>5, AllTried
  <2>7. Passed(prob, depth, stack[k], q)
    BY <2>2, <2>3 DEF StackIs
  <2>8. Top(prob, depth, stack[k], q)
    BY <2>6, <2>7 DEF Passed, Top
  <2>9. PICK others \in Seq(FrameSet(prob)) : others = stack' /\ Len(others) = k /\ \A d \in 1 .. k : others[d] = stack[d]
    <3>1. stack \in Seq(FrameSet(prob)) /\ stack # <<>>
      BY <2>2, <2>3 DEF StackIs
    <3>2. Front(stack) = SubSeq(stack, 1, k)
      BY DEF Front
    <3>3. SubSeq(stack, 1, k) \in Seq(FrameSet(prob)) /\ Len(SubSeq(stack, 1, k)) = k
      BY <2>3, <3>1
    <3>4. \A d \in 1 .. k : SubSeq(stack, 1, k)[d] = stack[d]
      BY <2>3, <3>1
    <3> QED
      BY <2>1, <3>2, <3>3, <3>4
  <2>10. \A d \in 1 .. k - 1 : others[d] = stack[d]
    BY <2>3, <2>9
  <2>11. StackIs(prob, depth, others)
    BY <1>1, <2>2, <2>3, <2>8, <2>9, <2>10, StackKept
  <2> QED
    BY <1>1, <2>1, <2>2, <2>9, <2>11 DEF DepthInv
<1>5. CASE Limit
  <2>1. /\ phase = "search" /\ ~prob.oe /\ ~Deep /\ Len(stack) = 1 /\ depth < prob.maxLength /\ DepthInv
        /\ depth' = depth + 1 /\ stack' = <<Frame(prob.inputs)>>
    BY <1>1, <1>5 DEF Limit, Done
  <2>2. NoneOf(prob, depth) /\ depth \in Nat \ {0}
    BY <1>1, <2>1, LimitIs
  <2>3. depth + 1 \in Nat \ {0} /\ (depth + 1) - 1 = depth /\ depth + 1 <= prob.maxLength
    BY <1>1, <2>1, <2>2, ProblemIs
  <2>4. StackIs(prob, depth + 1, stack')
    BY <1>1, <2>1, <2>3, StackStarts
  <2> QED
    BY <1>1, <2>1, <2>2, <2>3, <2>4 DEF DepthInv
<1>6. CASE UNCHANGED vars
  BY <1>6 DEF vars, oeVars, DepthInv
<1>7. CASE Trivial \/ GiveUp
  BY <1>7 DEF Trivial, GiveUp, Done
<1>8. CASE Discard \/ Keep \/ Level
  BY <1>1, <1>8 DEF Discard, Keep, Try, Breadth, Level
<1> QED
  BY <1>2, <1>3, <1>4, <1>5, <1>6, <1>7, <1>8 DEF Next

LEMMA DepthFound ==
  ASSUME BudgetInv, DepthInv, Visit \/ Limit, phase' = "done"
  PROVE  FoundInv'
<1>1. prob \in Problems /\ prob' = prob /\ prob.maxLength \in Nat
  BY ProblemIs DEF BudgetInv, Visit, Limit
<1>2. /\ depth \in Nat \ {0} /\ depth <= prob.maxLength /\ StackIs(prob, depth, stack) /\ NoneOf(prob, depth - 1)
  BY DEF DepthInv
<1>3. CASE Visit
  <2> DEFINE m == Len(stack)
             q == Prefix(prob, stack, m)
             i == stack[m].tried + 1
             x == Append(q, prob.alphabet[i])
  <2>1. Deep /\ ~Faulted(Below) /\ ~(m < depth) /\ GoalsHold(Below) /\ result' = {Path(Touched)}
    BY <1>3 DEF Visit, Done, Deep
  <2>2. /\ i \in 1 .. Len(prob.alphabet) /\ x \in Seq(Alph(prob)) /\ Len(x) = m
        /\ Below = Ends(prob, x)
        /\ Touched \in Seq(FrameSet(prob)) /\ Len(Touched) = m
        /\ \A d \in 1 .. m - 1 : Touched[d] = stack[d]
        /\ Touched[m].tried = i
    <3>1. /\ i \in 1 .. Len(prob.alphabet) /\ x \in Seq(Alph(prob)) /\ Len(x) = m /\ q \in Seq(Alph(prob))
          /\ Below = Ends(prob, x)
          /\ Touched \in Seq(FrameSet(prob)) /\ Len(Touched) = m
          /\ \A d \in 1 .. m - 1 : Touched[d] = stack[d]
          /\ Touched[m].tried = i
          /\ Passed(prob, depth, Touched[m], q)
          /\ NoneBelow(prob, depth, x) => Top(prob, depth, Touched[m], q)
      BY <1>1, <2>1, VisitIs
    <3> HIDE DEF x, i, q, m
    <3> QED
      BY <3>1
  <2>3. m \in Nat \ {0} /\ m <= depth /\ \A j \in 1 .. m - 1 : stack[j].tried \in 1 .. Len(prob.alphabet)
    BY <1>1, <1>2, StackFacts
  <2>4. m = depth
    BY <1>2, <2>1, <2>3
  <2>5. \A j \in 1 .. m - 1 : Touched[j].tried \in 1 .. Len(prob.alphabet) /\ Touched[j].tried = stack[j].tried
    BY <2>2, <2>3
  <2>6. x = Prefix(prob, Touched, m + 1)
    <3>1. \A j \in 1 .. m : j = m \/ j \in 1 .. m - 1
      BY <2>3
    <3>2. \A j \in 1 .. m : Touched[j].tried \in 1 .. Len(prob.alphabet)
      BY <2>2, <2>5, <3>1
    <3>3. Prefix(prob, Touched, m + 1) = Append(Prefix(prob, Touched, m), prob.alphabet[Touched[m].tried])
      BY <1>1, <2>3, <3>2, PrefixGrows
    <3>4. Prefix(prob, Touched, m) = q
      BY <1>1, <2>3, <2>5, PrefixIs
    <3> QED
      BY <2>2, <3>3, <3>4
  <2>7. Path(Touched) = x
    <3>1. DOMAIN Touched = 1 .. m /\ (m + 1) - 1 = m
      BY <2>2, <2>3
    <3> HIDE DEF x
    <3> QED
      BY <2>6, <3>1 DEF Path, Prefix
  <2> HIDE DEF x
  <2>8. PICK r \in Seq(Alph(prob)) : r = x /\ Len(r) = depth
    BY <2>2, <2>4
  <2>9. GoesOn(prob, r) /\ Meets(prob, r)
    BY <1>1, <2>1, <2>2, <2>8, EndsAre
  <2>10. Answers(prob, {r}, exhausted')
    BY <1>2, <2>8, <2>9, AnswerIs
  <2> QED
    BY <1>1, <2>1, <2>7, <2>8, <2>10 DEF FoundInv
<1>4. CASE Limit
  <2>1. phase = "search" /\ ~prob.oe /\ ~Deep /\ Len(stack) = 1 /\ ~(depth < prob.maxLength) /\ result' = {}
    BY <1>4 DEF Limit, Done
  <2>2. NoneOf(prob, depth) /\ depth = prob.maxLength
    BY <1>1, <1>2, <2>1, LimitIs
  <2> QED
    BY <1>1, <2>1, <2>2 DEF FoundInv, Answers
<1> QED
  BY <1>3, <1>4
-----------------------------------------------------------------------------
(* Alphabets that cover their space.                                       *)

BitsCommute ==
  \A x, y \in Word : BitAnd(x, y) = BitAnd(y, x) /\ BitOr(x, y) = BitOr(y, x) /\ BitXor(x, y) = BitXor(y, x)

\* Redundant instructions that set flags, which are not in the alphabet either.
SetsFlags(ins) == Redundant(ins) /\ ins.op \in {"cmp", "addi"}

LEMMA EverythingIs ==
  ASSUME NEW ops, ops \subseteq Opcode \ IsControl, NEW n \in Nat, NEW imms, imms \subseteq Int,
         NEW ins \in Everything(ops, n, imms)
  PROVE  /\ ins \in Linear /\ ins.op \in ops
         /\ ins.op \in Commutative => Ins(ins.op, ins.a, ins.c, ins.b, 0) \in Everything(ops, n, imms) /\ ins.imm = 0
<1> DEFINE R == 0 .. n - 1
           of(op) == CASE op = "nop" -> {Ins(op, 0, 0, 0, 0)}
                       [] op = "movi" -> {Ins(op, a, 0, 0, imm) : a \in R, imm \in imms}
                       [] op \in {"mov", "neg", "not", "cmp"} -> {Ins(op, a, b, 0, 0) : a, b \in R}
                       [] op \in {"addi", "ld", "st", "ldb", "stb"} -> {Ins(op, a, b, 0, imm) : a, b \in R, imm \in imms}
                       [] op \in {"push", "pop"} -> {Ins(op, a, 0, 0, 0) : a \in R}
                       [] OTHER -> {Ins(op, a, b, c, 0) : a, b, c \in R}
<1>1. Everything(ops, n, imms) = UNION {of(op) : op \in ops}
  BY DEF Everything
<1>2. PICK op \in ops : ins \in of(op)
  BY <1>1
<1>3. R \subseteq Nat /\ 0 \in Nat /\ 0 \in Int
  OBVIOUS
<1> HIDE DEF R
<1>4. \E a, b, c \in Nat, imm \in Int : ins = Ins(op, a, b, c, imm)
  BY <1>2, <1>3
<1>5. ins \in Linear /\ ins.op = op
  BY <1>4 DEF Ins, Linear, Instruction
<1>6. ASSUME ins.op \in Commutative
      PROVE  Ins(ins.op, ins.a, ins.c, ins.b, 0) \in Everything(ops, n, imms) /\ ins.imm = 0
  <2>1. of(op) = {Ins(op, a, b, c, 0) : a, b, c \in R}
    BY <1>5, <1>6 DEF Commutative
  <2>2. PICK a \in R, b \in R, c \in R : ins = Ins(op, a, b, c, 0)
    BY <1>2, <2>1
  <2>3. ins.a = a /\ ins.b = b /\ ins.c = c /\ ins.imm = 0
    BY <2>2 DEF Ins
  <2>4. Ins(op, a, c, b, 0) \in of(op)
    BY <2>1
  <2>5. Ins(op, a, c, b, 0) \in Everything(ops, n, imms)
    BY <1>1, <2>4
  <2> QED
    BY <1>5, <2>3, <2>5
<1> QED
  BY <1>5, <1>6

LEMMA SumWraps ==
  ASSUME NEW w \in Nat \ {0}, NEW x \in 0 .. w - 1, NEW y \in 0 .. w - 1
  PROVE  (x + y) % w = x + y \/ (x + y) % w = x + y - w
<1>1. CASE x + y < w
  BY <1>1
<1>2. CASE ~(x + y < w)
  <2>1. x + y = w * 1 + (x + y - w) /\ x + y - w \in 0 .. w - 1
    BY <1>2
  <2> QED
    BY <2>1, QuotientIs
<1> QED
  BY <1>1, <1>2

\* The order of the operands makes no difference to a commutative instruction, flags included.
LEMMA SwapIsEqual ==
  ASSUME BitsCommute, NEW ins \in Linear, ins.op \in Commutative, NEW other \in Linear,
         other.op = ins.op, other.a = ins.a, other.b = ins.c, other.c = ins.b
  PROVE  Equal(ins, other)
<1>1. SUFFICES ASSUME NEW s \in State PROVE Execute(s, ins) = Execute(s, other)
  BY DEF Equal
<1>2. WellFormed(ins) <=> WellFormed(other)
  <2>1. Operands(ins.op) = {"a", "b", "c"} /\ ins.op \in Opcode
    BY DEF Operands, Commutative, OneReg, TwoRegs, ThreeRegs, Opcode
  <2> QED
    BY <2>1 DEF WellFormed
<1>3. CASE s.halted # "Running" \/ ~WellFormed(ins)
  BY <1>2, <1>3 DEF Execute
<1>4. CASE s.halted = "Running" /\ WellFormed(ins)
  <2>1. ins.b < Registers /\ ins.c < Registers /\ ins.b \in Nat /\ ins.c \in Nat
    BY <1>4 DEF WellFormed, Operands, Commutative, OneReg, TwoRegs, ThreeRegs, Linear, Instruction
  <2>2. PICK x \in Word, y \in Word : x = s.regs[ins.b] /\ y = s.regs[ins.c]
    <3>1. Registers \in Nat
      BY SizesArePositive
    <3>2. ins.b \in 0 .. Registers - 1 /\ ins.c \in 0 .. Registers - 1
      BY <2>1, <3>1
    <3>3. s.regs \in [0 .. Registers - 1 -> Word]
      BY DEF State
    <3> QED
      BY <3>2, <3>3
  <2>3. CASE ins.op = "add"
    <3>1. Wrap(x + y) = Wrap(y + x)
      BY DEF Word
    <3>2. PICK r \in Word : r = Result("add", x, y) /\ r = Result("add", y, x)
      <4>1. Result("add", x, y) = Wrap(x + y) /\ Result("add", y, x) = Wrap(y + x)
        BY DEF Result
      <4> QED
        BY <3>1, <4>1, WrapIsWord DEF Word
    <3>3. Carry("add", x, y, r) <=> Carry("add", y, x, r)
      <4>1. WordSize \in Nat \ {0} /\ x \in 0 .. WordSize - 1 /\ y \in 0 .. WordSize - 1
        BY SizesArePositive DEF Word
      <4>2. r = (x + y) % WordSize
        BY <3>2 DEF Result, Wrap
      <4>3. r = x + y \/ r = x + y - WordSize
        BY <4>1, <4>2, SumWraps
      <4> QED
        BY <4>1, <4>3 DEF Carry
    <3>4. Overflow("add", x, y, r) <=> Overflow("add", y, x, r)
      BY DEF Overflow
    <3>5. AddSub(s, ins) = AddSub(s, other)
      <4>1. PICK c, v : /\ c = If("C", Carry("add", x, y, r)) /\ c = If("C", Carry("add", y, x, r))
                        /\ v = If("V", Overflow("add", x, y, r)) /\ v = If("V", Overflow("add", y, x, r))
        BY <3>3, <3>4 DEF If
      <4>2. AddSub(s, ins) = Advance(Write([s EXCEPT !.flags = SetZN(s.flags, r) \cup c \cup v], ins.a, r))
        BY <2>2, <2>3, <3>2, <4>1 DEF AddSub
      <4>3. AddSub(s, other) = Advance(Write([s EXCEPT !.flags = SetZN(s.flags, r) \cup c \cup v], ins.a, r))
        BY <2>2, <2>3, <3>2, <4>1 DEF AddSub
      <4> QED
        BY <4>2, <4>3
    <3>6. Execute(s, ins) = AddSub(s, ins) /\ Execute(s, other) = AddSub(s, other)
      BY <1>2, <1>4, <2>3, ExecuteIs
    <3> QED
      BY <3>5, <3>6
  <2>4. CASE ins.op # "add"
    <3>1. ins.op \in {"mul", "and", "or", "xor"}
      BY <2>4 DEF Commutative
    <3>2. Result(ins.op, x, y) = Result(ins.op, y, x)
      <4>1. x * y = y * x
        BY DEF Word
      <4> QED
        BY <3>1, <4>1 DEF Result, BitsCommute
    <3>3. Compute(s, ins) = Compute(s, other)
      BY <2>2, <3>1, <3>2 DEF Compute
    <3>4. Execute(s, ins) = Compute(s, ins) /\ Execute(s, other) = Compute(s, other)
      BY <1>2, <1>4, <3>1, ExecuteIs
    <3> QED
      BY <3>3, <3>4
  <2> QED
    BY <2>3, <2>4
<1> QED
  BY <1>3, <1>4

\* What make_alphabet leaves out does nothing, or what another does, but for the comparison of
\* a register with itself and the addition of zero to one, which set flags.
THEOREM GeneratedCovers ==
  ASSUME BitsCommute, NEW ops, ops \subseteq Opcode \ IsControl, NEW n \in Nat, NEW imms, imms \subseteq Int,
         NEW p, ToSet(p.alphabet) = Alphabet(ops, n, imms),
         p.space \subseteq {ins \in Everything(ops, n, imms) : ~SetsFlags(ins)}
  PROVE  Covers(p)
<1>1. p.space \subseteq Linear
  BY EverythingIs
<1>2. ASSUME NEW ins \in p.space PROVE Idle(ins) \/ \E other \in ToSet(p.alphabet) : Equal(ins, other)
  <2>1. ins \in Everything(ops, n, imms) /\ ins \in Linear /\ ~SetsFlags(ins)
    BY EverythingIs
  <2>2. CASE ~Redundant(ins)
    <3>1. ins \in ToSet(p.alphabet)
      BY <2>1, <2>2 DEF Alphabet
    <3>2. Equal(ins, ins)
      BY DEF Equal
    <3> QED
      BY <3>1, <3>2
  <2>3. CASE ins.op = "mov" /\ ins.a = ins.b
    <3>1. ASSUME NEW s \in State, Execute(s, ins).halted = "Running" PROVE Alike(Execute(s, ins), s)
      <4>1. s.halted = "Running"
        BY <3>1 DEF Execute
      <4>2. WellFormed(ins)
        <5>1. SUFFICES ASSUME ~WellFormed(ins) PROVE FALSE
          OBVIOUS
        <5>2. Execute(s, ins) = Fault(s) /\ Fault(s).halted = "Fault"
          BY <4>1, <5>1 DEF Execute, Fault, State
        <5> QED
          BY <3>1, <5>2
      <4>3. Execute(s, ins) = Move(s, ins)
        BY <2>3, <4>1, <4>2, ExecuteIs
      <4>4. PICK t \in State : t = Move(s, ins)
        BY <2>1, <4>3, InstructionsKeepStates DEF Linear
      <4>5. t.sp = s.sp /\ t.flags = s.flags /\ t.halted = s.halted /\ t.regs = s.regs /\ t.mem = s.mem
        BY <2>3, <4>4 DEF Move, Advance, Write, State
      <4> QED
        BY <4>3, <4>4, <4>5, AlikeIs
    <3> QED
      BY <3>1 DEF Idle
  <2>4. CASE ins.op \in Commutative /\ ins.b > ins.c
    <3>1. PICK other : other = Ins(ins.op, ins.a, ins.c, ins.b, 0)
      OBVIOUS
    <3>2. /\ other \in Everything(ops, n, imms) /\ other \in Linear
          /\ other.op = ins.op /\ other.a = ins.a /\ other.b = ins.c /\ other.c = ins.b
      <4>1. other \in Everything(ops, n, imms)
        BY <2>1, <2>4, <3>1, EverythingIs
      <4>2. other \in Linear
        BY <4>1, EverythingIs
      <4>3. other.op = ins.op /\ other.a = ins.a /\ other.b = ins.c /\ other.c = ins.b
        BY <3>1 DEF Ins
      <4> QED
        BY <4>1, <4>2, <4>3
    <3>3. ~Redundant(other)
      <4>1. ins.b \in Nat /\ ins.c \in Nat
        BY <2>1 DEF Linear, Instruction
      <4>2. ~(other.b > other.c)
        BY <2>4, <3>2, <4>1
      <4> QED
        BY <2>4, <3>2, <4>2 DEF Redundant, Commutative
    <3>4. other \in ToSet(p.alphabet)
      BY <3>2, <3>3 DEF Alphabet
    <3>5. Equal(ins, other)
      BY <2>1, <2>4, <3>2, SwapIsEqual
    <3> QED
      BY <3>4, <3>5
  <2> QED
    BY <2>1, <2>2, <2>3, <2>4 DEF Redundant, SetsFlags
<1> QED
  BY <1>1, <1>2 DEF Covers
-----------------------------------------------------------------------------
(* The theorems.                                                           *)

IInv ==
  /\ BudgetInv
  /\ phase = "search" /\ prob.oe => BreadthInv /\ (Awake(prob) => KnownInv /\ CoveredTo(seen, turn))
  /\ phase = "search" /\ ~prob.oe => DepthInv
  /\ FoundInv

LEMMA InvariantInit == Init => IInv
<1>1. Init => phase = "start"
  BY DEF Init
<1> QED
  BY <1>1, BudgetInit DEF IInv, FoundInv

LEMMA InvariantNext == IInv /\ [Next]_vars => IInv'
<1> SUFFICES ASSUME IInv, [Next]_vars PROVE IInv'
  OBVIOUS
<1>1. BudgetInv' /\ prob' = prob /\ BudgetInv
  BY BudgetNext DEF IInv
<1>2. phase' = "search" /\ prob'.oe => BreadthInv'
  BY BreadthStep DEF IInv
<1>3. phase' = "search" /\ prob'.oe /\ Awake(prob) => KnownInv' /\ CoveredTo(seen, turn)'
  BY CoverStep DEF IInv
<1>4. phase' = "search" /\ ~prob'.oe => DepthInv'
  BY DepthStep DEF IInv
<1>5. FoundInv'
  <2>1. SUFFICES ASSUME phase' = "done" PROVE FoundInv'
    BY DEF FoundInv
  <2>2. CASE Trivial \/ Begin \/ GiveUp
    BY <1>1, <2>1, <2>2, AtOnceFound
  <2>3. CASE Keep \/ Level
    <3>1. phase = "search" /\ prob.oe
      BY <2>3 DEF Keep, Try, Breadth, Level
    <3> QED
      BY <1>1, <2>1, <2>3, <3>1, BreadthFound DEF IInv
  <2>4. CASE Visit \/ Limit
    <3>1. phase = "search" /\ ~prob.oe
      BY <2>4 DEF Visit, Deep, Limit
    <3> QED
      BY <1>1, <2>1, <2>4, <3>1, DepthFound DEF IInv
  <2>5. CASE UNCHANGED vars
    BY <2>5 DEF vars, IInv, FoundInv
  <2>6. CASE Discard \/ Backtrack
    BY <2>1, <2>6 DEF Discard, Try, Breadth, Backtrack
  <2> QED
    BY <2>2, <2>3, <2>4, <2>5, <2>6 DEF Next
<1>6. Awake(prob) <=> Awake(prob')
  BY <1>1
<1> QED
  BY <1>1, <1>2, <1>3, <1>4, <1>5, <1>6 DEF IInv

THEOREM Invariance == Spec => []IInv
BY InvariantInit, InvariantNext, PTL DEF Spec

\* Whatever the order in which the candidates are tried, what the node to expand stores, with
\* the rest of the scratch states, is what its program reaches (node_cpu and store).
THEOREM ImagesStayStates == Spec => [](FromStart(prob) => ImagesAreStates)
<1>1. IInv => (FromStart(prob) => ImagesAreStates)
  BY ImagesAre DEF IInv, BudgetInv
<1> QED
  BY <1>1, Invariance, PTL

\* Both searches return a shortest program of the space, if one within the length solves the
\* problem, unless they spend their budget: merging nodes of one key (OE), and dropping
\* instructions that do nothing or what another does (the canonical alphabet), loses nothing.
THEOREM ShortestIsReturned ==
  Spec => [](FromStart(prob) /\ BlindGoals(prob) /\ Covers(prob) => ShortestIsFound)
<1>1. IInv /\ FromStart(prob) /\ BlindGoals(prob) /\ Covers(prob) => ShortestIsFound
  <2> SUFFICES ASSUME IInv, FromStart(prob), BlindGoals(prob), Covers(prob) PROVE ShortestIsFound
    OBVIOUS
  <2>1. /\ prob \in Problems /\ states <= prob.maxStates /\ prob.maxLength \in Nat
        /\ exhausted => states = prob.maxStates /\ result = {} /\ phase = "done"
        /\ phase # "done" => result = {}
    BY ProblemIs DEF IInv, BudgetInv
  <2>2. \A w : Verify(w) <=> Verifies(prob, w)
    BY DEF Verify, Verifies, Examples
  <2>3. \A w : Faults(w) <=> Fails(prob, w)
    BY DEF Faults, Fails, Examples
  <2>4. Faulted(prob.inputs) <=> ~Awake(prob)
    BY DEF Faulted, Awake, Examples
  <2>5. ASSUME NEW w \in result
        PROVE  w \in Seq(Alph(prob)) /\ w \in Seq(Linear) /\ Len(w) \in Nat /\ Len(w) <= prob.maxLength /\ Meets(prob, w)
    <3>1. w \in Seq(Alph(prob)) /\ Len(w) <= prob.maxLength /\ Meets(prob, w)
      BY <2>1 DEF IInv, FoundInv, Answers
    <3>2. w \in Seq(Linear) /\ Len(w) \in Nat
      BY <2>1, <3>1, AlphIsLinear
    <3> QED
      BY <3>1, <3>2
  <2>6. \A w \in result : Verify(w)
    BY <2>1, <2>2, <2>5, VerifyIs
  <2>7. ASSUME phase = "done", ~exhausted, Awake(prob), result = {}, NEW n \in 0 .. prob.maxLength,
               NEW w \in [1 .. n -> prob.space]
        PROVE  ~(Verify(w) /\ ~Faults(w))
    <3>1. NoneOf(prob, prob.maxLength)
      BY <2>7 DEF IInv, FoundInv, Answers
    <3>2. n \in Nat /\ n <= prob.maxLength /\ prob.maxLength \in Int
      BY <2>1
    <3> QED
      BY <2>1, <2>2, <2>3, <2>7, <3>1, <3>2, NoneInSpace
  <2>8. ASSUME phase = "done", ~exhausted, Awake(prob), NEW w \in result
        PROVE  ~Faults(w) /\ GoesOn(prob, w) /\ NoneOf(prob, Len(w) - 1)
    <3>1. GoesOn(prob, w) /\ NoneOf(prob, Len(w) - 1)
      BY <2>8 DEF IInv, FoundInv, Answers
    <3>2. ~Fails(prob, w)
      BY <2>1, <2>5, <2>8, <3>1, VerifyIs
    <3> QED
      BY <2>3, <3>1, <3>2
  <2>9. ASSUME phase = "done", ~exhausted, Awake(prob), NEW w \in result,
               NEW n \in 0 .. prob.maxLength, n < Len(w), NEW v \in [1 .. n -> prob.space]
        PROVE  ~(Verify(v) /\ ~Faults(v))
    <3>1. NoneOf(prob, Len(w) - 1)
      BY <2>8, <2>9
    <3>2. n \in Nat /\ n <= Len(w) - 1 /\ Len(w) - 1 \in Int /\ n <= prob.maxLength
      BY <2>1, <2>5, <2>9
    <3> QED
      BY <2>1, <2>2, <2>3, <2>9, <3>1, <3>2, NoneInSpace
  <2> QED
    BY <2>1, <2>4, <2>6, <2>7, <2>8, <2>9 DEF ShortestIsFound
<1> QED
  BY <1>1, Invariance, PTL
=============================================================================
