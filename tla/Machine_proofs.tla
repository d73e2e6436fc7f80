--------------------------- MODULE Machine_proofs ---------------------------
(***************************************************************************)
(* The stack pointer of the machine, the atomicity of halting, and the     *)
(* budget of a run, for every word width, memory size, program and client, *)
(* where nothing is asked of the contents of registers and memory; then    *)
(* the types, and the words on the stack.                                  *)
(***************************************************************************)
EXTENDS Machine, MachineStep_proofs, SequenceTheorems

Fields == {"pc", "sp", "flags", "halted", "regs", "mem"}

\* A machine state, as far as these proofs look at it.
Shaped(s) == s = [f \in Fields |-> s[f]]

\* n is a whole number of words below the end of the memory.
InStack(n) == n \in Nat /\ n <= MemoryCells /\ \E k \in 0 .. MemoryCells : n + k * WordCells = MemoryCells

Flagged(s) == s.halted = "Fault" <=> "F" \in s.flags

\* What every operation keeps.
Sane(s) == Shaped(s) /\ InStack(s.sp) /\ Flagged(s)

LEMMA Widths ==
  /\ MemoryCells \in Nat \ {0} /\ WordCells \in Nat \ {0} /\ WordCells <= MemoryCells
BY WidthsAssumption

\* A push moves the pointer by one word, if there is room for it.
LEMMA PushMoves ==
  ASSUME NEW n, InStack(n), n >= WordCells
  PROVE  InStack(n - WordCells)
<1>1. PICK k \in 0 .. MemoryCells : n + k * WordCells = MemoryCells
  BY DEF InStack
<1>2. n - WordCells \in Nat /\ n - WordCells <= MemoryCells
  BY Widths DEF InStack
<1>3. (k + 1) * WordCells = k * WordCells + WordCells
  BY Widths
<1>4. (n - WordCells) + (k + 1) * WordCells = MemoryCells
  BY <1>1, <1>3, Widths DEF InStack
<1>5. k + 1 <= (k + 1) * WordCells
  BY Widths
<1>6. (k + 1) * WordCells \in Int
  BY Widths
<1>7. k + 1 \in 0 .. MemoryCells
  BY <1>2, <1>4, <1>5, <1>6, Widths
<1> QED
  BY <1>2, <1>4, <1>7 DEF InStack

\* So does a pop, if there is a word.
LEMMA PopMoves ==
  ASSUME NEW n, InStack(n), n <= MemoryCells - WordCells
  PROVE  InStack(n + WordCells)
<1>1. PICK k \in 0 .. MemoryCells : n + k * WordCells = MemoryCells
  BY DEF InStack
<1>2. n + WordCells \in Nat /\ n + WordCells <= MemoryCells
  BY Widths DEF InStack
<1>3. k # 0
  BY <1>1, Widths DEF InStack
<1>4. (k - 1) * WordCells = k * WordCells - WordCells
  BY Widths
<1>5. k * WordCells \in Int
  BY Widths
<1>6. (n + WordCells) + (k - 1) * WordCells = MemoryCells
  BY <1>1, <1>4, <1>5, Widths DEF InStack
<1>7. k - 1 \in 0 .. MemoryCells
  BY <1>3, Widths
<1> QED
  BY <1>2, <1>6, <1>7 DEF InStack

\* The fields an operator of MachineStep leaves alone.
LEMMA FaultFacts ==
  ASSUME NEW s, Sane(s)
  PROVE  /\ Sane(Fault(s)) /\ Fault(s).halted = "Fault"
         /\ Fault(s) = [s EXCEPT !.flags = @ \cup {"F"}, !.halted = "Fault"]
<1>1. Fault(s) = [s EXCEPT !.flags = @ \cup {"F"}, !.halted = "Fault"]
  BY DEF Fault
<1>2. /\ Shaped(Fault(s)) /\ Fault(s).sp = s.sp /\ Fault(s).halted = "Fault"
      /\ "F" \in Fault(s).flags
  BY <1>1 DEF Sane, Shaped, Fields
<1> QED
  BY <1>1, <1>2 DEF Sane, Flagged

LEMMA ControlFacts ==
  ASSUME NEW s, Sane(s), s.halted = "Running", NEW target
  PROVE  /\ Sane(Advance(s)) /\ Advance(s).halted = "Running"
         /\ Sane(Jump(s, target)) /\ Jump(s, target).halted = "Running"
<1>1. /\ Shaped(Advance(s)) /\ Advance(s).sp = s.sp /\ Advance(s).halted = s.halted
      /\ Advance(s).flags = s.flags
  BY DEF Advance, Sane, Shaped, Fields
<1>2. /\ Shaped(Jump(s, target)) /\ Jump(s, target).sp = s.sp /\ Jump(s, target).halted = s.halted
      /\ Jump(s, target).flags = s.flags
  BY DEF Jump, Sane, Shaped, Fields
<1> QED
  BY <1>1, <1>2 DEF Sane, Flagged

LEMMA WriteFacts ==
  ASSUME NEW s, Sane(s), NEW r, NEW w
  PROVE  Sane(Write(s, r, w)) /\ Write(s, r, w).halted = s.halted
<1>1. /\ Shaped(Write(s, r, w)) /\ Write(s, r, w).sp = s.sp /\ Write(s, r, w).halted = s.halted
      /\ Write(s, r, w).flags = s.flags
  BY DEF Write, Sane, Shaped, Fields
<1> QED
  BY <1>1 DEF Sane, Flagged

LEMMA MemoryFacts ==
  ASSUME NEW s, Sane(s), NEW mem
  PROVE  Sane([s EXCEPT !.mem = mem]) /\ [s EXCEPT !.mem = mem].halted = s.halted
<1> DEFINE t == [s EXCEPT !.mem = mem]
<1>1. Shaped(t) /\ t.sp = s.sp /\ t.halted = s.halted /\ t.flags = s.flags
  BY DEF Sane, Shaped, Fields
<1> QED
  BY <1>1 DEF Sane, Flagged

\* Flags may change, but not F.
LEMMA FlagsFacts ==
  ASSUME NEW s, Sane(s), s.halted = "Running", NEW flags, "F" \notin flags
  PROVE  Sane([s EXCEPT !.flags = flags]) /\ [s EXCEPT !.flags = flags].halted = "Running"
<1> DEFINE t == [s EXCEPT !.flags = flags]
<1>1. Shaped(t) /\ t.sp = s.sp /\ t.halted = s.halted /\ t.flags = flags
  BY DEF Sane, Shaped, Fields
<1> QED
  BY <1>1 DEF Sane, Flagged

LEMMA SetZNKeepsF == ASSUME NEW flags, NEW r, "F" \notin flags PROVE "F" \notin SetZN(flags, r)
BY DEF SetZN, If

\* What one instruction may do to a running machine.
Goes(s, t) == Sane(t) /\ (t.halted = "Running" \/ t = Fault(s))

LEMMA MoveGoes ==
  ASSUME NEW s, Sane(s), s.halted = "Running", NEW ins PROVE Goes(s, Move(s, ins))
<1> DEFINE t == Write(s, ins.a, IF ins.op = "movi" THEN Wrap(ins.imm) ELSE s.regs[ins.b])
<1>1. Sane(t) /\ t.halted = "Running"
  BY WriteFacts
<1>2. Sane(Advance(t)) /\ Advance(t).halted = "Running"
  BY <1>1, ControlFacts
<1> QED
  BY <1>2 DEF Goes, Move

LEMMA AddSubGoes ==
  ASSUME NEW s, Sane(s), s.halted = "Running", NEW ins PROVE Goes(s, AddSub(s, ins))
<1> DEFINE x == s.regs[IF ins.op = "cmp" THEN ins.a ELSE ins.b]
           y == s.regs[IF ins.op = "cmp" THEN ins.b ELSE ins.c]
           r == Result(ins.op, x, y)
           flags == SetZN(s.flags, r) \cup If("C", Carry(ins.op, x, y, r)) \cup If("V", Overflow(ins.op, x, y, r))
           flagged == [s EXCEPT !.flags = flags]
           t == IF ins.op = "cmp" THEN flagged ELSE Write(flagged, ins.a, r)
<1> HIDE DEF x, y, r
<1>1. "F" \notin s.flags
  BY DEF Sane, Flagged
<1>2. "F" \notin flags
  BY <1>1, SetZNKeepsF DEF If
<1> HIDE DEF flags
<1>3. Sane(flagged) /\ flagged.halted = "Running"
  BY <1>2, FlagsFacts
<1> HIDE DEF flagged
<1>4. Sane(Write(flagged, ins.a, r)) /\ Write(flagged, ins.a, r).halted = "Running"
  BY <1>3, WriteFacts
<1>5. Sane(t) /\ t.halted = "Running"
  BY <1>3, <1>4
<1> HIDE DEF t
<1>6. Sane(Advance(t)) /\ Advance(t).halted = "Running"
  BY <1>5, ControlFacts
<1>7. AddSub(s, ins) = Advance(t)
  BY DEF AddSub, t, flagged, flags, r, x, y
<1> QED
  BY <1>6, <1>7 DEF Goes

LEMMA ComputeGoes ==
  ASSUME NEW s, Sane(s), s.halted = "Running", NEW ins PROVE Goes(s, Compute(s, ins))
<1> DEFINE x == s.regs[ins.b]
           r == CASE ins.op = "addi" -> Wrap(x + ins.imm)
                  [] ins.op = "neg"  -> Wrap(-x)
                  [] ins.op = "not"  -> WordSize - 1 - x
                  [] OTHER           -> Result(ins.op, x, s.regs[ins.c])
           flags == SetZN(s.flags, r)
           flagged == [s EXCEPT !.flags = flags]
           t == Write(flagged, ins.a, r)
<1> HIDE DEF x, r
<1>1. "F" \notin s.flags
  BY DEF Sane, Flagged
<1>2. "F" \notin flags
  BY <1>1, SetZNKeepsF
<1> HIDE DEF flags
<1>3. Sane(flagged) /\ flagged.halted = "Running"
  BY <1>2, FlagsFacts
<1> HIDE DEF flagged
<1>4. Sane(t) /\ t.halted = "Running"
  BY <1>3, WriteFacts
<1> HIDE DEF t
<1>5. Sane(Advance(t)) /\ Advance(t).halted = "Running"
  BY <1>4, ControlFacts
<1>6. Compute(s, ins) = Fault(s) \/ Compute(s, ins) = Advance(t)
  BY DEF Compute, t, flagged, flags, r, x
<1> QED
  BY <1>5, <1>6, FaultFacts DEF Goes

LEMMA BranchGoes ==
  ASSUME NEW s, Sane(s), s.halted = "Running", NEW ins PROVE Goes(s, Branch(s, ins))
<1>1. Branch(s, ins) = Jump(s, ins.imm) \/ Branch(s, ins) = Advance(s)
  BY DEF Branch
<1> QED
  BY <1>1, ControlFacts DEF Goes

LEMMA TransferGoes ==
  ASSUME NEW s, Sane(s), s.halted = "Running", NEW ins, ins.op \in {"ld", "st", "ldb", "stb"}
  PROVE  Goes(s, Transfer(s, ins))
<1> DEFINE addr == Wrap(s.regs[ins.b] + ins.imm)
           w == s.regs[ins.a]
           cell == [s.mem EXCEPT ![addr] = w % CellSize]
<1>1. \/ Transfer(s, ins) = Fault(s)
      \/ Transfer(s, ins) = Advance(Write(s, ins.a, LoadWord(s.mem, addr)))
      \/ Transfer(s, ins) = Advance(Write(s, ins.a, s.mem[addr]))
      \/ Transfer(s, ins) = Advance([s EXCEPT !.mem = StoreWord(s.mem, addr, w)])
      \/ Transfer(s, ins) = Advance([s EXCEPT !.mem = cell])
  BY DEF Transfer
<1> HIDE DEF addr, w, cell
<1>2. \A v : Sane(Write(s, ins.a, v)) /\ Write(s, ins.a, v).halted = "Running"
  BY WriteFacts
<1>3. \A mem : Sane([s EXCEPT !.mem = mem]) /\ [s EXCEPT !.mem = mem].halted = "Running"
  BY MemoryFacts
<1>4. \A t : Sane(t) /\ t.halted = "Running" => Sane(Advance(t)) /\ Advance(t).halted = "Running"
  BY ControlFacts
<1>5. \A t : Sane(t) /\ t.halted = "Running" => Goes(s, Advance(t))
  BY <1>4 DEF Goes
<1>6. CASE Transfer(s, ins) = Fault(s)
  BY <1>6, FaultFacts DEF Goes
<1>7. CASE Transfer(s, ins) = Advance(Write(s, ins.a, LoadWord(s.mem, addr)))
  <2>1. Goes(s, Advance(Write(s, ins.a, LoadWord(s.mem, addr))))
    BY <1>2, <1>5
  <2> QED
    BY <1>7, <2>1
<1>8. CASE Transfer(s, ins) = Advance(Write(s, ins.a, s.mem[addr]))
  <2>1. Goes(s, Advance(Write(s, ins.a, s.mem[addr])))
    BY <1>2, <1>5
  <2> QED
    BY <1>8, <2>1
<1>9. CASE Transfer(s, ins) = Advance([s EXCEPT !.mem = StoreWord(s.mem, addr, w)])
  <2>1. Goes(s, Advance([s EXCEPT !.mem = StoreWord(s.mem, addr, w)]))
    BY <1>3, <1>5
  <2> QED
    BY <1>9, <2>1
<1>10. CASE Transfer(s, ins) = Advance([s EXCEPT !.mem = cell])
  <2>1. Goes(s, Advance([s EXCEPT !.mem = cell]))
    BY <1>3, <1>5
  <2> QED
    BY <1>10, <2>1
<1> QED
  BY <1>1, <1>6, <1>7, <1>8, <1>9, <1>10

\* A stack pointer may be replaced by another one within bounds.
LEMMA PointerFacts ==
  ASSUME NEW s, Sane(s), NEW n, InStack(n)
  PROVE  Sane([s EXCEPT !.sp = n]) /\ [s EXCEPT !.sp = n].halted = s.halted
<1> DEFINE t == [s EXCEPT !.sp = n]
<1>1. Shaped(t) /\ t.sp = n /\ t.halted = s.halted /\ t.flags = s.flags
  BY DEF Sane, Shaped, Fields
<1> QED
  BY <1>1 DEF Sane, Flagged

LEMMA PushGoes ==
  ASSUME NEW s, Sane(s), s.halted = "Running", NEW ins PROVE Goes(s, Push(s, ins))
<1>1. CASE s.sp < WordCells \/ s.sp > MemoryCells
  <2>1. Push(s, ins) = Fault(s)
    BY <1>1 DEF Push
  <2> QED
    BY <2>1, FaultFacts DEF Goes
<1>2. CASE ~(s.sp < WordCells \/ s.sp > MemoryCells)
  <2> DEFINE w == IF ins.op = "push" THEN s.regs[ins.a] ELSE (s.pc + 1) % IndexSize
             mem == StoreWord(s.mem, s.sp - WordCells, w)
             stored == [s EXCEPT !.mem = mem]
             t == [stored EXCEPT !.sp = s.sp - WordCells]
  <2>1. Push(s, ins) = IF ins.op = "call" THEN Jump(t, ins.imm) ELSE Advance(t)
    BY <1>2 DEF Push
  <2> HIDE DEF mem
  <2>2. Sane(stored) /\ stored.halted = "Running"
    BY MemoryFacts
  <2> HIDE DEF stored
  <2> HIDE DEF w
  <2>3. InStack(s.sp - WordCells)
    <3>1. InStack(s.sp) /\ s.sp \in Nat
      BY DEF Sane, InStack
    <3>2. s.sp >= WordCells
      BY <1>2, <3>1, Widths
    <3> QED
      BY <3>1, <3>2, PushMoves
  <2>4. Sane(t) /\ t.halted = "Running"
    BY <2>2, <2>3, PointerFacts
  <2> HIDE DEF t
  <2>5. /\ Sane(Advance(t)) /\ Advance(t).halted = "Running"
        /\ Sane(Jump(t, ins.imm)) /\ Jump(t, ins.imm).halted = "Running"
    BY <2>4, ControlFacts
  <2> QED
    BY <2>1, <2>5 DEF Goes
<1> QED
  BY <1>1, <1>2

LEMMA PopGoes ==
  ASSUME NEW s, Sane(s), s.halted = "Running", NEW ins PROVE Goes(s, Pop(s, ins))
<1>1. CASE s.sp > MemoryCells - WordCells
  <2>1. Pop(s, ins) = Fault(s)
    BY <1>1 DEF Pop
  <2> QED
    BY <2>1, FaultFacts DEF Goes
<1>2. CASE ~(s.sp > MemoryCells - WordCells)
  <2> DEFINE w == LoadWord(s.mem, s.sp)
             t == [s EXCEPT !.sp = s.sp + WordCells]
  <2>1. Pop(s, ins) = IF ins.op = "ret" THEN Jump(t, w) ELSE Advance(Write(t, ins.a, w))
    BY <1>2 DEF Pop
  <2> HIDE DEF w
  <2>2. InStack(s.sp + WordCells)
    <3>1. InStack(s.sp) /\ s.sp \in Nat
      BY DEF Sane, InStack
    <3>2. s.sp <= MemoryCells - WordCells
      BY <1>2, <3>1, Widths
    <3> QED
      BY <3>1, <3>2, PopMoves
  <2>3. Sane(t) /\ t.halted = "Running"
    BY <2>2, PointerFacts
  <2> HIDE DEF t
  <2>4. Sane(Write(t, ins.a, w)) /\ Write(t, ins.a, w).halted = "Running"
    BY <2>3, WriteFacts
  <2>5. Sane(Advance(Write(t, ins.a, w))) /\ Advance(Write(t, ins.a, w)).halted = "Running"
    BY <2>4, ControlFacts
  <2>6. Sane(Jump(t, w)) /\ Jump(t, w).halted = "Running"
    BY <2>3, ControlFacts
  <2> QED
    BY <2>1, <2>5, <2>6 DEF Goes
<1> QED
  BY <1>1, <1>2

\* Halting without a fault.
LEMMA HaltFacts ==
  ASSUME NEW s, Sane(s), s.halted = "Running", NEW why \in {"Halt", "EndOfProgram"}
  PROVE  Sane([s EXCEPT !.halted = why]) /\ [s EXCEPT !.halted = why].halted = why
<1> DEFINE t == [s EXCEPT !.halted = why]
<1>1. Shaped(t) /\ t.sp = s.sp /\ t.halted = why /\ t.flags = s.flags
  BY DEF Sane, Shaped, Fields
<1> QED
  BY <1>1 DEF Sane, Flagged

LEMMA ExecuteGoes ==
  ASSUME NEW s, Sane(s), s.halted = "Running", NEW ins
  PROVE  Goes(s, Execute(s, ins)) \/ Execute(s, ins) = [s EXCEPT !.halted = "Halt"]
<1>1. CASE ~WellFormed(ins)
  <2>1. Execute(s, ins) = Fault(s)
    BY <1>1 DEF Execute
  <2> QED
    BY <2>1, FaultFacts DEF Goes
<1>2. CASE WellFormed(ins)
  <2>1. ins.op \in Opcode
    BY <1>2 DEF WellFormed
  <2>2. CASE ins.op = "nop"
    <3>1. Execute(s, ins) = Advance(s)
      BY <1>2, <2>2 DEF Execute
    <3> QED
      BY <3>1, ControlFacts DEF Goes
  <2>3. CASE ins.op = "halt"
    BY <1>2, <2>3 DEF Execute
  <2>4. CASE ins.op \in {"movi", "mov"}
    <3>1. Execute(s, ins) = Move(s, ins)
      BY <1>2, <2>4 DEF Execute
    <3> QED
      BY <3>1, MoveGoes
  <2>5. CASE ins.op \in {"add", "sub", "cmp"}
    <3>1. Execute(s, ins) = AddSub(s, ins)
      BY <1>2, <2>5 DEF Execute
    <3> QED
      BY <3>1, AddSubGoes
  <2>6. CASE ins.op \in {"mul", "div", "mod", "and", "or", "xor", "shl", "shr", "addi", "neg", "not"}
    <3>1. Execute(s, ins) = Compute(s, ins)
      BY <1>2, <2>6 DEF Execute
    <3> QED
      BY <3>1, ComputeGoes
  <2>7. CASE ins.op \in {"jmp", "jz", "jnz", "jn"}
    <3>1. Execute(s, ins) = Branch(s, ins)
      BY <1>2, <2>7 DEF Execute
    <3> QED
      BY <3>1, BranchGoes
  <2>8. CASE ins.op \in {"ld", "st", "ldb", "stb"}
    <3>1. Execute(s, ins) = Transfer(s, ins)
      BY <1>2, <2>8 DEF Execute
    <3> QED
      BY <2>8, <3>1, TransferGoes
  <2>9. CASE ins.op \in {"push", "call"}
    <3>1. Execute(s, ins) = Push(s, ins)
      BY <1>2, <2>9 DEF Execute
    <3> QED
      BY <3>1, PushGoes
  <2>10. CASE ins.op \in {"pop", "ret"}
    <3>1. Execute(s, ins) = Pop(s, ins)
      BY <1>2, <2>10 DEF Execute
    <3> QED
      BY <3>1, PopGoes
  <2> QED
    BY <2>1, <2>2, <2>3, <2>4, <2>5, <2>6, <2>7, <2>8, <2>9, <2>10
       DEF Opcode, Plain, Jumps, OneReg, TwoRegs, ThreeRegs
<1> QED
  BY <1>1, <1>2

\* Halting, for whatever cause, changes nothing but halted and F.
HaltsOnly(s, t) == t = [s EXCEPT !.halted = t.halted, !.flags = @ \cup If("F", t.halted = "Fault")]

LEMMA HaltsOnlyFacts ==
  ASSUME NEW s, Sane(s), s.halted = "Running"
  PROVE  /\ HaltsOnly(s, Fault(s))
         /\ \A why \in {"Halt", "EndOfProgram"} : HaltsOnly(s, [s EXCEPT !.halted = why])
<1>1. HaltsOnly(s, Fault(s))
  <2>1. Fault(s) = [s EXCEPT !.flags = @ \cup {"F"}, !.halted = "Fault"] /\ Fault(s).halted = "Fault"
    BY FaultFacts
  <2>2. [s EXCEPT !.halted = "Fault", !.flags = @ \cup {"F"}] = [s EXCEPT !.flags = @ \cup {"F"}, !.halted = "Fault"]
    BY DEF Sane, Shaped, Fields
  <2>3. If("F", Fault(s).halted = "Fault") = {"F"}
    BY <2>1 DEF If
  <2> QED
    BY <2>1, <2>2, <2>3 DEF HaltsOnly
<1>2. ASSUME NEW why \in {"Halt", "EndOfProgram"} PROVE HaltsOnly(s, [s EXCEPT !.halted = why])
  <2> DEFINE t == [s EXCEPT !.halted = why]
  <2>1. t.halted = why
    BY HaltFacts
  <2>2. s.flags \cup If("F", t.halted = "Fault") = s.flags
    BY <2>1 DEF If
  <2>3. [s EXCEPT !.halted = why, !.flags = s.flags] = t
    BY DEF Sane, Shaped, Fields
  <2> QED
    BY <2>1, <2>2, <2>3 DEF HaltsOnly
<1> QED
  BY <1>1, <1>2

\* One step, of a machine that runs and of one that has halted.
LEMMA StepFacts ==
  ASSUME NEW s, Sane(s), NEW p
  PROVE  /\ Sane(StepOf(s, p))
         /\ s.halted # "Running" => StepOf(s, p) = s
         /\ s.halted = "Running" /\ StepOf(s, p).halted # "Running" =>
              /\ HaltsOnly(s, StepOf(s, p))
              /\ StepOf(s, p).halted = "EndOfProgram" <=> Ended(s, p)
<1>1. CASE s.halted # "Running"
  BY <1>1 DEF StepOf
<1>2. CASE s.halted = "Running" /\ Ended(s, p)
  <2> DEFINE t == [s EXCEPT !.halted = "EndOfProgram"]
  <2>1. StepOf(s, p) = t
    BY <1>2 DEF StepOf
  <2>2. Sane(t) /\ t.halted = "EndOfProgram" /\ HaltsOnly(s, t)
    BY <1>2, HaltFacts, HaltsOnlyFacts
  <2> HIDE DEF t
  <2> QED
    BY <1>2, <2>1, <2>2
<1>3. CASE s.halted = "Running" /\ ~Ended(s, p)
  <2> DEFINE ins == p[s.pc + 1]
  <2>1. StepOf(s, p) = Execute(s, ins)
    BY <1>3 DEF StepOf
  <2> HIDE DEF ins
  <2>2. CASE Goes(s, Execute(s, ins))
    <3>1. Sane(Execute(s, ins))
      BY <2>2 DEF Goes
    <3>2. Execute(s, ins).halted = "Running" \/ Execute(s, ins) = Fault(s)
      BY <2>2 DEF Goes
    <3>3. Fault(s).halted = "Fault" /\ HaltsOnly(s, Fault(s))
      BY <1>3, FaultFacts, HaltsOnlyFacts
    <3> QED
      BY <1>3, <2>1, <3>1, <3>2, <3>3
  <2>3. CASE Execute(s, ins) = [s EXCEPT !.halted = "Halt"]
    <3> DEFINE t == [s EXCEPT !.halted = "Halt"]
    <3>1. Sane(t) /\ t.halted = "Halt" /\ HaltsOnly(s, t)
      BY <1>3, HaltFacts, HaltsOnlyFacts
    <3>2. StepOf(s, p) = t
      BY <2>1, <2>3
    <3> HIDE DEF t
    <3> QED
      BY <1>3, <3>1, <3>2
  <2> QED
    BY <1>3, <2>2, <2>3, ExecuteGoes
<1> QED
  BY <1>1, <1>2, <1>3
-----------------------------------------------------------------------------
\* The counters of a run; its reason is not known before it returns.
Counted ==
  /\ mode \in {"idle", "running"} /\ budget \in Nat /\ steps \in Nat
  /\ mode = "running" => reason = "none"
  /\ RunStopsForCause

IInv == Sane(state) /\ Counted

LEMMA InitIInv == Init => IInv
<1> SUFFICES ASSUME Init PROVE IInv
  OBVIOUS
<1>1. state = [InitialState EXCEPT !.regs = state.regs, !.mem = state.mem]
  BY ClientAssumption DEF Init
<1>2. Shaped(state) /\ state.sp = MemoryCells /\ state.halted = "Running" /\ state.flags = {}
  BY <1>1 DEF InitialState, Shaped, Fields
<1>3. MemoryCells + 0 * WordCells = MemoryCells /\ 0 \in 0 .. MemoryCells
  BY Widths
<1>4. InStack(MemoryCells)
  BY <1>3, Widths DEF InStack
<1>5. Sane(state)
  BY <1>2, <1>4 DEF Sane, Flagged
<1> QED
  BY <1>5 DEF Init, IInv, Counted, RunStopsForCause

\* Every change a client can make keeps the state sane.
LEMMA ChangeKeeps ==
  ASSUME IInv, NEW STATE s, Sane(s), Change(s)
  PROVE  IInv'
BY DEF IInv, Counted, RunStopsForCause, Change, Call

LEMMA DirectSane == ASSUME NEW s, Sane(s), NEW ins PROVE Sane(Execute(s, ins))
<1>1. CASE s.halted # "Running"
  BY <1>1 DEF Execute
<1>2. CASE s.halted = "Running"
  <2>1. Sane([s EXCEPT !.halted = "Halt"])
    BY <1>2, HaltFacts
  <2> QED
    BY <1>2, <2>1, ExecuteGoes DEF Goes
<1> QED
  BY <1>1, <1>2

LEMMA SettersSane ==
  ASSUME NEW s, Sane(s), NEW i, NEW w
  PROVE  /\ Sane([s EXCEPT !.regs[i] = w])
         /\ Sane([s EXCEPT !.mem[i] = w])
         /\ Sane([s EXCEPT !.pc = i])
<1>1. Sane([s EXCEPT !.regs[i] = w])
  BY WriteFacts DEF Write
<1>2. [s EXCEPT !.mem[i] = w] = [s EXCEPT !.mem = [s.mem EXCEPT ![i] = w]]
  OBVIOUS
<1>3. Sane([s EXCEPT !.mem[i] = w])
  BY <1>2, MemoryFacts
<1> DEFINE t == [s EXCEPT !.pc = i]
<1>4. Shaped(t) /\ t.sp = s.sp /\ t.halted = s.halted /\ t.flags = s.flags
  BY DEF Sane, Shaped, Fields
<1>5. Sane(t)
  BY <1>4 DEF Sane, Flagged
<1> QED
  BY <1>1, <1>3, <1>5

LEMMA StepIInv == IInv /\ [Next]_vars => IInv'
<1> SUFFICES ASSUME IInv, [Next]_vars PROVE IInv'
  OBVIOUS
<1>s. Sane(state)
  BY DEF IInv
<1>1. ASSUME NEW max \in Budgets, Run(max) PROVE IInv'
  <2>1. max \in Nat
    BY ClientAssumption
  <2>2. Sane(state')
    BY <1>1, <1>s DEF Run
  <2>3. mode' = "running" /\ budget' = max /\ steps' = 0 /\ reason' = "none"
    BY <1>1 DEF Run
  <2> QED
    BY <2>1, <2>2, <2>3 DEF IInv, Counted, RunStopsForCause
<1>2. CASE Iterate
  <2>1. Sane(state')
    BY <1>2, <1>s, StepFacts DEF Iterate
  <2>2. steps' \in Nat /\ steps' <= budget
    BY <1>2 DEF IInv, Counted, RunStopsForCause, Iterate, Continues
  <2> QED
    BY <1>2, <2>1, <2>2 DEF IInv, Counted, RunStopsForCause, Iterate
<1>3. CASE Return
  BY <1>3 DEF IInv, Counted, RunStopsForCause, Return, Continues
<1>4. CASE StepOnce
  <2>1. Sane(StepOf(state, program))
    BY <1>s, StepFacts
  <2> QED
    BY <1>4, <2>1, ChangeKeeps DEF StepOnce
<1>5. ASSUME NEW ins \in Directs, Direct(ins) PROVE IInv'
  <2>1. Sane(Execute(state, ins))
    BY <1>s, DirectSane
  <2> QED
    BY <1>5, <2>1, ChangeKeeps DEF Direct
<1>6. ASSUME NEW w, NEW r, SetReg(r, w) PROVE IInv'
  <2>1. Sane([state EXCEPT !.regs[r] = w])
    BY <1>s, SettersSane
  <2> QED
    BY <1>6, <2>1, ChangeKeeps DEF SetReg
<1>7. ASSUME NEW w, NEW i, SetMem(i, w) PROVE IInv'
  <2>1. Sane([state EXCEPT !.mem[i] = w % CellSize])
    BY <1>s, SettersSane
  <2> QED
    BY <1>7, <2>1, ChangeKeeps DEF SetMem
<1>8. ASSUME NEW i, SetPc(i) PROVE IInv'
  <2>1. Sane([state EXCEPT !.pc = i])
    BY <1>s, SettersSane
  <2> QED
    BY <1>8, <2>1, ChangeKeeps DEF SetPc
<1>9. CASE UNCHANGED vars
  BY <1>9 DEF IInv, Counted, RunStopsForCause, vars
<1> QED
  BY <1>1, <1>2, <1>3, <1>4, <1>5, <1>6, <1>7, <1>8, <1>9 DEF Next

\* Whatever a client calls, the pointer, the flag F and the counters of run stay as IInv says.
THEOREM Invariance == Spec => []IInv
<1> QED
  BY InitIInv, StepIInv, PTL DEF Spec

(* Whatever a program pushes and pops, whatever its client executes or     *)
(* sets, the stack pointer stays a whole number of words below the end of  *)
(* the memory and F marks a faulted machine: for every memory size and     *)
(* word width, also when the one is not a multiple of the other.           *)
THEOREM StackStaysInBounds == Spec => []StackInBounds
<1>1. IInv => StackInBounds
  BY DEF IInv, Sane, InStack, Flagged, StackInBounds
<1> QED
  BY <1>1, Invariance, PTL

(* A run keeps to its budget and stops before it only on a halted machine. *)
THEOREM RunsStopForCause == Spec => []RunStopsForCause
<1>1. IInv => RunStopsForCause
  BY DEF IInv, Counted
<1> QED
  BY <1>1, Invariance, PTL

(* The step of a run that halts the machine changes nothing else: the      *)
(* faulting instruction leaves no partial effect.                          *)
THEOREM HaltingStaysAtomic == Spec => HaltingIsAtomic
<1> DEFINE A == mode = "running" /\ state.halted = "Running" /\ state'.halted # "Running" =>
                  /\ state' = [state EXCEPT !.halted = state'.halted,
                                            !.flags = @ \cup If("F", state'.halted = "Fault")]
                  /\ state'.halted = "EndOfProgram" <=> state.pc >= Len(program)
<1>1. IInv /\ [Next]_vars => [A]_vars
  <2> SUFFICES ASSUME IInv, Next, mode = "running", state.halted = "Running", state'.halted # "Running"
               PROVE  A
    OBVIOUS
  <2>1. Iterate
    BY DEF Next, Run, Return, StepOnce, Direct, SetReg, SetMem, SetPc, Change, Call
  <2>2. state' = StepOf(state, program)
    BY <2>1 DEF Iterate
  <2>3. HaltsOnly(state, state') /\ (state'.halted = "EndOfProgram" <=> Ended(state, program))
    BY <2>2, StepFacts DEF IInv
  <2> QED
    BY <2>3 DEF HaltsOnly, Ended
<1> QED
  BY <1>1, Invariance, PTL DEF Spec, HaltingIsAtomic
-----------------------------------------------------------------------------
(* Types.                                                                  *)

LEMMA ClientFacts ==
  /\ Starts \subseteq State /\ MaxCalls \in Nat /\ Budgets \subseteq Nat /\ Pokes \subseteq Word
  /\ Directs \subseteq Instruction /\ Programs \subseteq Seq(Instruction)
BY ClientAssumption

LEMMA InitTypes == Init => TypeOK
<1> SUFFICES ASSUME Init PROVE TypeOK
  OBVIOUS
<1>1. state \in State
  BY ClientFacts DEF Init
<1>2. 0 \in 0 .. MaxCalls
  BY ClientFacts
<1> QED
  BY <1>1, <1>2 DEF Init, TypeOK

LEMMA ChangeTypes ==
  ASSUME TypeOK, NEW STATE s, s \in State, Change(s)
  PROVE  TypeOK'
<1>1. calls' \in 0 .. MaxCalls
  BY ClientFacts DEF TypeOK, Change, Call
<1> QED
  BY <1>1 DEF TypeOK, Change

LEMMA StepTypes == TypeOK /\ [Next]_vars => TypeOK'
<1> SUFFICES ASSUME TypeOK, [Next]_vars PROVE TypeOK'
  OBVIOUS
<1>0. state \in State /\ program \in Seq(Instruction)
  BY ClientFacts DEF TypeOK
<1>1. ASSUME NEW max \in Budgets, Run(max) PROVE TypeOK'
  <2>1. calls' \in 0 .. MaxCalls /\ max \in Nat
    BY <1>1, ClientFacts DEF TypeOK, Run, Call
  <2> QED
    BY <1>1, <2>1 DEF TypeOK, Run
<1>2. CASE Iterate
  <2>1. StepOf(state, program) \in State
    BY <1>0, StepIsState
  <2> QED
    BY <1>2, <2>1 DEF TypeOK, Iterate
<1>3. CASE Return
  <2>1. state.halted \in Reason
    BY <1>0 DEF State
  <2> QED
    BY <1>3, <2>1 DEF TypeOK, Return
<1>4. CASE StepOnce
  <2>1. StepOf(state, program) \in State
    BY <1>0, StepIsState
  <2> QED
    BY <1>4, <2>1, ChangeTypes DEF StepOnce
<1>5. ASSUME NEW ins \in Directs, Direct(ins) PROVE TypeOK'
  <2>1. ins \in Instruction
    BY ClientFacts
  <2>2. Execute(state, ins) \in State
    BY <1>0, <2>1, InstructionsKeepStates
  <2> QED
    BY <1>5, <2>2, ChangeTypes DEF Direct
<1>6. ASSUME NEW w \in Pokes, NEW r \in 0 .. Registers - 1, SetReg(r, w) PROVE TypeOK'
  <2>1. [state EXCEPT !.regs[r] = w] \in State
    BY <1>0, Changed, ClientFacts
  <2> QED
    BY <1>6, <2>1, ChangeTypes DEF SetReg
<1>7. ASSUME NEW w \in Pokes, NEW i \in Address, SetMem(i, w) PROVE TypeOK'
  <2>1. w \in Int
    BY ClientFacts, SignedFacts
  <2>2. w % CellSize \in Cell
    BY <2>1, SizesArePositive DEF Cell
  <2>3. PICK mem \in Memory : mem = [state.mem EXCEPT ![i] = w % CellSize]
    BY <1>0, <2>2, Contents DEF Memory
  <2>4. [state EXCEPT !.mem = mem] \in State
    BY <1>0, Changed
  <2>5. [state EXCEPT !.mem[i] = w % CellSize] = [state EXCEPT !.mem = mem]
    BY <2>3
  <2>6. [state EXCEPT !.mem[i] = w % CellSize] \in State
    BY <2>4, <2>5
  <2> QED
    BY <1>7, <2>6, ChangeTypes DEF SetMem
<1>8. ASSUME NEW i \in Index, SetPc(i) PROVE TypeOK'
  <2>1. [state EXCEPT !.pc = i] \in State
    BY <1>0, Changed
  <2> QED
    BY <1>8, <2>1, ChangeTypes DEF SetPc
<1>9. CASE UNCHANGED vars
  BY <1>9 DEF TypeOK, vars
<1> QED
  BY <1>1, <1>2, <1>3, <1>4, <1>5, <1>6, <1>7, <1>8, <1>9 DEF Next

(* Registers hold words and memory holds cells, pc and sp keep to their    *)
(* width, whatever a program computes, jumps to or loads, and whatever its *)
(* client sets.                                                            *)
THEOREM TypeCorrect == Spec => []TypeOK
<1> QED
  BY InitTypes, StepTypes, PTL DEF Spec
-----------------------------------------------------------------------------
(* The words on the stack.                                                 *)

Depth(n) == (MemoryCells - n) \div WordCells

\* A pointer that is whole words below the end of the memory counts them.
LEMMA DepthFacts ==
  ASSUME NEW n, InStack(n)
  PROVE  /\ Depth(n) \in Nat /\ n + Depth(n) * WordCells = MemoryCells
         /\ \A k \in 1 .. Depth(n) : n + (k - 1) * WordCells \in WordAddress /\ n + (k - 1) * WordCells >= n
<1>1. PICK d \in 0 .. MemoryCells : n + d * WordCells = MemoryCells
  BY DEF InStack
<1>2. n \in Nat /\ MemoryCells \in Nat /\ WordCells \in Nat \ {0} /\ d \in Nat
  BY Widths DEF InStack
<1>3. Depth(n) = d
  <2>1. MemoryCells - n = WordCells * d + 0 /\ MemoryCells - n \in Int /\ 0 \in 0 .. WordCells - 1
    <3>1. d * WordCells = WordCells * d /\ WordCells * d \in Int
      BY <1>2
    <3> QED
      BY <1>1, <1>2, <3>1
  <2>2. (MemoryCells - n) \div WordCells = d
    BY <1>2, <2>1, QuotientIs
  <2> QED
    BY <2>2 DEF Depth
<1>4. ASSUME NEW k \in 1 .. d
      PROVE  n + (k - 1) * WordCells \in WordAddress /\ n + (k - 1) * WordCells >= n
  <2>1. (k - 1) * WordCells \in Nat /\ (k - 1) * WordCells + WordCells = k * WordCells /\ k * WordCells \in Int
    BY <1>2
  <2>2. k * WordCells <= d * WordCells /\ d * WordCells \in Int
    BY <1>2
  <2> QED
    BY <1>1, <1>2, <2>1, <2>2 DEF WordAddress
<1> QED
  BY <1>1, <1>2, <1>3, <1>4

LEMMA StackFacts ==
  ASSUME NEW s \in State, InStack(s.sp)
  PROVE  /\ Stack(s) \in Seq(Word) /\ Len(Stack(s)) = Depth(s.sp)
         /\ \A k \in 1 .. Depth(s.sp) : Stack(s)[k] = LoadWord(s.mem, s.sp + (k - 1) * WordCells)
<1>1. PICK d : d = Depth(s.sp)
  OBVIOUS
<1>2. Stack(s) = [k \in 1 .. d |-> LoadWord(s.mem, s.sp + (k - 1) * WordCells)]
  BY <1>1 DEF Stack, Depth
<1>3. d \in Nat
  BY <1>1, DepthFacts
<1>4. \A k \in 1 .. d : LoadWord(s.mem, s.sp + (k - 1) * WordCells) \in Word
  BY <1>1, DepthFacts, LoadIsWord, Contents
<1>5. Stack(s) \in [1 .. d -> Word]
  BY <1>2, <1>4
<1>6. Stack(s) \in Seq(Word) /\ Len(Stack(s)) = d
  BY <1>3, <1>5
<1> QED
  BY <1>1, <1>2, <1>6

\* A stack is the word at its pointer on top of the stack one word further, when the words
\* further on are the same.
LEMMA StackGrows ==
  ASSUME NEW s \in State, NEW u \in State, InStack(s.sp), InStack(u.sp), s.sp = u.sp + WordCells,
         \A place \in WordAddress : place >= s.sp => LoadWord(u.mem, place) = LoadWord(s.mem, place)
  PROVE  Stack(u) = <<LoadWord(u.mem, u.sp)>> \o Stack(s)
<1>1. PICK d, w : d = Depth(s.sp) /\ w = LoadWord(u.mem, u.sp)
  OBVIOUS
<1>2. d \in Nat /\ s.sp + d * WordCells = MemoryCells /\ s.sp \in Nat /\ u.sp \in Nat /\ WordCells \in Nat \ {0}
  BY <1>1, DepthFacts, Widths DEF InStack
<1>3. Depth(u.sp) = d + 1
  <2>1. PICK e : e = Depth(u.sp)
    OBVIOUS
  <2>2. e \in Nat /\ u.sp + e * WordCells = MemoryCells
    BY <2>1, DepthFacts
  <2>3. (e - d) * WordCells = e * WordCells - d * WordCells /\ e * WordCells \in Int /\ d * WordCells \in Int
    BY <1>2, <2>2
  <2>4. (e - d) * WordCells = WordCells
    BY <1>2, <2>2, <2>3
  <2>5. ~(e - d >= 2)
    <3>1. SUFFICES ASSUME e - d >= 2 PROVE FALSE
      OBVIOUS
    <3>2. (e - d) * WordCells >= 2 * WordCells
      BY <1>2, <2>2, <3>1
    <3> QED
      BY <1>2, <2>4, <3>2
  <2>6. ~(e - d <= 0)
    <3>1. SUFFICES ASSUME e - d <= 0 PROVE FALSE
      OBVIOUS
    <3>2. (e - d) * WordCells <= 0
      BY <1>2, <2>2, <3>1
    <3> QED
      BY <1>2, <2>4, <3>2
  <2> QED
    BY <1>2, <2>1, <2>2, <2>5, <2>6
<1>4. /\ Stack(u) \in Seq(Word) /\ Len(Stack(u)) = d + 1
      /\ \A k \in 1 .. d + 1 : Stack(u)[k] = LoadWord(u.mem, u.sp + (k - 1) * WordCells)
  BY <1>3, StackFacts
<1>5. /\ Stack(s) \in Seq(Word) /\ Len(Stack(s)) = d
      /\ \A k \in 1 .. d : Stack(s)[k] = LoadWord(s.mem, s.sp + (k - 1) * WordCells)
  BY <1>1, StackFacts
<1>6. w \in Word
  <2>1. Stack(u)[1] \in Word
    BY <1>2, <1>4
  <2>2. u.sp + (1 - 1) * WordCells = u.sp
    BY <1>2
  <2>3. Stack(u)[1] = LoadWord(u.mem, u.sp + (1 - 1) * WordCells)
    BY <1>2, <1>4
  <2> QED
    BY <1>1, <2>1, <2>2, <2>3
<1> DEFINE joined == <<w>> \o Stack(s)
<1>7. joined \in Seq(Word) /\ Len(joined) = d + 1 /\ joined[1] = w
      /\ \A k \in 2 .. d + 1 : joined[k] = Stack(s)[k - 1]
  BY <1>2, <1>5, <1>6
<1>8. ASSUME NEW k \in 1 .. d + 1 PROVE Stack(u)[k] = joined[k]
  <2>1. CASE k = 1
    <3>1. u.sp + (k - 1) * WordCells = u.sp
      BY <1>2, <2>1
    <3> QED
      BY <1>1, <1>4, <1>7, <2>1, <3>1
  <2>2. CASE k # 1
    <3>1. k \in 2 .. d + 1 /\ k - 1 \in 1 .. d
      BY <1>2, <2>2
    <3>2. (k - 1) * WordCells = ((k - 1) - 1) * WordCells + WordCells /\ (k - 1) * WordCells \in Int
          /\ ((k - 1) - 1) * WordCells \in Int
      BY <1>2
    <3>3. u.sp + (k - 1) * WordCells = s.sp + ((k - 1) - 1) * WordCells
      BY <1>2, <3>2
    <3>4. /\ s.sp + ((k - 1) - 1) * WordCells \in WordAddress
          /\ s.sp + ((k - 1) - 1) * WordCells >= s.sp
      BY <1>1, <3>1, DepthFacts
    <3>5. PICK place : place = s.sp + ((k - 1) - 1) * WordCells
      OBVIOUS
    <3>6. LoadWord(u.mem, place) = LoadWord(s.mem, place)
      BY <3>4, <3>5
    <3>7. Stack(s)[k - 1] = LoadWord(s.mem, place)
      BY <1>5, <3>1, <3>5
    <3>8. Stack(u)[k] = LoadWord(u.mem, place)
      BY <1>4, <3>3, <3>5
    <3> QED
      BY <1>7, <3>1, <3>6, <3>7, <3>8
  <2> QED
    BY <2>1, <2>2
<1> HIDE DEF joined
<1>9. Stack(u) = joined
  BY <1>4, <1>7, <1>8, SeqEqual
<1> QED
  BY <1>1, <1>9 DEF joined

\* pc and registers are not on the stack.
LEMMA SameStack ==
  ASSUME NEW s, NEW u, u.sp = s.sp, u.mem = s.mem
  PROVE  Stack(u) = Stack(s)
BY DEF Stack

LEMMA StackIsLeft ==
  ASSUME NEW s \in State
  PROVE  /\ Stack(Advance(s)) = Stack(s)
         /\ \A target : Stack(Jump(s, target)) = Stack(s)
         /\ \A r, w : Stack(Advance(Write(s, r, w))) = Stack(s)
<1>1. Advance(s).sp = s.sp /\ Advance(s).mem = s.mem
  BY DEF Advance, State
<1>2. \A target : Jump(s, target).sp = s.sp /\ Jump(s, target).mem = s.mem
  BY DEF Jump, State
<1>3. \A r, w : Advance(Write(s, r, w)).sp = s.sp /\ Advance(Write(s, r, w)).mem = s.mem
  BY DEF Advance, Write, State
<1> QED
  BY <1>1, <1>2, <1>3, SameStack

LEMMA PushStacks ==
  ASSUME NEW s \in State, InStack(s.sp), NEW ins \in Instruction, WellFormed(ins), ins.op \in {"push", "call"},
         Push(s, ins) # Fault(s)
  PROVE  Stack(Push(s, ins)) = <<IF ins.op = "push" THEN s.regs[ins.a] ELSE (s.pc + 1) % IndexSize>> \o Stack(s)
<1>1. PICK w \in Word, u \in State :
         /\ s.sp - WordCells \in WordAddress
         /\ u = [s EXCEPT !.mem = StoreWord(s.mem, s.sp - WordCells, w), !.sp = s.sp - WordCells]
         /\ IF ins.op = "push" THEN w = s.regs[ins.a] /\ Push(s, ins) = Advance(u)
            ELSE w = (s.pc + 1) % IndexSize /\ Push(s, ins) = Jump(u, ins.imm)
  BY PushDoes
<1>2. PICK addr \in WordAddress : addr = s.sp - WordCells
  BY <1>1
<1>3. u.sp = addr /\ u.mem = StoreWord(s.mem, addr, w) /\ s.mem \in Memory
  BY <1>1, <1>2, Contents DEF State
<1>4. s.sp \in Nat /\ addr \in Nat /\ s.sp = addr + WordCells /\ InStack(addr)
  <2>1. s.sp \in Nat /\ addr \in Nat /\ WordCells \in Nat
    BY Widths DEF InStack, WordAddress
  <2>2. s.sp = addr + WordCells /\ s.sp >= WordCells
    BY <1>2, <2>1
  <2> QED
    BY <1>2, <2>1, <2>2, PushMoves
<1>5. \A place \in WordAddress : place >= s.sp => LoadWord(u.mem, place) = LoadWord(s.mem, place)
  BY <1>3, <1>4, LoadElsewhere
<1>6. LoadWord(u.mem, u.sp) = w
  BY <1>3, LoadOfStored
<1>7. Stack(u) = <<w>> \o Stack(s)
  BY <1>3, <1>4, <1>5, <1>6, StackGrows
<1> QED
  BY <1>1, <1>7, StackIsLeft

LEMMA PopStacks ==
  ASSUME NEW s \in State, InStack(s.sp), NEW ins \in Instruction, WellFormed(ins), ins.op \in {"pop", "ret"},
         Pop(s, ins) # Fault(s)
  PROVE  \E w \in Word :
           /\ Stack(s) = <<w>> \o Stack(Pop(s, ins))
           /\ ins.op = "pop" => Pop(s, ins).regs[ins.a] = w
           /\ ins.op = "ret" => Pop(s, ins).pc = w % IndexSize
<1>1. PICK w \in Word, u \in State :
         /\ s.sp \in WordAddress /\ w = LoadWord(s.mem, s.sp)
         /\ u = [s EXCEPT !.sp = s.sp + WordCells]
         /\ IF ins.op = "pop" THEN Pop(s, ins) = Advance(Write(u, ins.a, w))
            ELSE Pop(s, ins) = Jump(u, w)
  BY PopDoes
<1>2. u.sp = s.sp + WordCells /\ u.mem = s.mem
  BY <1>1 DEF State
<1>3. InStack(u.sp)
  <2>1. s.sp \in Nat /\ s.sp <= MemoryCells - WordCells
    BY <1>1, Widths DEF WordAddress
  <2> QED
    BY <1>2, <2>1, PopMoves
<1>4. Stack(s) = <<w>> \o Stack(u)
  BY <1>1, <1>2, <1>3, StackGrows
<1>5. Stack(Pop(s, ins)) = Stack(u)
  BY <1>1, StackIsLeft
<1>6. ins.op = "pop" => Pop(s, ins).regs[ins.a] = w
  <2>1. SUFFICES ASSUME ins.op = "pop" PROVE Pop(s, ins).regs[ins.a] = w
    OBVIOUS
  <2>2. ins.a \in 0 .. Registers - 1
    BY <2>1, OperandsAreRegisters DEF OneReg
  <2>3. Advance(Write(u, ins.a, w)).regs[ins.a] = w
    BY <2>2 DEF Advance, Write, State
  <2> QED
    BY <1>1, <2>1, <2>3
<1>7. ins.op = "ret" => Pop(s, ins).pc = w % IndexSize
  <2>1. Jump(u, w).pc = w % IndexSize
    BY DEF Jump, State
  <2> QED
    BY <1>1, <2>1
<1> QED
  BY <1>4, <1>5, <1>6, <1>7

(* What push and call put on the stack is what pop and ret take off, word  *)
(* by word and cell by cell, and the words below are never disturbed: for  *)
(* every word, cell and memory size.                                       *)
THEOREM StackStaysAStack == Spec => StackIsAStack
<1> DEFINE A == state'.halted = "Running" =>
                  /\ Executes({"push"}) => Stack(state') = <<state.regs[Instr.a]>> \o Stack(state)
                  /\ Executes({"call"}) => Stack(state') = <<(state.pc + 1) % IndexSize>> \o Stack(state)
                  /\ Executes({"pop"})  => Stack(state)  = <<state'.regs[Instr.a]>> \o Stack(state')
                  /\ Executes({"ret"})  => Len(Stack(state)) > 0 /\ Tail(Stack(state)) = Stack(state')
                                             /\ state'.pc = Head(Stack(state)) % IndexSize
<1>1. IInv /\ TypeOK /\ [Next]_vars => [A]_vars
  <2> SUFFICES ASSUME IInv, TypeOK, Next, state'.halted = "Running",
                      NEW ops, Executes(ops)
               PROVE  /\ Instr.op = "push" => Stack(state') = <<state.regs[Instr.a]>> \o Stack(state)
                      /\ Instr.op = "call" => Stack(state') = <<(state.pc + 1) % IndexSize>> \o Stack(state)
                      /\ Instr.op = "pop"  => Stack(state)  = <<state'.regs[Instr.a]>> \o Stack(state')
                      /\ Instr.op = "ret"  => Len(Stack(state)) > 0 /\ Tail(Stack(state)) = Stack(state')
                                                /\ state'.pc = Head(Stack(state)) % IndexSize
    BY DEF Executes
  <2>1. mode = "running" /\ state.halted = "Running" /\ ~Ended(state, program) /\ state' # state
    BY DEF Executes
  <2>2. state \in State /\ program \in Seq(Instruction) /\ InStack(state.sp)
    BY ClientFacts DEF TypeOK, IInv, Sane
  <2>3. state' = StepOf(state, program)
    BY <2>1 DEF Next, Run, Iterate, Return, StepOnce, Direct, SetReg, SetMem, SetPc, Change, Call
  <2>4. PICK ins : ins = Instr
    OBVIOUS
  <2>5. ins \in Instruction
    <3>1. state.pc \in Nat
      BY <2>2, Contents, SizesArePositive DEF Index
    <3>2. state.pc + 1 \in 1 .. Len(program)
      BY <2>1, <2>2, <3>1 DEF Ended
    <3> QED
      BY <2>2, <2>4, <3>2 DEF Instr
  <2>6. state' = Execute(state, ins)
    BY <2>1, <2>3, <2>4 DEF StepOf, Instr
  <2>7. Fault(state).halted = "Fault"
    BY <2>2 DEF Fault, State
  <2>8. WellFormed(ins)
    BY <2>1, <2>6, <2>7 DEF Execute
  <2>9. ASSUME ins.op \in {"push", "call"}
        PROVE  Stack(state') = <<IF ins.op = "push" THEN state.regs[ins.a] ELSE (state.pc + 1) % IndexSize>> \o Stack(state)
    <3>1. state' = Push(state, ins)
      BY <2>1, <2>6, <2>8, <2>9, ExecuteIs
    <3>2. Push(state, ins) # Fault(state)
      BY <2>7, <3>1
    <3> QED
      BY <2>2, <2>5, <2>8, <2>9, <3>1, <3>2, PushStacks
  <2>10. ASSUME ins.op \in {"pop", "ret"}
         PROVE  \E w \in Word :
                  /\ Stack(state) = <<w>> \o Stack(state')
                  /\ ins.op = "pop" => state'.regs[ins.a] = w
                  /\ ins.op = "ret" => state'.pc = w % IndexSize
    <3>1. state' = Pop(state, ins)
      BY <2>1, <2>6, <2>8, <2>10, ExecuteIs
    <3>2. Pop(state, ins) # Fault(state)
      BY <2>7, <3>1
    <3> QED
      BY <2>2, <2>5, <2>8, <2>10, <3>1, <3>2, PopStacks
  <2>11. ASSUME ins.op = "ret"
         PROVE  /\ Len(Stack(state)) > 0 /\ Tail(Stack(state)) = Stack(state')
                /\ state'.pc = Head(Stack(state)) % IndexSize
    <3>1. PICK w \in Word : Stack(state) = <<w>> \o Stack(state') /\ state'.pc = w % IndexSize
      BY <2>10, <2>11
    <3>2. Stack(state') \in Seq(Word)
      <4>1. PICK u \in State : u = state'
        BY <2>2, <2>3, StepIsState
      <4>2. InStack(u.sp)
        BY <2>2, <2>3, <4>1, StepFacts DEF IInv, Sane
      <4> QED
        BY <4>1, <4>2, StackFacts
    <3>3. PICK q : q = Stack(state')
      OBVIOUS
    <3>4. Len(<<w>> \o q) > 0 /\ Head(<<w>> \o q) = w /\ Tail(<<w>> \o q) = q
      <4>1. q \in Seq(Word)
        BY <3>2, <3>3
      <4> QED
        BY <4>1
    <3> QED
      BY <3>1, <3>3, <3>4
  <2> QED
    BY <2>4, <2>9, <2>10, <2>11
<1> QED
  BY <1>1, Invariance, TypeCorrect, PTL DEF Spec, StackIsAStack
=============================================================================
