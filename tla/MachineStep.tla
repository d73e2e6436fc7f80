---------------------------- MODULE MachineStep -----------------------------
(***************************************************************************)
(* One instruction of the register machine (Machine.cpp: execute_raw and   *)
(* step).  The widths are parameters: in the code a word has 8 cells of 8  *)
(* bits, the program counter and the stack pointer have 32 bits, there are *)
(* 8 registers.  A register or a popped word is an unsigned number; flags  *)
(* are a set of names.  An instruction keeps its fields a, b, c, imm also  *)
(* where its opcode does not use them.                                     *)
(***************************************************************************)
EXTENDS Integers, Sequences

CONSTANTS
  WordBits,        \* bits of a word
  WordSize,        \* 2^WordBits
  CellSize,        \* numbers a memory cell can hold: 2^8
  WordCells,       \* cells of a word: 8
  IndexSize,       \* numbers pc and sp can hold: 2^32
  MemoryCells,     \* size of the memory
  Registers,       \* number of registers
  BitAnd(_, _), BitOr(_, _), BitXor(_, _)   \* bitwise operators on words

ASSUME WidthsAssumption ==
  /\ {WordBits, WordSize, CellSize, WordCells, IndexSize, MemoryCells, Registers} \subseteq Nat \ {0}
  /\ WordSize = 2 ^ WordBits /\ WordSize = CellSize ^ WordCells
  /\ WordCells <= MemoryCells /\ MemoryCells < IndexSize /\ IndexSize <= WordSize

\* How a power grows with its exponent.
ASSUME PowersAssumption ==
  /\ CellSize ^ 0 = 1 /\ 2 ^ 0 = 1
  /\ \A k \in 0 .. WordCells - 1 : CellSize ^ (k + 1) = CellSize ^ k * CellSize
  /\ \A k \in 0 .. WordBits - 1 : 2 ^ (k + 1) = 2 ^ k * 2

Word    == 0 .. WordSize - 1
Cell    == 0 .. CellSize - 1
Index   == 0 .. IndexSize - 1
Address == 0 .. MemoryCells - 1
Flag    == {"Z", "N", "C", "V", "F"}
Reason  == {"Running", "Halt", "EndOfProgram", "Fault"}

ASSUME BitwiseAssumption ==
  \A x, y \in Word : {BitAnd(x, y), BitOr(x, y), BitXor(x, y)} \subseteq Word

State ==
  [pc : Index, sp : Index, flags : SUBSET Flag, halted : Reason,
   regs : [0 .. Registers - 1 -> Word], mem : [Address -> Cell]]

Plain    == {"nop", "halt", "ret"}
Jumps    == {"jmp", "jz", "jnz", "jn", "call"}
OneReg   == {"movi", "push", "pop"}
TwoRegs  == {"mov", "neg", "not", "cmp", "addi", "ld", "st", "ldb", "stb"}
ThreeRegs == {"add", "sub", "mul", "div", "mod", "and", "or", "xor", "shl", "shr"}
Opcode   == Plain \cup Jumps \cup OneReg \cup TwoRegs \cup ThreeRegs

\* A byte that is no opcode is an invalid one.
Instruction == [op : Opcode \cup {"invalid"}, a : Nat, b : Nat, c : Nat, imm : Int]

\* The fields of an instruction that must name registers.
Operands(op) ==
  CASE op \in OneReg    -> {"a"}
    [] op \in TwoRegs   -> {"a", "b"}
    [] op \in ThreeRegs -> {"a", "b", "c"}
    [] OTHER -> {}

WellFormed(ins) == ins.op \in Opcode /\ \A field \in Operands(ins.op) : ins[field] < Registers

\* Machine::initial_state
InitialState ==
  [pc |-> 0, sp |-> MemoryCells, flags |-> {}, halted |-> "Running",
   regs |-> [r \in 0 .. Registers - 1 |-> 0], mem |-> [i \in Address |-> 0]]
-----------------------------------------------------------------------------
(* Words.                                                                  *)

Wrap(x)   == x % WordSize
Signed(x) == IF 2 * x >= WordSize THEN x - WordSize ELSE x

Abs(x) == IF x < 0 THEN -x ELSE x

\* Division of C++, which truncates towards zero.
Quotient(x, y)  == (IF (x < 0) # (y < 0) THEN -1 ELSE 1) * (Abs(x) \div Abs(y))
Remainder(x, y) == x - y * Quotient(x, y)

\* The result of a two-operand instruction; division of the least number by
\* -1 wraps.
Result(op, x, y) ==
  CASE op = "add" -> Wrap(x + y)
    [] op \in {"sub", "cmp"} -> Wrap(x - y)
    [] op = "mul" -> Wrap(x * y)
    [] op = "div" -> Wrap(Quotient(Signed(x), Signed(y)))
    [] op = "mod" -> Wrap(Remainder(Signed(x), Signed(y)))
    [] op = "and" -> BitAnd(x, y)
    [] op = "or"  -> BitOr(x, y)
    [] op = "xor" -> BitXor(x, y)
    [] op = "shl" -> Wrap(x * 2 ^ (y % WordBits))
    [] op = "shr" -> x \div 2 ^ (y % WordBits)

If(flag, condition) == IF condition THEN {flag} ELSE {}

\* set_zn: the result decides Z and N, C and V are cleared.
SetZN(flags, r) == (flags \ {"Z", "N", "C", "V"}) \cup If("Z", r = 0) \cup If("N", Signed(r) < 0)

Carry(op, x, y, r) == IF op = "add" THEN r < x ELSE x < y

\* Mutant: subtraction overflows as addition does.
OverflowSameSigns(op, x, y, r) ==
  /\ (Signed(x) < 0) = (Signed(y) < 0)
  /\ (Signed(r) < 0) # (Signed(x) < 0)

Overflow(op, x, y, r) ==
  /\ (Signed(x) < 0) = (Signed(y) < 0) <=> op = "add"
  /\ (Signed(r) < 0) # (Signed(x) < 0)
-----------------------------------------------------------------------------
(* Memory: words are stored least significant cell first.                  *)

LoadWord(mem, addr) ==
  LET v[k \in 0 .. WordCells] == IF k = 0 THEN 0 ELSE v[k - 1] * CellSize + mem[addr + WordCells - k]
  IN v[WordCells]

\* Mutant: words are stored most significant cell first.
StoreBackwards(mem, addr, w) ==
  [i \in Address |-> IF i - addr \in 0 .. WordCells - 1
                     THEN (w \div CellSize ^ (WordCells - 1 - (i - addr))) % CellSize
                     ELSE mem[i]]

StoreWord(mem, addr, w) ==
  [i \in Address |-> IF i - addr \in 0 .. WordCells - 1
                     THEN (w \div CellSize ^ (i - addr)) % CellSize
                     ELSE mem[i]]

InMemory(addr, width) == addr <= MemoryCells /\ width <= MemoryCells - addr
-----------------------------------------------------------------------------
(* Instructions.                                                           *)

\* Mutant: a fault leaves pc at the next instruction.
FaultAdvances(s) == [s EXCEPT !.flags = @ \cup {"F"}, !.halted = "Fault", !.pc = (@ + 1) % IndexSize]

Fault(s) == [s EXCEPT !.flags = @ \cup {"F"}, !.halted = "Fault"]

\* Every instruction that is not a jump goes on to the next index.
Advance(s) == [s EXCEPT !.pc = (@ + 1) % IndexSize]

Jump(s, target) == [s EXCEPT !.pc = target % IndexSize]

Write(s, r, w) == [s EXCEPT !.regs[r] = w]

\* Register moves.
Move(s, ins) == Advance(Write(s, ins.a, IF ins.op = "movi" THEN Wrap(ins.imm) ELSE s.regs[ins.b]))

\* add, sub and cmp set all four flags; cmp keeps its result to itself.
AddSub(s, ins) ==
  LET x == s.regs[IF ins.op = "cmp" THEN ins.a ELSE ins.b]
      y == s.regs[IF ins.op = "cmp" THEN ins.b ELSE ins.c]
      r == Result(ins.op, x, y)
      flagged == [s EXCEPT !.flags = SetZN(@, r) \cup If("C", Carry(ins.op, x, y, r))
                                                 \cup If("V", Overflow(ins.op, x, y, r))]
  IN Advance(IF ins.op = "cmp" THEN flagged ELSE Write(flagged, ins.a, r))

\* The instructions that set Z and N only.
Compute(s, ins) ==
  LET x == s.regs[ins.b]
      r == CASE ins.op = "addi" -> Wrap(x + ins.imm)
             [] ins.op = "neg"  -> Wrap(-x)
             [] ins.op = "not"  -> WordSize - 1 - x
             [] OTHER           -> Result(ins.op, x, s.regs[ins.c])
  IN IF ins.op \in {"div", "mod"} /\ s.regs[ins.c] = 0 THEN Fault(s)
     ELSE Advance(Write([s EXCEPT !.flags = SetZN(@, r)], ins.a, r))

Branch(s, ins) ==
  IF \/ ins.op = "jmp"
     \/ ins.op = "jz"  /\ "Z" \in s.flags
     \/ ins.op = "jnz" /\ "Z" \notin s.flags
     \/ ins.op = "jn"  /\ "N" \in s.flags
  THEN Jump(s, ins.imm) ELSE Advance(s)

\* Loads and stores: the address is an unsigned word.
Transfer(s, ins) ==
  LET addr  == Wrap(s.regs[ins.b] + ins.imm)
      width == IF ins.op \in {"ld", "st"} THEN WordCells ELSE 1
      w     == s.regs[ins.a]
  IN IF ~InMemory(addr, width) THEN Fault(s)
     ELSE Advance(CASE ins.op = "ld"  -> Write(s, ins.a, LoadWord(s.mem, addr))
                    [] ins.op = "ldb" -> Write(s, ins.a, s.mem[addr])
                    [] ins.op = "st"  -> [s EXCEPT !.mem = StoreWord(@, addr, w)]
                    [] ins.op = "stb" -> [s EXCEPT !.mem[addr] = w % CellSize])

Push(s, ins) ==
  IF s.sp < WordCells \/ s.sp > MemoryCells THEN Fault(s)
  ELSE LET w == IF ins.op = "push" THEN s.regs[ins.a] ELSE (s.pc + 1) % IndexSize
           t == [s EXCEPT !.mem = StoreWord(@, s.sp - WordCells, w), !.sp = @ - WordCells]
       IN IF ins.op = "call" THEN Jump(t, ins.imm) ELSE Advance(t)

\* Mutant: the upper bound of push is taken for that of pop.
PopPastEnd(s, ins) ==
  IF s.sp > MemoryCells THEN Fault(s) ELSE Advance([s EXCEPT !.sp = @ + WordCells])

Pop(s, ins) ==
  IF s.sp > MemoryCells - WordCells THEN Fault(s)
  ELSE LET w == LoadWord(s.mem, s.sp)
           t == [s EXCEPT !.sp = @ + WordCells]
       IN IF ins.op = "ret" THEN Jump(t, w) ELSE Advance(Write(t, ins.a, w))

Execute(s, ins) ==
  CASE s.halted # "Running" -> s
    [] s.halted = "Running" /\ ~WellFormed(ins) -> Fault(s)
    [] OTHER ->
       CASE ins.op = "nop"  -> Advance(s)
         [] ins.op = "halt" -> [s EXCEPT !.halted = "Halt"]
         [] ins.op \in {"movi", "mov"} -> Move(s, ins)
         [] ins.op \in {"add", "sub", "cmp"} -> AddSub(s, ins)
         [] ins.op \in {"mul", "div", "mod", "and", "or", "xor", "shl", "shr", "addi", "neg", "not"} -> Compute(s, ins)
         [] ins.op \in {"jmp", "jz", "jnz", "jn"} -> Branch(s, ins)
         [] ins.op \in {"ld", "st", "ldb", "stb"} -> Transfer(s, ins)
         [] ins.op \in {"push", "call"} -> Push(s, ins)
         [] ins.op \in {"pop", "ret"} -> Pop(s, ins)

\* Programs count from 0 in the code, from 1 here.
Ended(s, program) == s.pc >= Len(program)

\* Mutant: the end of the program does not halt the machine.
StepOfEndless(s, program) ==
  IF s.halted = "Running" /\ ~Ended(s, program) THEN Execute(s, program[s.pc + 1]) ELSE s

\* Machine::step
StepOf(s, program) ==
  CASE s.halted # "Running" -> s
    [] s.halted = "Running" /\ Ended(s, program) -> [s EXCEPT !.halted = "EndOfProgram"]
    [] OTHER -> Execute(s, program[s.pc + 1])
=============================================================================
