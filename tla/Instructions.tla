---------------------------- MODULE Instructions -----------------------------
(***************************************************************************)
(* The instructions that a search tries (ProgramSynthesizer.cpp:           *)
(* make_alphabet), for straight-line programs and for the holes of         *)
(* sketches.                                                               *)
(***************************************************************************)
EXTENDS MachineStep

Commutative == {"add", "mul", "and", "or", "xor"}
UsesMemory  == {"ld", "st", "ldb", "stb", "push", "pop", "call", "ret"}
IsControl   == {"jmp", "jz", "jnz", "jn", "call", "ret", "halt"}

Ins(op, a, b, c, imm) == [op |-> op, a |-> a, b |-> b, c |-> c, imm |-> imm]

\* Every instruction with fields that are used.
Everything(ops, n, imms) ==
  LET R == 0 .. n - 1
      of(op) == CASE op = "nop" -> {Ins(op, 0, 0, 0, 0)}
                  [] op = "movi" -> {Ins(op, a, 0, 0, imm) : a \in R, imm \in imms}
                  [] op \in {"mov", "neg", "not", "cmp"} -> {Ins(op, a, b, 0, 0) : a, b \in R}
                  [] op \in {"addi", "ld", "st", "ldb", "stb"} -> {Ins(op, a, b, 0, imm) : a, b \in R, imm \in imms}
                  [] op \in {"push", "pop"} -> {Ins(op, a, 0, 0, 0) : a \in R}
                  [] OTHER -> {Ins(op, a, b, c, 0) : a, b, c \in R}
  IN UNION {of(op) : op \in ops}

\* Without those that do nothing, or the same as another.
Redundant(ins) ==
  \/ ins.op \in {"mov", "cmp"} /\ ins.a = ins.b
  \/ ins.op = "addi" /\ ins.imm = 0 /\ ins.a = ins.b
  \/ ins.op \in Commutative /\ ins.b > ins.c

Alphabet(ops, n, imms) == {ins \in Everything(ops, n, imms) : ~Redundant(ins)}

\* The state of Machine::run, the only one, after each turn of its loop, which executes one
\* instruction, counted, or halts the machine at the end of the program.
Turns(s, program, turns) ==
  LET after[n \in 0 .. turns] ==
        IF n = 0 THEN {s}
        ELSE {IF t.halted # "Running" THEN t ELSE StepOf(t, program) : t \in after[n - 1]}
  IN after

\* Machine::run, at most `turns' turns.
RunFor(s, program, turns) == CHOOSE t \in Turns(s, program, turns)[turns] : TRUE
=============================================================================
