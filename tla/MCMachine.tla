----------------------------- MODULE MCMachine ------------------------------
(***************************************************************************)
(* Words of two cells of two bits, a memory of five cells and three        *)
(* registers: the stack holds two words and leaves a cell that it cannot   *)
(* use, indices are narrower than words.                                   *)
(***************************************************************************)
EXTENDS Machine, Bitwise

MCAnd(u, v) == u & v
MCOr(u, v)  == u | v
MCXor(u, v) == u ^^ v

I(op, a, b, c, imm) == [op |-> op, a |-> a, b |-> b, c |-> c, imm |-> imm]

\* Nested calls that save a register on the stack.
Calls == << I("call", 0, 0, 0, 2), I("halt", 0, 0, 0, 0), I("push", 0, 0, 0, 0), I("call", 0, 0, 0, 4),
            I("pop", 1, 0, 0, 0), I("ret", 0, 0, 0, 0) >>
\* Pushes, and pops, until the stack faults.
PushLoop == << I("push", 1, 0, 0, 0), I("jmp", 0, 0, 0, 0) >>
PopLoop  == << I("push", 0, 0, 0, 0), I("pop", 1, 0, 0, 0), I("pop", 1, 0, 0, 0), I("jmp", 0, 0, 0, 1) >>
\* A count down that leaves the program at its end.
CountDown == << I("addi", 0, 0, 0, -1), I("jn", 0, 0, 0, 4), I("jnz", 0, 0, 0, 0), I("jz", 0, 0, 0, -1) >>
\* Loads and stores that overlap and run out of the memory.
Overlap == << I("st", 0, 2, 0, 1), I("stb", 1, 2, 0, 2), I("ldb", 1, 2, 0, 1), I("ld", 0, 2, 0, 2), I("addi", 2, 2, 0, 1),
              I("jmp", 0, 0, 0, 0) >>
\* Every instruction without effect on control, then a register that is not there.
Mixed == << I("movi", 2, 0, 0, -3), I("mov", 1, 2, 0, 0), I("neg", 0, 1, 0, 0), I("not", 1, 0, 0, 0),
            I("nop", 0, 0, 0, 0), I("mul", 0, 1, 3, 0) >>
Invalid == << I("invalid", 0, 0, 0, 0) >>

ControlPrograms == {Calls, PushLoop, PopLoop, CountDown, Overlap, Mixed, Invalid, <<>>}
Registers3(u, v) == [InitialState EXCEPT !.regs = [r \in 0 .. 2 |-> CASE r = 0 -> u [] r = 1 -> v [] r = 2 -> 0]]
ControlStarts  == {Registers3(u, v) : u \in {1, 14}, v \in {0, 7}}
ControlBudgets == {0, 3, 20}
ControlDirects == {I("pop", 0, 0, 0, 0), I("push", 2, 0, 0, 0), I("div", 0, 1, 2, 0)}
=============================================================================
