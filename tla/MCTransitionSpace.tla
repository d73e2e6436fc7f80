-------------------------- MODULE MCTransitionSpace -------------------------
(* Transitions of every opcode and traces of short programs, over the      *)
(* widths of MCMachine.                                                    *)
EXTENDS TransitionSpace, Bitwise

MCAnd(u, v) == u & v
MCOr(u, v)  == u | v
MCXor(u, v) == u ^^ v

I(op, a, b, c, imm) == [op |-> op, a |-> a, b |-> b, c |-> c, imm |-> imm]
With(u, v, w, m) ==
  [InitialState EXCEPT !.regs = [r \in 0 .. 2 |-> CASE r = 0 -> u [] r = 1 -> v [] r = 2 -> w],
                       !.mem = [i \in Address |-> (i + m) % CellSize]]

\* Every opcode; and arithmetic on every pair of words.
Samples      == {With(2, 15, 0, 1), With(3, 1, 7, 2)}
Instructions == {I(op, 1, 0, 2, -1) : op \in Opcode}
Arithmetic   == {I("cmp", 0, 1, 0, 0)} \cup {I(op, 2, 0, 1, 0) : op \in {"add", "sub", "div", "mod"}}

MCDraws ==
  {[state |-> s, instr |-> i] : s \in Samples, i \in Instructions} \cup
  {[state |-> With(u, v, 0, 0), instr |-> i] : u, v \in Word, i \in Arithmetic}
MCForgeries    ==
  { [instr |-> I("add", 2, 3, 1, 0), state |-> With(0, 0, 0, 0)],
    [instr |-> I("invalid", 0, 0, 0, 0), state |-> [With(2, 15, 0, 2) EXCEPT !.pc = 1]],
    [instr |-> I("jmp", 0, 0, 0, 2), state |-> [InitialState EXCEPT !.halted = "Halt"]] }

MCPrograms ==
  { << I("movi", 0, 0, 0, 3), I("push", 0, 0, 0, 0), I("halt", 0, 0, 0, 0) >>,
    << I("pop", 0, 0, 0, 0), I("halt", 0, 0, 0, 0) >>,
    << I("cmp", 0, 1, 0, 0), I("jz", 0, 0, 0, 4) >>,
    << I("nop", 7, 0, 0, 0) >> }
=============================================================================
