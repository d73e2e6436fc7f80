-------------------------- MODULE MCProgramSearch ---------------------------
(***************************************************************************)
(* Searches over the widths of MCMachine, with two or three registers and  *)
(* programs of up to three instructions.  A goal names a register, a cell, *)
(* a flag or pc.                                                           *)
(***************************************************************************)
EXTENDS ProgramSearch, Bitwise

MCAnd(u, v) == u & v
MCOr(u, v)  == u | v
MCXor(u, v) == u ^^ v

MCGoalHolds(goal, s) ==
  CASE goal.kind = "reg"  -> s.regs[goal.at] = goal.value
    [] goal.kind = "cell" -> s.mem[goal.at] = goal.value
    [] goal.kind = "flag" -> goal.at \in s.flags
    [] goal.kind = "pc"   -> s.pc = goal.value

Input(u, v, w)  == [InitialState EXCEPT !.regs = [r \in 0 .. 2 |-> CASE r = 0 -> u [] r = 1 -> v [] r = 2 -> w]]
Reg(r, v)  == [kind |-> "reg", at |-> r, value |-> v]
CellIs(i, v) == [kind |-> "cell", at |-> i, value |-> v]
FlagSet(f) == [kind |-> "flag", at |-> f]
PcIs(n)    == [kind |-> "pc", value |-> n]

Search(inputs, goals, alphabet, space, maxLength, maxStates) ==
  {[inputs |-> inputs, goals |-> goals, alphabet |-> alphabet, space |-> space,
    maxLength |-> maxLength, maxStates |-> maxStates, oe |-> oe] : oe \in BOOLEAN}

InOrder(S) == FoldSet(LAMBDA ins, seq : Append(seq, ins), <<>>, S)

Generated(inputs, goals, ops, n, imms, maxLength, maxStates) ==
  Search(inputs, goals, InOrder(Alphabet(ops, n, imms)), Everything(ops, n, imms), maxLength, maxStates)

Pair == <<Input(1, 3, 4), Input(2, 5, 0)>>

\* Arithmetic on two registers, solvable in two steps and not; two budgets.
Ops == {"add", "neg"}
Arithmetic ==
  Generated(Pair, <<Reg(0, 12), Reg(0, 9)>>, Ops, 2, {}, 3, 5000)
    \cup Generated(Pair, <<Reg(1, 5), Reg(1, 9)>>, Ops, 2, {}, 3, 5000)
    \cup Generated(Pair, <<Reg(0, 7), Reg(0, 6)>>, Ops, 2, {}, 2, 5000)
    \cup Generated(Pair, <<Reg(0, 7), Reg(0, 6)>>, Ops, 2, {}, 3, 11)
\* Programs that fault on one example; a goal that only those reach.
Faulting ==
  Generated(Pair, <<Reg(1, 1), Reg(1, 0)>>, {"div", "addi"}, 2, {0, 1}, 2, 5000)
    \cup Generated(Pair, <<Reg(0, 0), Reg(0, 2)>>, {"div"}, 3, {}, 1, 5000)
\* Words and cells, the stack, and an example that has halted.
Stored ==
  Generated(Pair, <<CellIs(4, 1), CellIs(4, 2)>>, {"stb", "push", "addi"}, 2, {1, 4}, 2, 5000)
    \cup Generated(<<Input(1, 2, 3), Input(1, 2, 0)>>, <<Reg(1, 1), Reg(1, 1)>>, {"push", "pop"}, 2, {}, 3, 5000)
    \cup Generated(<<Input(1, 2, 3), [Input(1, 2, 0) EXCEPT !.halted = "Halt"]>>, <<Reg(1, 1), Reg(1, 2)>>, {"mov"}, 2, {}, 2, 5000)
\* An alphabet of the client's, on a register of its own; no alphabet; no length; a flag,
\* in three steps.
Given == << Ins("addi", 2, 2, 0, 3), Ins("mov", 1, 2, 0, 0), Ins("cmp", 1, 2, 0, 0) >>
Two   == << Ins("movi", 1, 0, 0, 5), Ins("add", 0, 0, 1, 0) >>
Special ==
  Search(Pair, <<FlagSet("Z"), Reg(2, 3)>>, Given, ToSet(Given), 3, 5000)
    \cup Search(Pair, <<Reg(0, 6), Reg(0, 7)>>, Two, ToSet(Two), 2, 5000)
    \cup Generated(Pair, <<Reg(0, 0), Reg(0, 0)>>, {}, 2, {}, 2, 5000)
    \cup Generated(Pair, <<Reg(0, 3), Reg(0, 5)>>, {"mov"}, 2, {}, 0, 5000)
    \cup Generated(Pair, <<Reg(0, 1), Reg(0, 2)>>, {"mov"}, 2, {}, 2, 5000)

MCProblems == Arithmetic \cup Faulting \cup Stored \cup Special

\* A goal that looks at pc.
PcProblems == Generated(<<Input(1, 3, 4)>>, <<PcIs(2)>>, {"nop", "mov"}, 2, {}, 2, 5000)
=============================================================================
