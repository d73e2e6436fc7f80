-------------------------- MODULE TransitionSpace ---------------------------
(***************************************************************************)
(* The space of single-step transitions of the machine and the checking of *)
(* traces (TransitionSpace.cpp).  A client generates, tampers with and     *)
(* projects transitions, and records a run of a program as a trace, which  *)
(* it may tamper with too.                                                 *)
(***************************************************************************)
EXTENDS MachineStep, FiniteSetsExt

CONSTANTS
  Draws,          \* states and instructions that generate may draw
  Forgeries,      \* instructions and states a client may put in
  Programs,       \* programs that are traced
  MaxTrace        \* bound: states of a trace

\* What is drawn differs from initial_state in registers and memory.
ASSUME TransitionsAssumption ==
  /\ \A d \in Draws : d.state = [InitialState EXCEPT !.regs = d.state.regs, !.mem = d.state.mem]
  /\ Draws \cup Forgeries \subseteq [state : State, instr : Instruction]
  /\ Programs \subseteq Seq(Instruction)
  /\ MaxTrace \in Nat

VARIABLES
  t,          \* the transition last produced
  origin,     \* what produced it: "none", "generate", "forge" or "project"
  program,    \* the program traced
  trace,      \* the states recorded
  tampered,   \* has a client replaced a state of the trace?
  client      \* what the client does: "transitions" or "traces"

vars == <<t, origin, program, trace, tampered, client>>

Components == {"pc", "sp", "flags", "halted", "regs", "mem"}

\* The structural invariants look at all three fields, used or not.
Structural(ins) == ins.op \in Opcode /\ \A field \in {"a", "b", "c"} : ins[field] < Registers

\* Mutant: the memory is not compared.
SemanticNoMemory(before, ins, after) ==
  \A c \in Components \ {"mem"} : after[c] = Execute(before, ins)[c]

\* One semantic invariant per component of the state.
Semantic(before, ins, after) == \A c \in Components : after[c] = Execute(before, ins)[c]

Contains(x) == Structural(x.instr) /\ Semantic(x.before, x.instr, x.after)

Make(s, ins) == [before |-> s, instr |-> ins, after |-> Execute(s, ins)]

\* Mutant: at the end of the program nothing may change.
PairOkIdle(tr, i) ==
  IF Ended(tr[i], program) THEN tr[i + 1] = tr[i]
  ELSE Contains([before |-> tr[i], instr |-> program[tr[i].pc + 1], after |-> tr[i + 1]])

\* valid_trace: what it asks of the states i and i + 1 of a running machine.
PairOk(tr, i) ==
  IF Ended(tr[i], program) THEN tr[i + 1] = StepOf(tr[i], program)
  ELSE Contains([before |-> tr[i], instr |-> program[tr[i].pc + 1], after |-> tr[i + 1]])

\* The loop returns at the first pair whose first state has halted.
ValidTrace(tr) ==
  LET halts == {i \in 1 .. Len(tr) - 1 : tr[i].halted # "Running"}
  IN IF halts = {} THEN \A i \in 1 .. Len(tr) - 1 : PairOk(tr, i)
     ELSE /\ \A i \in 1 .. Min(halts) - 1 : PairOk(tr, i)
          /\ tr[Min(halts)] = tr[Min(halts) + 1]
-----------------------------------------------------------------------------
\* The two clients share nothing but the operators above.
Init ==
  /\ \/ client = "transitions" /\ program = <<>>
     \/ client = "traces" /\ program \in Programs
  /\ t = Make(InitialState, [op |-> "nop", a |-> 0, b |-> 0, c |-> 0, imm |-> 0])
  /\ origin = "none"
  /\ trace = <<InitialState>>
  /\ tampered = FALSE

\* Draws are independent: one is followed to its end.
Generate ==
  /\ client = "transitions" /\ origin = "none"
  /\ \E d \in Draws : t' = Make(d.state, d.instr)
  /\ origin' = "generate"
  /\ UNCHANGED <<program, trace, tampered, client>>

Project ==
  /\ client = "transitions" /\ origin # "none"
  /\ t' = Make(t.before, t.instr) /\ origin' = "project"
  /\ UNCHANGED <<program, trace, tampered, client>>

\* A client edits a field of the instruction, or the state after it.
Forge(f) ==
  /\ client = "transitions" /\ origin # "none"
  /\ \/ t' = [t EXCEPT !.instr = f.instr]
     \/ t' = [t EXCEPT !.after = f.state]
     \/ t' = [t EXCEPT !.after.mem = f.state.mem]
  /\ origin' = "forge"
  /\ UNCHANGED <<program, trace, tampered, client>>

Record ==
  /\ client = "traces"
  /\ Len(trace) < MaxTrace
  /\ trace' = Append(trace, StepOf(trace[Len(trace)], program))
  /\ UNCHANGED <<t, origin, program, tampered, client>>

Tamper(i, f) ==
  /\ client = "traces"
  /\ trace' = [trace EXCEPT ![i] = f.state]
  /\ tampered' = TRUE
  /\ UNCHANGED <<t, origin, program, client>>

Next ==
  \/ Generate
  \/ Project
  \/ \E f \in Forgeries : Forge(f)
  \/ Record
  \/ \E f \in Forgeries, i \in DOMAIN trace : Tamper(i, f)

Spec == Init /\ [][Next]_vars
-----------------------------------------------------------------------------
(* Properties.                                                             *)

(* The six components cover the state: no forgery of any part of it is a   *)
(* member, and project repairs all of them, but not one of the             *)
(* instruction.                                                            *)
ForgeryIsDetected ==
  /\ Contains(t) <=> Structural(t.instr) /\ t.after = Execute(t.before, t.instr)
  /\ origin = "project" => (Contains(t) <=> Structural(t.instr))

(* The recorded run of a well-encoded program is a valid trace, through    *)
(* faults, halts and the end of the program; and in an accepted trace      *)
(* every state up to the one after the first halt is the machine's next    *)
(* state.                                                                  *)
TracesAreRuns ==
  /\ ~tampered /\ (\A k \in DOMAIN program : Structural(program[k])) => ValidTrace(trace)
  /\ ValidTrace(trace) => \A i \in 1 .. Len(trace) - 1 :
       (\A j \in 1 .. i - 1 : trace[j].halted = "Running") => trace[i + 1] = StepOf(trace[i], program)

\* The transition is a step of one of the operations, on two registers.
Generated(ops) == origin = "generate" /\ t.instr.op \in ops /\ WellFormed(t.instr)
Operand(field) == t.before.regs[t.instr[field]]

(* After cmp the flags decide every comparison of the two registers, equal *)
(* and unsigned and signed, although the difference wraps; after add and   *)
(* sub C and V say whether the true result, of the unsigned and of the     *)
(* signed operands, does not fit a word; div and mod agree: the quotient   *)
(* times the divisor plus the remainder is the dividend, the remainder is  *)
(* smaller than the divisor and takes the sign of the dividend, also for   *)
(* the quotient that does not fit a word.                                  *)
ArithmeticIsExact ==
  LET f == t.after.flags
      exact(u, v) == IF t.instr.op = "add" THEN u + v ELSE u - v
  IN /\ Generated({"cmp"}) =>
          /\ "Z" \in f <=> Operand("a") = Operand("b")
          /\ "C" \in f <=> Operand("a") < Operand("b")
          /\ ("N" \in f) # ("V" \in f) <=> Signed(Operand("a")) < Signed(Operand("b"))
     /\ Generated({"add", "sub"}) =>
          /\ "C" \in f <=> exact(Operand("b"), Operand("c")) \notin Word
          /\ "V" \in f <=> 2 * exact(Signed(Operand("b")), Signed(Operand("c"))) \notin -WordSize .. WordSize - 1
     /\ Generated({"div"}) /\ t.after.halted = "Running" =>
          LET x == Operand("b")
              y == Operand("c")
              r == Signed(Result("mod", x, y))
          IN /\ Wrap(t.after.regs[t.instr.a] * y + r) = x
             /\ Abs(r) < Abs(Signed(y))
             /\ r # 0 => (r < 0 <=> Signed(x) < 0)
=============================================================================
