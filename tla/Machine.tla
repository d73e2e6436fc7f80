------------------------------ MODULE Machine -------------------------------
(***************************************************************************)
(* A machine state and the client that runs a program on it (Machine.cpp:  *)
(* run, step, execute and the setters).  A step of the model is one turn   *)
(* of the loop of `run', or one call of another operation.                 *)
(***************************************************************************)
EXTENDS MachineStep

CONSTANTS
  Programs,       \* programs the client may run
  Starts,         \* states it may start from
  Budgets,        \* values of max_steps
  Directs,        \* instructions it may execute outside of a program
  Pokes,          \* words it may write into a register or a cell
  MaxCalls        \* bound: calls the client makes

\* A client starts from initial_state with registers and memory of its own.
ASSUME ClientAssumption ==
  /\ \A s \in Starts :
       s \in State /\ s = [InitialState EXCEPT !.regs = s.regs, !.mem = s.mem]
  /\ Programs \subseteq Seq(Instruction) /\ Directs \subseteq Instruction
  /\ Budgets \subseteq Nat /\ Pokes \subseteq Word
  /\ MaxCalls \in Nat

VARIABLES
  program,   \* the program
  state,     \* the machine state
  mode,      \* "idle" or "running" (inside the loop of run)
  budget,    \* max_steps of the run in progress, or of the last one
  steps,     \* RunResult::steps
  reason,    \* RunResult::reason of the last run, "none" before it
  calls      \* calls made

vars == <<program, state, mode, budget, steps, reason, calls>>

Init ==
  /\ program \in Programs
  /\ state \in Starts
  /\ mode = "idle"
  /\ budget = 0
  /\ steps = 0
  /\ reason = "none"
  /\ calls = 0

Call ==
  /\ mode = "idle" /\ calls < MaxCalls
  /\ calls' = calls + 1

Run(max) ==
  /\ Call
  /\ mode' = "running"
  /\ budget' = max
  /\ steps' = 0
  /\ reason' = "none"
  /\ UNCHANGED <<program, state>>

Continues == steps < budget /\ state.halted = "Running"

\* The step that finds the end of the program is not counted.
Iterate ==
  /\ mode = "running" /\ Continues
  /\ state' = StepOf(state, program)
  /\ steps' = IF Ended(state, program) THEN steps ELSE steps + 1
  /\ UNCHANGED <<program, mode, budget, reason, calls>>

Return ==
  /\ mode = "running" /\ ~Continues
  /\ mode' = "idle"
  /\ reason' = state.halted
  /\ UNCHANGED <<program, state, budget, steps, calls>>

\* One call of step, of execute, of a setter.
Change(s) ==
  /\ Call
  /\ state' = s
  /\ UNCHANGED <<program, mode, budget, steps, reason>>

StepOnce      == Change(StepOf(state, program))
Direct(ins)   == Change(Execute(state, ins))
SetReg(r, w)  == Change([state EXCEPT !.regs[r] = w])
SetMem(i, w)  == Change([state EXCEPT !.mem[i] = w % CellSize])
SetPc(i)      == Change([state EXCEPT !.pc = i])

Next ==
  \/ \E max \in Budgets : Run(max)
  \/ Iterate
  \/ Return
  \/ StepOnce
  \/ \E ins \in Directs : Direct(ins)
  \/ \E w \in Pokes, r \in 0 .. Registers - 1 : SetReg(r, w)
  \/ \E w \in Pokes, i \in Address : SetMem(i, w)
  \/ \E i \in Index : SetPc(i)

Spec     == Init /\ [][Next]_vars
FairSpec == Spec /\ WF_vars(Iterate \/ Return)
-----------------------------------------------------------------------------
(* Properties.                                                             *)

TypeOK ==
  /\ program \in Programs
  /\ state \in State
  /\ mode \in {"idle", "running"}
  /\ budget \in Nat /\ steps \in Nat
  /\ reason \in Reason \cup {"none"}
  /\ calls \in 0 .. MaxCalls

(* The stack pointer stays inside the memory, a whole number of words from *)
(* its end, whatever a program pushes and pops (fuzz_machine.cpp asserts   *)
(* the bound); a machine faulted exactly when F is set.                    *)
StackInBounds ==
  /\ state.sp <= MemoryCells
  /\ \E k \in 0 .. MemoryCells : state.sp + k * WordCells = MemoryCells
  /\ state.halted = "Fault" <=> "F" \in state.flags

Instr == program[state.pc + 1]

\* The loop of run executes an instruction for which `op' holds.
Executes(ops) ==
  /\ mode = "running" /\ state.halted = "Running" /\ ~Ended(state, program)
  /\ state' # state
  /\ Instr.op \in ops

(* A step that halts the machine does nothing else: pc still names the     *)
(* instruction that halted or faulted, no register, cell or stack word is  *)
(* touched, and only a fault sets F.                                       *)
HaltingIsAtomic ==
  [][mode = "running" /\ state.halted = "Running" /\ state'.halted # "Running" =>
       /\ state' = [state EXCEPT !.halted = state'.halted,
                                 !.flags = @ \cup If("F", state'.halted = "Fault")]
       /\ state'.halted = "EndOfProgram" <=> state.pc >= Len(program)]_vars

\* The words between the stack pointer and the end of the memory.
Stack(s) == [k \in 1 .. (MemoryCells - s.sp) \div WordCells |-> LoadWord(s.mem, s.sp + (k - 1) * WordCells)]

(* push and call put one word on the stack, pop and ret take the same word *)
(* off again, and neither disturbs the words below; call leaves the index  *)
(* of the next instruction, which ret goes to.                             *)
StackIsAStack ==
  [][state'.halted = "Running" =>
       /\ Executes({"push"}) => Stack(state') = <<state.regs[Instr.a]>> \o Stack(state)
       /\ Executes({"call"}) => Stack(state') = <<(state.pc + 1) % IndexSize>> \o Stack(state)
       /\ Executes({"pop"})  => Stack(state)  = <<state'.regs[Instr.a]>> \o Stack(state')
       /\ Executes({"ret"})  => Len(Stack(state)) > 0 /\ Tail(Stack(state)) = Stack(state')
                                  /\ state'.pc = Head(Stack(state)) % IndexSize]_vars

(* A run never exceeds its budget, and returns before it is spent only     *)
(* because the machine has halted.                                         *)
RunStopsForCause ==
  /\ steps <= budget
  /\ reason = "Running" => steps = budget

(* Every run returns: also one whose program has an endless loop, and one  *)
(* that runs off the end of its program, where no step is counted.         *)
EveryRunReturns == mode = "running" ~> mode = "idle"
=============================================================================
