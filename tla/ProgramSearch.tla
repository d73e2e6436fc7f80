--------------------------- MODULE ProgramSearch ----------------------------
(***************************************************************************)
(* The search for straight-line programs (ProgramSynthesizer.cpp): breadth *)
(* first over the states the programs reach, those that look the same      *)
(* merged, or depth first over all programs with a growing limit.  A step  *)
(* is one turn of the innermost loop.  A node of the code links to its     *)
(* parent; here it carries its program.                                    *)
(***************************************************************************)
EXTENDS Instructions, SequencesExt

CONSTANTS
  Problems,            \* what a synthesizer is constructed from, see IsProblem
  GoalHolds(_, _)      \* does a final state satisfy a goal?

\* A client may give an alphabet of its own.
IsProblem(p) ==
  /\ p.inputs \in Seq(State) /\ Len(p.inputs) = Len(p.goals) /\ Len(p.inputs) > 0
  /\ p.alphabet \in Seq(Instruction) /\ \A ins \in ToSet(p.alphabet) : ins.op \notin IsControl
  /\ p.maxLength \in Nat /\ p.maxStates \in Nat
  /\ p.oe \in BOOLEAN

ASSUME ProblemsAssumption == \A p \in Problems : IsProblem(p)

VARIABLES
  prob,
  phase,      \* "start", "search" or "done"
  depth,      \* ProgramSearchStats::depth
  states,     \* ProgramSearchStats::states
  exhausted,  \* ProgramSearchStats::budget_exhausted
  result,     \* the set of programs returned: none or one
  frontier, next,   \* breadth first: nodes of this level and of the next one
  turn,             \* candidates of this level tried
  seen,             \* keys
  work,             \* the scratch states, one per example
  stack       \* depth first: the frames, each with its states and instructions tried

oeVars == <<frontier, next, turn, seen, work>>
vars   == <<prob, phase, depth, states, exhausted, result, oeVars, stack>>

Examples == DOMAIN prob.inputs

GoalsHold(ss) == \A e \in Examples : GoalHolds(prob.goals[e], ss[e])

MemoryOps == \E ins \in ToSet(prob.alphabet) : ins.op \in UsesMemory

\* Registers 0 to KeyRegisters - 1 are those the alphabet can touch.
KeyRegisters ==
  Min({Registers, Max({0} \cup UNION {{ins.a + 1, ins.b + 1, ins.c + 1} : ins \in ToSet(prob.alphabet)})})

Low(regs) == [r \in 0 .. KeyRegisters - 1 |-> regs[r]]

\* Mutant: the last register is left out.
KeyShort(s) ==
  IF MemoryOps THEN [f \in DOMAIN s \ {"pc"} |-> s[f]]
  ELSE [flags |-> s.flags, regs |-> [r \in 0 .. KeyRegisters - 2 |-> s.regs[r]]]

\* The bytes that two nodes are told apart by.
Key(s) ==
  IF MemoryOps THEN [f \in DOMAIN s \ {"pc"} |-> s[f]]
  ELSE [flags |-> s.flags, regs |-> Low(s.regs)]

\* The bytes of a state that a node stores, and the state they belong to.
Image(s) == IF MemoryOps THEN s ELSE [s EXCEPT !.regs = Low(@), !.mem = <<>>]

\* Mutant: the registers of the scratch states stay.
LoadedStale(image, s) ==
  IF MemoryOps THEN image ELSE [s EXCEPT !.pc = image.pc, !.flags = image.flags, !.halted = image.halted]

Loaded(image, s) ==
  IF MemoryOps THEN image
  ELSE [image EXCEPT !.regs = [r \in DOMAIN s.regs |-> IF r < KeyRegisters THEN @[r] ELSE s.regs[r]],
                     !.mem = s.mem]

Node(ss, program) == [images |-> [e \in Examples |-> Image(ss[e])], program |-> program]
Keys(ss)          == [e \in Examples |-> Key(ss[e])]

Apply(ins, ss) == [e \in Examples |-> Execute(ss[e], ins)]
Faulted(ss)    == \E e \in Examples : ss[e].halted # "Running"

Frame(ss) == [states |-> ss, tried |-> 0]
-----------------------------------------------------------------------------
Init ==
  /\ prob \in Problems
  /\ phase = "start" /\ depth = 0 /\ states = 0 /\ exhausted = FALSE /\ result = {}
  /\ frontier = <<>> /\ next = <<>> /\ turn = 0 /\ seen = {} /\ work = prob.inputs
  /\ stack = <<>>

Done(programs) == phase' = "done" /\ result' = programs

\* Both searches try the empty program first.
Trivial ==
  /\ phase = "start" /\ GoalsHold(prob.inputs)
  /\ Done({<<>>})
  /\ UNCHANGED <<prob, depth, states, exhausted, oeVars, stack>>

Begin ==
  /\ phase = "start" /\ ~GoalsHold(prob.inputs)
  /\ IF prob.maxLength = 0 THEN Done({}) /\ UNCHANGED depth
     ELSE phase' = "search" /\ depth' = 1 /\ UNCHANGED result
  /\ IF prob.oe THEN /\ frontier' = <<Node(prob.inputs, <<>>)>>
                     /\ seen' = {Keys(prob.inputs)}
                     /\ UNCHANGED stack
     ELSE stack' = <<Frame(prob.inputs)>> /\ UNCHANGED <<frontier, seen>>
  /\ UNCHANGED <<prob, states, exhausted, next, turn, work>>

\* A candidate is about to be tried.
Breadth == phase = "search" /\ prob.oe /\ turn < Len(frontier) * Len(prob.alphabet)
Deep    == phase = "search" /\ ~prob.oe /\ Last(stack).tried < Len(prob.alphabet)

OverBudget == states >= prob.maxStates

GiveUp ==
  /\ Breadth \/ Deep
  /\ OverBudget
  /\ exhausted' = TRUE
  /\ Done({})
  /\ UNCHANGED <<prob, depth, states, oeVars, stack>>

\* Breadth first: the candidate of this turn.
Parent    == frontier[(turn \div Len(prob.alphabet)) + 1]
Candidate == prob.alphabet[(turn % Len(prob.alphabet)) + 1]
Reached   == Apply(Candidate, [e \in Examples |-> Loaded(Parent.images[e], work[e])])
Extended  == Append(Parent.program, Candidate)

Try ==
  /\ Breadth /\ ~OverBudget
  /\ states' = states + 1
  /\ turn' = turn + 1
  /\ work' = Reached
  /\ UNCHANGED <<prob, depth, exhausted, frontier, stack>>

Discard ==
  /\ Try
  /\ Faulted(Reached) \/ Keys(Reached) \in seen
  /\ UNCHANGED <<phase, result, next, seen>>

Keep ==
  /\ Try
  /\ ~Faulted(Reached) /\ Keys(Reached) \notin seen
  /\ seen' = seen \cup {Keys(Reached)}
  /\ IF GoalsHold(Reached) THEN Done({Extended}) /\ UNCHANGED next
     ELSE /\ next' = IF depth < prob.maxLength THEN Append(next, Node(Reached, Extended)) ELSE next
          /\ UNCHANGED <<phase, result>>

Level ==
  /\ phase = "search" /\ prob.oe /\ ~Breadth
  /\ frontier' = next /\ next' = <<>> /\ turn' = 0
  /\ IF depth < prob.maxLength /\ next # <<>> THEN depth' = depth + 1 /\ UNCHANGED <<phase, result>>
     ELSE Done({}) /\ UNCHANGED depth
  /\ UNCHANGED <<prob, states, exhausted, seen, work, stack>>

\* Depth first: the program of the frames.
Path(frames) == [d \in DOMAIN frames |-> prob.alphabet[frames[d].tried]]
Touched == [stack EXCEPT ![Len(stack)].tried = @ + 1]
Below   == Apply(prob.alphabet[Last(stack).tried + 1], Last(stack).states)

Visit ==
  /\ Deep /\ ~OverBudget
  /\ states' = states + 1
  /\ IF Faulted(Below) THEN stack' = Touched /\ UNCHANGED <<phase, result>>
     ELSE IF Len(stack) < depth THEN stack' = Append(Touched, Frame(Below)) /\ UNCHANGED <<phase, result>>
     ELSE /\ stack' = Touched
          /\ IF GoalsHold(Below) THEN Done({Path(Touched)}) ELSE UNCHANGED <<phase, result>>
  /\ UNCHANGED <<prob, depth, exhausted, oeVars>>

Backtrack ==
  /\ phase = "search" /\ ~prob.oe /\ ~Deep /\ Len(stack) > 1
  /\ stack' = Front(stack)
  /\ UNCHANGED <<prob, phase, depth, states, exhausted, result, oeVars>>

\* Mutant: the limit does not grow.
LimitStays ==
  /\ phase = "search" /\ ~prob.oe /\ ~Deep /\ Len(stack) = 1
  /\ IF depth < prob.maxLength
     THEN stack' = <<Frame(prob.inputs)>> /\ UNCHANGED <<depth, phase, result>>
     ELSE Done({}) /\ UNCHANGED <<depth, stack>>
  /\ UNCHANGED <<prob, states, exhausted, oeVars>>

Limit ==
  /\ phase = "search" /\ ~prob.oe /\ ~Deep /\ Len(stack) = 1
  /\ IF depth < prob.maxLength
     THEN depth' = depth + 1 /\ stack' = <<Frame(prob.inputs)>> /\ UNCHANGED <<phase, result>>
     ELSE Done({}) /\ UNCHANGED <<depth, stack>>
  /\ UNCHANGED <<prob, states, exhausted, oeVars>>

Next == Trivial \/ Begin \/ GiveUp \/ Discard \/ Keep \/ Level \/ Visit \/ Backtrack \/ Limit

Spec     == Init /\ [][Next]_vars
FairSpec == Spec /\ WF_vars(Next)
-----------------------------------------------------------------------------
(* verify: the machine runs a program from its input.  The programs have   *)
(* no jumps, so their length and the turn that ends the run are enough.    *)
RunOf(s, program) == RunFor(s, program, Len(program) + 1)

Verify(program) == \A e \in Examples : GoalHolds(prob.goals[e], RunOf(prob.inputs[e], program))

\* Does a run of a program fault on an example?
Faults(program) == \E e \in Examples : RunOf(prob.inputs[e], program).halted = "Fault"

(* Properties.                                                             *)

(* Both searches return programs that the machine verifies.  One within    *)
(* its budget, on examples whose inputs are not halted, finds a program    *)
(* exactly if there is one among all sequences of instructions of the      *)
(* space that do not fault, and none of those is shorter                   *)
(* (ProgramSynthesizer.hpp: `the first program found is a shortest one').  *)
(* Candidates that fault on an example are dropped, though verify accepts  *)
(* the state that a fault leaves behind.  A search that gives up has spent *)
(* its budget and no more.                                                 *)
ShortestIsFound ==
  /\ \A program \in result : Verify(program)
  /\ states <= prob.maxStates
  /\ exhausted => states = prob.maxStates /\ result = {} /\ phase = "done"
  /\ phase = "done" /\ ~exhausted /\ ~Faulted(prob.inputs) =>
     LET solutions(n) == {program \in [1 .. n -> prob.space] : Verify(program) /\ ~Faults(program)}
     IN IF result = {} THEN \A n \in 0 .. prob.maxLength : solutions(n) = {}
        ELSE \A program \in result :
               ~Faults(program) /\ \A n \in 0 .. prob.maxLength : n < Len(program) => solutions(n) = {}

(* What the node to expand stores, with the rest of the scratch states, is *)
(* the states its program reaches: nothing of the candidates tried since   *)
(* it was stored is left in them.                                          *)
ImagesAreStates ==
  Breadth => \A e \in Examples :
    StepOf(Loaded(Parent.images[e], work[e]), Parent.program) = RunOf(prob.inputs[e], Parent.program)

(* Every search returns.                                                   *)
SearchReturns == <>(phase = "done")
=============================================================================
