# Verification of alg_exp (dknpng-ce-algorithms)

`alg_exp` is a C++ library that treats problems as spaces of values: a typed
value runtime, constraints and invariants over leaves of a value, a
constructive synthesizer that searches for values satisfying them, spaces
built on that synthesizer, a small register machine with program synthesis,
a quantum simulator, and experiments and a command line on top.  This directory
holds TLA+ models of its control, the TLC configurations that check them on
small instances, and theorems about them checked by TLAPS.

Paths below are relative to the repository (`src/problem/...`); in
`PROJECT.json` they carry the checkout's own `src/` in front.

## Inventory

The program is sequential and single-threaded and keeps no persistent state: it
has no message, crash or lock.  What is hard about it is search on mutable
shared buffers, pruning that must not lose answers, budgets that cut a
computation anywhere, objects reused by calls in any order, arithmetic at the
edge of a width, and claims ("exhausted", "solved", "a valid trace") that
later code relies on.

| Component | State | Operations | Interacts with | Hard behaviour | What makes it correct |
|---|---|---|---|---|---|
| Interval arithmetic (`problem/IntervalMath.hpp`) | none | `iv_*`, `compare_*`, `tri_not` | bounds of constraints, synthesizer | sign cases of products and magnitudes | a bound contains every value; a verdict is never wrong |
| Constraint (`problem/Constraint.cpp`) | immutable trees | build, `eval`, `feasible`, `variables` | invariants, synthesizer (compiles them), SMT | three-valued connectives, negation | verdicts sound, final, exact on points; tree = compiled form |
| Invariant (`problem/Invariant.cpp`) | immutable trees of predicates and constraints | `holds`, `feasible`, `dependencies`, `constraint` | synthesizer, spaces | opaque parts, unknown dependencies | as constraints; a part without dependencies reads everything |
| Domain, Metric | finite sorted values; none | factories; `distance`, `norm_accumulate` | synthesizer, spaces | rounding | sorted, no duplicates; costs grow |
| Synthesizer (`problem/Synthesizer.cpp`) | working buffer, assigned flags, order, statistics | `enumerate`, `solve`, `count`, `nearest`, `min_conflicts` | clients call it repeatedly; it calls checks | stale buffer and flags, pruning, cut-off, budget | complete, sound, no repetition, exact projection, truthful `exhausted` |
| Spaces (`problem/Space.cpp`, `ConstrainedSpace.cpp`) | a synthesizer, bounds, members | `contains`, `project`, `generate`, `neighbors`, `reachable`, components | synthesizer, metric | truncated enumerations, projections in a different norm | generated and projected values are members; components partition |
| SMT bridge (`problem/Smt.cpp`) | none | export, run a solver, parse its model | constraint, external process | parsing | not modelled (text and I/O) |
| Machine (`automaton/Machine.cpp`) | pc, sp, flags, registers, memory, status | `step`, `run`, assembler | transition space, program synthesis | width arithmetic, flags, stack bounds, faults, budget | flags decide comparisons, faults are atomic, runs can be resumed |
| Transition space (`automaton/TransitionSpace.cpp`) | a program | `generate`, `project`, `valid_trace` | machine, space | halted and faulted pairs | runs of the machine are valid traces |
| Program synthesizer (`automaton/ProgramSynthesizer.cpp`) | bank of programs, seen keys | observational-equivalence and depth-first search | machine | merging equal behaviours | both find a program iff there is one in bounds |
| Sketches (`automaton/Sketch.cpp`) | odometer over holes, order of examples | parse, `synthesize`, `verify` | machine | failure-first order, dead-write pruning | pruning loses no behaviour |
| Quantum (`quantum/Quantum.cpp`) | amplitudes, classical bits | gates, measurement, hybrid programs, circuit synthesis | none | zero-probability branches | branches partition the outcomes |
| Value runtime (`value/*`) | byte buffers, layouts, type registry | locate, load, store, clone, operators | everything | saturation, width | stores saturate; clones are independent |
| Experiments, CLI, fuzz, bench | parameters | scenarios, among them a counterexample-guided loop | everything | rounds running out | a program reported solved was verified |

`PROJECT.json` lists each component with its status, and under `hazards` the
places where this code is hard to test, each with the properties aimed at it or
the reason there is none.

## Modules

| Module | Models | Kind |
|---|---|---|
| `Induction` | induction over numbers and finite sets, recursive functions: lemmas of all the proofs | proofs |
| `IntervalMath` | interval arithmetic, comparisons, three-valued negation | operators |
| `Constraint` | constraint trees: build, evaluate, bound; compile into flat nodes, evaluate and bound those | operators (recursive, model-checked only) |
| `Invariant` | predicates and constraints combined: hold, explain, dependencies, bounds, unwrapping | operators (recursive, model-checked only) |
| `PartialEvaluation` | one invariant, as the synthesizer splits and compiles it, while the leaves it reads are written and released in any order | state machine |
| `Synthesizer` | the search object and every call on it | state machine |
| `SolutionStream` | what `enumerate` promises, however it searches | abstract state machine |
| `Synthesizer_proofs` | soundness of the interval operators on all integers; of the synthesizer: type correctness, completeness, soundness, exact counts and projections, repair, clean calls, budgets, refinement | proofs |
| `Spaces` | domains, metrics, constrained, box and predicate spaces and their algebra | operators |
| `Walk` | `reachable` and `connected_components`, turn by turn | state machine |
| `SpaceClient` | a client of a space: draws, lists, projects, or walks | state machine, composes `Spaces` and `Walk` |
| `SpaceClient_proofs` | what `reachable` returns is a closure; components are counted once; spaces agree, draws and projections are members, projections nearest | proofs |
| `MachineStep` | one instruction of the register machine, and `step` | operators |
| `MachineStep_proofs` | words in cells of memory; every instruction keeps the types, and all but jumps and calls do the same wherever they stand | proofs |
| `Machine` | a machine state, `run` turn by turn, and the other calls of a client | state machine |
| `Machine_proofs` | stack bounds, atomic halting, budget of a run, types, words on the stack | proofs |
| `TransitionSpace` | single-step transitions and traces, generated, forged, projected, checked | state machine |
| `TransitionSpace_proofs` | forgeries are detected, accepted traces are runs, flags and division are right | proofs |
| `Instructions` | the alphabet of a search, and `run` as one function | operators |
| `ProgramSearch` | the two searches for straight-line programs, on the machine of `MachineStep` | state machine |
| `ProgramSearch_proofs` | both searches return a shortest program; the states of a node are those its program reaches | proofs |
| `SketchSearch` | the search for the fills of a sketch's holes | state machine |
| `CounterexampleLoop` | the loop of Tier2 around it, and the validation of its result | state machine, extends `SketchSearch` |
| `CounterexampleLoop_proofs` | counterexamples are new, what is verified is right; every fill of a sketch is tried once, a shortest one found | proofs |
| `Quantum` | states, gates, circuits, collapse | operators |
| `HybridRun` | a hybrid program run operation by operation, and `run_branch` | state machine |
| `CorrectionSearch` | the search for teleportation's corrections, whose result is run | state machine, extends `HybridRun` |
| `CircuitSearch` | the synthesis of circuits | state machine |
| `QuantumClient` | a client of the three | composition |
| `Types` | types, layouts, leaves, paths, the registry | operators (recursive, model-checked only) |
| `Views` | a client that fills a registry, makes values and overlapping views and writes through them | state machine |
| `Operators` | the registry's numeric operators | state machine |
| `ValueClient` | a client of the two | composition |
| `MC...` | small instances of the above | model checking |

### Constraint and PartialEvaluation

A path and its slot are the leaf itself, a number is an integer.  `EvalTree` and
`FeasibleTree` are `Constraint::eval` and `Constraint::feasible`; `Compile` pushes
children before parents as `compile_e`/`compile_f` do, and `EvalF`/`FeasibleF`
walk the arrays by index (recursive functions where the code recurses).  The
state of `PartialEvaluation` is an invariant, the checks the synthesizer splits it into
(`Flatten`, one `Check` for each conjunct, compiled if it unwraps into a constraint),
and what `Ctx` sees: the buffer `work`, the
`assigned` flags, and the domains whose hulls stand for undecided leaves.  `Write`
is `write` plus the flag; `Release` clears the flag and leaves the number behind, as
a backtracking frame does.

`Invariant` gives an invariant as a tree of predicates, with or without declared
dependencies, and symbolic constraints under `and`, `or` and `not`, spliced as the
operators of the code do.  What throws or is absent (`constraint()` of an opaque part)
is the empty sequence, unknown dependencies are `Unstated`.

### Synthesizer

Constructor arguments are the record `prob`; what the constructor derives is a set
of operators: `SearchOrders` (the stable sort), `RootChecks`, `Ready`,
`Touching`, `Hull`.  The recursion of `dfs` and of `nearest`'s `rec` is the
depth `pos` and, for each position, the set `todo` of values its loop has not
tried; a step is one turn of a loop:

| Action | Code |
|---|---|
| `Begin` | entry of `enumerate`, `count`, `nearest`: `reset_stats`, limit, root checks |
| `Descend`, `Reject` | one value: node counted, written, flag set, `consistent_at`, recursion or flag cleared |
| `Backtrack`, `BreakOff`, `GiveUp` | the three ways a loop ends: no values, cut-off, budget |
| `EmitValue`, `CountValue`, `KeepNearest` | a leaf of the search tree |
| `BeginLocal`, `LocalMove`, `LocalFound`, `LocalStuck`, `LocalGiveUp` | `min_conflicts` |

`solve()` is `enumerate(1)`.  When a search stops, the unwinding of all frames is
one step (`Stop`), because each frame only clears its flag and returns.
Random choices (shuffled values, the moves of local repair) are nondeterministic,
so every seed is covered.  The buffer is carried from call to call.

A check is abstract: `Holds(check, values)` and `Feasible(check, ranges)` are
constant operators, given in `MCSynthesizer` by the compiled formulas of
`Constraint`.  Each check declares the leaves it reads, or declares nothing.

### MachineStep and Machine

A machine state is a record of the fields of the packed layout, except that
`flags` is a set of names; memory is a function from addresses to cells and a
word is read and written cell by cell, as `load_le64` and `store_le64` do.
The widths are constants related by `WidthsAssumption`: in the code a word has
64 bits in 8 cells, pc and sp have 32.  `Execute` is `execute_raw`, split by
what an instruction does: `Move`, `AddSub`, `Compute`, `Branch`, `Transfer`,
`Push`, `Pop`.  Immediates, of either sign, are sign-extended (`Wrap`) and
truncated for jumps (`Jump`); C++ division truncates (`Quotient`).

In `Machine` one turn of the loop of `run` is an action (`Iterate`, `Return`),
and each other call of a client is one: `StepOnce`, `Direct` (`execute` of an
instruction outside of a program), `SetReg`, `SetMem`, `SetPc`.  A client can
therefore resume a run, edit the state in between, and execute on a halted machine.

### TransitionSpace

`Structural` and `Semantic` are the two lists of invariants, `Contains` their
conjunction, `Make`, `Generate` and `Project` the operations.  A client forges
the instruction, the state after, or only its memory.  The second half records the
states of a run, lets a client replace any of them, and asks `ValidTrace`, whose
early return at the first halted pair is kept.

### ProgramSearch

`Alphabet` is `make_alphabet`, `Everything` the instructions before the redundant
ones are dropped.  For `search_oe` a turn of the inner loop is `Discard`
or `Keep`, the end of a level `Level`; `Key`, `Image` and `Loaded` are the bytes of
a state that identify a node, that it stores, and the reload of the scratch
buffer `work`, whose tail is never stored.  For `search_dfs` it is
`Visit`, `Backtrack` and `Limit` on a stack of frames.  Instructions are those of the
machine, so the searches compose with `MachineStep`, and `Verify` runs the
programs with `step`, as the code's `verify` does.

### SketchSearch and CounterexampleLoop

A line of a sketch is an instruction with labels and perhaps a label it refers to, a hole
with a name and a maximal length, or blank with labels; `Parse` is the assembler's second
half and `Parses` its errors.  The lengths of the holes are taken in the order of the
code (by total, then lexicographically), and `clock` is the odometer: an index into its
alphabet for every slot; `FillsAt` is the fill it shows.  One candidate is one action: `PruneFill` (a dead write),
`GiveUp` (the budget) or `Try`, which rotates the order of examples (`ToFront`) when
one fails.  `TurnOver` is the increment, carry and change of lengths that follows each.

`CounterexampleLoop` constructs a synthesizer for each round, probes its result with
inputs of a generator, adds the first that fails, and at the end validates on inputs of
another generator.  `Drawn` is a stream of inputs: the edge cases first, then any.

### Spaces, Walk and SpaceClient

Numbers are halves, so that a float leaf has values that an integer leaf truncates
(`Store`).  A space is a record: its invariants, its members (the points that satisfy
what `contains` evaluates), whether it is finite, its listing, the values `generate` may
return (a set of at most one each) and, for every point, what `project` may return.  A
constrained space takes its solutions from what `Synthesizer` is shown to deliver: all
assignments that satisfy the semantic invariants, and an exact nearest one.  `generate`
retries a draw a number of times and may give up; what it may return after any
number of retries is `Kept`.  `Make` constructs a space from what a client gives (`IsBase` says what
it may give), and `Build` combines up to three of them.  A constrained space lists its solutions
in the order of the depth-first search: leaf by leaf, each from its least value up (`Before`), where the order of
leaves is one that a synthesizer may have sorted them into.  `Ascending` puts each assignment at its
rank, and `Those` filters a listing; both are functions, so that the proofs can reason about them.
`std::clamp` between ends that cross is undefined: a box may then project a slot to either (`Clamped`).

`Walk` takes a graph: members, neighbours, a listing.  The queue, the set of values seen and
the result are those of `reachable`; `connected_components` calls it for every listed member
not visited.  `MCSpaces` gives it the graphs that `Neighbors` makes of the constrained spaces, with
their listings.

### Quantum, HybridRun, CorrectionSearch and CircuitSearch

Amplitudes are exact: integer combinations of the eighth roots of unity over a power of
root two, which is closed under every gate at the angles used.  States are not normalised
after a measurement, so the squared norm of a branch is its probability.  Index bits, control
masks and the order of qubits in a dense matrix are as in the code.  Gates work in place, pair by pair:
`Combine` and `Exchange` write two amplitudes after reading both.  The random outcome of
`measure` is any with a probability.  `CorrectionSearch` composes with `HybridRun`: it
judges its candidates by `RunBranch` and then runs what it found.

### Types, Views, Operators

A type is a record of one element's layout and a shape.  Strides, offsets and sizes are
computed as the constructors do, with `MaxSize` for the largest `size_t`; a definition that
throws leaves the registry as it was.  `WalkPaths` and `Locate` are the two directions
between leaves and paths.  A path is a sequence of segments, not its characters.
A view is a type, a buffer and an offset; buffers are sequences of bytes, and clients write
through any view at any offset.  `Operators` rounds numbers to doubles of `Mantissa`
bits where the code converts.

## Runs

| Run | Question | States |
|---|---|---|
| `PartialEvaluation` | are verdicts sound and final, do tree, arrays and unwrapped constraints agree, do stated dependencies settle a check? | 75,264 |
| `Search` | do enumeration and counting lose, repeat or invent anything, does nearest return a closest solution, does local repair return only solutions, does a call leave anything behind, whatever was called before? | 174,802 |
| `Stream` | does the search implement the abstract stream, with liveness? | 18,777 |
| `Control` | is the stack a stack within memory, is halting atomic, does a run keep to its budget and return? | 87,457 |
| `Transitions` | is membership exactly being a well-encoded step, does projection restore it, are runs accepted and accepted traces runs up to the first halt, do the flags decide comparison and overflow, is division exact? | 59,812 |
| `Programs` | does each search find a verified, shortest program exactly if there is one that does not fault, and return? | 782 |
| `Sketches` | is every fill tried once, is a shortest one found though dead writes are skipped, is a verified program right, does the loop return? | 522 |
| `Spaces` | do invariants, membership and listings of nested spaces agree, are draws and projections members, projections nearest, walks closures, components counted, wherever limits cut and whatever the order of the listing? | 18,980 |
| `Quantum` | are gates unitary and equal to their matrices, are runs branches, which bits does a branch leave that is given up, do the corrections teleport, is the circuit a shortest? | 580 |
| `Values` | do leaves tile a type, do paths lead to them, does a write stay within its view, are operators exact or wrap as they should? | 234,784 |
| `Merged` (violation) | does the search that merges states still find a program if a goal looks at pc? | |
| `Saturated` (violation) | does pruning cut only subtrees that cannot succeed? | |

### Bounds

* Three leaves (`N = 3`), domains of one to three values with gaps and both signs.
  Three is the least number with a position that is neither first nor last, so a check
  can be ready early, in the middle or late, and a backtrack can cross a position that
  leaves a stale number behind.
* Check lists: none, symbolic with an opaque one, disjunctions with a product,
  predicates without declared dependencies, root checks that hold and that fail,
  and (in `Stream`) a predicate that declares none of the leaves it reads, the only
  way into `LocalStuck`.
* `maxNodes` 50 (never reached by the search of a tree of at most 18 leaves and 30
  nodes), 5 and 6 (reached in the middle).  Limits 0, 1, 2, 3 and 99.
* `MaxCalls` 2: one call leaves a buffer and flags for another.
* `SampleCap` stands for the 64 of the code; 2 in `Search`, so that a domain of
  three is sampled.
* `PartialEvaluation`: two leaves, every comparison with every operator, nested
  connectives, and invariants that combine constraints with predicates that declare what
  they read, more, or nothing.

* Machine: words of two cells of two bits, indices of three bits, a memory of five
  cells, three registers.  The stack holds two words, so the third push and
  the first pop of an empty stack fault; five is no multiple of the word, so an
  address can be in memory for a byte and out of it for a word; indices are
  narrower than words, so jumps and returns truncate.
* The programs of `Control` nest calls, push and pop for ever, leave through their end
  by a negative jump, overlap byte and word accesses, and name a register or an
  opcode that is not there.  Budgets 0, 3 and 20 end a run before, inside and after
  its program; three calls let a run be resumed after an edit.
* `Transitions` takes all 256 pairs of words through `add`, `sub`, `cmp`, `div` and `mod`,
  and every opcode from two sample states.  Traces have at most five states (`MaxTrace`): a
  halt, its pair, and one after it.

* Programs of up to three instructions over two or three registers.  A solution has
  none, one, two or three; some problems have none, and one has only programs that fault.  The
  reference (`ShortestIsFound`) runs all sequences of all instructions, the dropped ones too.
* Sketches with one hole of up to three instructions in a loop or in straight line, and with
  two holes, one of them labelled, in the branches of a conditional; alphabets of up to four
  instructions; budgets of 8 (reached in the middle) and 500 (never); sketches rejected for a
  label that is repeated or unknown.  Three rounds, three probes and three held-out cases:
  enough for a second counterexample and for a round that is the last.

* Spaces: an integer and a float leaf between -1 and 1 in steps of a half, thirteen constrained,
  box and predicate spaces with every norm, all pairs under the three operations and some
  triples.  Among them two domains the integer leaf truncates (neighbours are one-way there), a box
  without an integer in it and a space without members; synthesizers search either leaf first.  Limits of walks 0, 2, 4 (cut short) and 99.
* Quantum: up to three qubits and two classical bits; every gate, on qubits in awkward orders;
  angles that are multiples of 45 degrees for phases, of 90 degrees for rotations.  Programs
  measure a bit twice, read one before it is written, and branch impossibly.
  Corrections have up to three operations, circuits up to four gates.
* Values: `MaxSize` 50, so that arrays overflow, also ones with an empty dimension; three
  views and two writes, the least with which a copy overlaps what another write left.  Operands
  of 2 and 5 bits with doubles of a mantissa of 3: the wide ones are rounded, as 64-bit
  numbers are in the code.

`CHECK_DEADLOCK FALSE` appears where the client may stop calling.

### Fairness

`FairSpec` adds `WF_vars(Step)`: a call in progress keeps executing.  The program
is sequential and a step never waits, so this is what running it means.
The searches for programs are sequential in the same way (`WF_vars(Next)`).
So is the counterexample-guided loop.
For the machine it is `WF_vars(Iterate \/ Return)`: the loop of `run` keeps turning.
Nothing is assumed of the client or of random choices.

### Disagreements between comment and code

Two have a run of their own, whose counterexample shows them:

* `Saturated`: `Synthesizer.hpp:12` says interval bounds prune "subtrees that cannot
  succeed".  The hull of a leaf is that of its domain (`:277`), while a value
  is stored saturated to the leaf's primitive (`:307`): with 300 in the domain of an
  8-bit leaf, the subtree that would store 255 and satisfy every check is cut.
* `Merged`: `ProgramSynthesizer.hpp:10` says the breadth-first search discards programs that
  reach "an already-seen tuple" of states.  Its key leaves out pc
  (`ProgramSynthesizer.cpp:207`), and a program that differs from an earlier one only
  there is discarded: with a goal on pc it misses what the depth-first search finds.

The others are where a property had to be stated with a condition:

* `Synthesizer.hpp:54` says `exhausted` means "search space fully explored within budget";
  `enumerate(0)` and `count(0)` skip the search and report it (`Synthesizer.cpp:382`, `:389`).
  `NothingIsLost` and `CountIsExact` claim it for calls with a limit.
* `Space.hpp:42` calls the result of `project` the nearest member of the space.
  `TransitionSpace::project` (`TransitionSpace.cpp:84`) keeps an instruction that is not well
  encoded, so its result is no member (`ForgeryIsDetected` says just when it is).  A union
  takes the nearer of two projections by its first member's metric (`Space.cpp:130`), whatever
  metric the second minimised (`ProjectionIsNearest` asks for one norm).  A box whose slot holds no
  integer projects outside of itself (`ConstrainedSpace.cpp:184`).
* `ConstrainedSpace.hpp:49` says `connected_components` counts the connected components of the neighbourhood
  graph.  Where an integer leaf truncates a value of its domain, neighbours are one-way: of the domain
  {0, 0.5, 1}, 1 has the neighbour 0 (0.5 as stored), but 0 has only itself.  The count then depends on
  the order of the listing: the two members are listed from 0 up and count as two components, while
  of {-1, -0.5, 0} the member -1 comes first, reaches 0, and one is counted.  `ComponentsAreExact` asks for
  mutual neighbours where it says that no component is left out.
* `TransitionSpace.hpp:29` calls `valid_trace` an invariant over consecutive pairs; it returns at
  the first halted pair (`TransitionSpace.cpp:90`) and accepts whatever follows.
* `verify` (`ProgramSynthesizer.cpp:118`) judges whatever state a run leaves, also one that a fault
  left, while both searches drop a candidate that faults on an example (`:297`, `:341`).
  `ShortestIsFound` therefore compares with the programs that do not fault.
* `ProgramSynthesizer.hpp:5` describes the alphabet as opcodes x registers x immediates with only
  commutative operands folded; `make_alphabet` also drops `cmp a a` and `addi a a 0`
  (`ProgramSynthesizer.cpp:56`, `:64`), which set flags.  The problems of `Programs` have no goal on
  the flags these would set.
* `docs/experiments.md:57` says of the fills with a dead write that skipping them "is sound and is
  tested exhaustively" (the test runs pairs of instructions in straight line).  Leaving out an
  instruction moves what follows it, and a jump of the sketch to an index, which `Sketch::parse`
  accepts (`Sketch.cpp:115`), does not move with it: the sketch `jmp 3; ?? 2; movi r0 1` needs a hole of
  two instructions, all of whose fills are dead, and nothing is found.  The proof of
  `ShortestFillIsAlwaysFound` led to it, and TLC finds `ShortestFillIsFound` violated after eight states when
  `Sketches.cfg` is given `SketchProblems <- MCIndexedProblems`.  The sketches of the run jump to labels.
* `Experiment.hpp:35` describes a solved outcome as satisfying the training examples; a last round
  of Tier2's loop adds its counterexample to them and leaves with the program that fails it
  (`Tier2.cpp:70`).  `VerifiedIsCorrect` excepts that example.

## Proofs

Checked by `tlapm` for every value of the constants.  `TypeOK`, `PathIsAssigned`,
`StopsForCause` and `RunStopsForCause` are parts of the inductive invariants; no run
lists them, as the properties listed imply what matters of them.

Intervals (the first part of `Synthesizer_proofs`): each interval operation contains the results of its
members (`AddSound`, `MinusSound`, `MulSound`, `AbsSound`, `MinMaxSound`), a
decided comparison is right for all members (`CompareSound`), and comparisons of
points are always decided (`PointsAreDecided`).  `MulSound` rests on
`ProductMonotone`: a product is monotone in one factor up to the sign of the other.

`Induction` supplies what the provers have no rule for.  A library theorem on induction takes a
predicate, which tlapm cannot instantiate; these lemmas take the *set* of what has the property.
`LeastSubset` applies the well-foundedness of strict inclusion on the subsets of a finite set to
a collection of subsets, `LeastNumber` to intervals, and from these follow `NumberInduction`,
`SetInduction`, `SubsetInduction`, and `Recursion`: a function that satisfies a recursive equation exists on
`0 .. n`.  Every recursive function of the models (`within` of a component, `Costs`, `Turns`,
the cells of a loaded word) is a `CHOOSE` to the provers; `Recursion` shows there is something
to choose, after which its equation may be used.  `FoldExists` shows the same for the folds of
the community modules over finite sets, from which distances and the orders of invariants are computed.

The synthesizer, in `Synthesizer_proofs` (assuming `ConstantsAssumption` and, beyond types,
`ChecksAssumption`: leaves can store their domains, checks read no more than they declare, and
a bound that says False is right):

| Theorem | Statement |
|---|---|
| `TypeCorrect` | `Spec => []TypeOK` |
| `FlagsAreThePath` | `Spec => []PathIsAssigned` |
| `EnumerationIsComplete` | `Spec => []NothingIsLost` |
| `EnumerationIsSound` | `Spec => []EachSolutionOnce` |
| `CountsAreExact` | `Spec => []CountIsExact` |
| `NearestIsExact` | `Spec => []NearestIsOptimal` |
| `RepairIsSound` | `Spec => []RepairIsSolution` |
| `GreedyRepair` | `Spec => RepairNeverWorsens` |
| `CallsStayClean` | `Spec => []CallsEndClean` |
| `BudgetsAreKept` | `Spec => []StopsForCause` |
| `EnumerateIsAStream` | every step of `Spec` is a step of `SolutionStream` or a stutter |

The argument.  `NothingIsLost` is not inductive: that a backtrack loses nothing needs
the loops above to have tried exactly the values that are gone.  `SearchInv` adds
what the frames guarantee: flags are the path (`PathIsAssigned`), the buffer holds
domain or initial values, on the path only values already removed from `todo`, every
check that became ready on the path holds for any choice that agrees with the path
(`PathInv`), and the flags and buffer of local repair (`LocalInv`).  `StreamInv` adds
the order of what was emitted relative to what is ahead: each emitted value precedes,
in the order of the search, every assignment still ahead.  A rejected value is safe
to drop because every solution under it contradicts a ready check (`HonestChecks`)
or a bound (`SoundBounds`).  `BudgetInv` relates the node counter, the length of the
result and the `exhausted` flag.

`CountInv` says that while a count goes on, the tally is the number of solutions that are not
ahead (`Behind`): a leaf of the tree moves one solution behind, any other step none.  `NearestInv`
says that the cost kept at each position is that of the leaves above it (`CostOn`), and that
every solution is ahead or costs no less than the best found (`Beaten`).  That a loop may break
off at the first value that costs too much rests on two lemmas: costs only grow along a path
(`CostsGrow`), for every norm, and the values of a loop come in the order of their distance.  The
cost of a path is defined in the order of the search and `TotalCost` in the order of the leaves;
`CostOnAll` shows they agree.  `RepairNeverWorsens` is about a single move: the violated checks
that the move cannot touch are the same before and after, and the value kept is one of least
conflict, the old one among the candidates.

`MCEnumerate` extends the proofs, so TLC evaluates `ChecksAssumption` on the problems of its runs;
`VerdictIsSound` in `PartialEvaluation` checks `SoundBounds` for the symbolic constraints themselves.

`MachineStep_proofs` and `Machine_proofs` (assuming `WidthsAssumption`, `PowersAssumption`,
`BitwiseAssumption` and `ClientAssumption`):

| Theorem | Statement |
|---|---|
| `InstructionsKeepStates` | `Execute` of any instruction takes a `State` to a `State` |
| `StackStaysInBounds` | `Spec => []StackInBounds` |
| `RunsStopForCause` | `Spec => []RunStopsForCause` |
| `HaltingStaysAtomic` | `Spec => HaltingIsAtomic` |
| `TypeCorrect` | `Spec => []TypeOK` |
| `StackStaysAStack` | `Spec => StackIsAStack` |

tlapm knows nothing of exponentiation, so `PowersAssumption` states how the powers that occur grow
with their exponent, and TLC evaluates it; the operators on bits are parameters of `MachineStep`, of
which `BitwiseAssumption` asks that they return words.  Of a client `ClientAssumption` asks
that its inputs are values the types of the code can hold.

The argument.  `Sane` says of a state that it has the fields of a machine state,
that sp is a whole number of words below the end of memory, and that F is set exactly
on a faulted machine.  It says nothing of what registers and memory hold, so no
arithmetic is needed except of the pointer (`PushMoves`, `PopMoves`); one lemma per
group of instructions (`MoveGoes` ... `PopGoes`) shows that the result is sane and
either runs on or is `Fault` of the state before, and `StepFacts` adds the end of the
program.  `IInv` joins `Sane` with the counters of `run`.  The whole-number part is what
makes the bound inductive: without it a pop at `MemoryCells - WordCells + 1` could
not be excluded from a state reached by no push.

Types and the contents of the stack do need arithmetic.  `LoadReads` gives the word at an address
as a sum of its cells; `LoadIsWord` bounds it, `LoadOfStored` shows by induction over the
cells that a word is loaded as it was stored (`DivideTwice`: dividing by a power and then by the
base is dividing by the next power), `LoadElsewhere` that other words are not touched.
`StackGrows` combines them with the whole-number part: a push makes the sequence of
words from sp upwards one longer at its front and leaves the others, a pop takes that word
off.

`TransitionSpace_proofs` (assuming in addition `TransitionsAssumption`: what a client draws or forges has
the types of the code, and a drawn state differs from the initial one in its registers and memory):

| Theorem | Statement |
|---|---|
| `ForgeriesAreDetected` | `Spec => []ForgeryIsDetected` |
| `AcceptedTracesAreRuns` | `Spec => []TracesAreRuns` |
| `ArithmeticStaysExact` | `Spec => []ArithmeticIsExact` |

The argument.  `ForgeryIsDetected` compares a conjunction over the components of a state with
the equality of two states, so it needs that a state is its components (`ComponentsAreAll`) and that
the transition in hand has the right types, whatever produced it (`TransitionInv`).
`TraceInv` says that a trace nobody replaced a state of is a run; `PairsAreSteps` that the check
of a pair is `step`, and `FirstHalt` picks the pair at which the early return happens.
`ArithmeticIsExact` is about the instructions themselves: a sum or difference of two words wraps at most
once (`WrapNear`), which settles the flags, and truncating division is that of the
magnitudes (`DivisionWraps`), also where the most negative word is divided by -1.

`SpaceClient_proofs` (assuming `WalkAssumption`: a space has finitely many members, and neighbours of
members are members; `LeavesAssumption`: there are finitely many leaves, whose range begins and ends with
whole numbers; and `NamesAssumption`: constructors are given what their types allow):

| Theorem | Statement |
|---|---|
| `WalksAreClosures` | `Spec => []ReachableIsClosure` |
| `ComponentsStayExact` | `Spec => []ComponentsAreExact` |
| `ClientsAreServed` | `ClientSpec => []ClientInv` |
| `SpacesStayInAgreement` | `ClientSpec => []SpacesAgree` |
| `ResultsStayMembers` | `ClientSpec => []ResultsAreMembers` |
| `ProjectionsStayNearest` | `ClientSpec => []ProjectionIsNearest` |
| `ClientWalksAreClosures` | `ClientSpec => []ReachableIsClosure` |
| `ClientCountsAreExact` | `ClientSpec => [](ComponentsAreExact /\ (IsStorable(graph) => AllAreCounted))` |

The argument for walks.  `ReachableIsClosure` speaks of the end of a walk and quantifies over all closed
sets.  `WalkInv` says of every moment that the values seen are those expanded and those in
the queue, all members and each once (`QueueInv`), that the neighbours of what was expanded were
seen, and that whatever closed set holds the start holds all that was seen (`ClosureInv`).
When the queue is empty the two together make the result the least closed set; when the limit
stops the walk, a part of it.  The lemmas on sequences (`HeadAndTail`, `Appended`, `Joined`,
`OrderIsDistinct`) say which values a sequence holds, and how often, after the operations of the queue.

For the components, `CountInv` adds where the loop over the listed members is (`ProgressInv`),
that every value visited lies in a component of a member looked at, and that visited values are
closed if no walk was cut short (`ReachInv`), and bounds the number counted from both sides by
the number of components of the members looked at (`NumberInv`).  `ComponentFacts` shows by
induction that the sets defined by distance are the least closed ones.  Only the lower bound needs
neighbours to be mutual (`SameComponent`): along one-way edges a member visited by an earlier walk may have
a component of its own, which `connected_components` does not count.
The neighbours of a constrained space differ in one leaf, where each is the next of the other in the domain
(`NeighborsAreMutual`); this needs a leaf to hold its domain as it is (`IsStorable`), since a value that
is truncated on the way is not found in the domain again.  Such a space also lists every member once
(`StorableListsAll`), so that with a limit that its members do not exceed the count is that of all components of
the space (`AllAreCounted`, which `ClientCountsAreExact` adds to `ComponentsAreExact`).

The argument for spaces.  The three properties speak of any space that can be built, and a property of
a combination needs more of its parts than the property itself: that a projection onto an intersection is
nearest needs the listings of its parts, that a draw from a union is a member
needs the draws of its parts to be.  `Sound` joins what has to be known: members are what the reported invariants say
(`Described`), a finite listing has each member once (`Listing`), draws and projections are members, found when
there is one, and nearest (`Drawing`, `Projecting`).  Every constructor makes a sound space
(`ConstrainedIsSound`, `BoxIsSound`, `PredicateIsSound`; that the search lists every assignment once rests on
`BeforeIsAnOrder`, by which ranks differ, and on counting: ranks are as many as assignments, `AscendingIs`) and every operation keeps two sound spaces
sound (`IntersectionIsSound`, `DifferenceIsSound`, `UnionIsSound`), so whatever is built is sound, however deep the
nesting.  That clamping each slot of a box gives a nearest member for every norm rests
on `DistancesAre`, that a distance grows with its terms, whether they are added or the greatest is taken, and
on `BoundsOfALeaf`, that a leaf has a nearest value of its own.  A union keeps the nearer of two
projections (`BetterIs`), which is nearest to the union if both norms are the same.

`CounterexampleLoop_proofs` (assuming `SketchProblemsAssumption` and `LoopAssumption`: there is a
round, the generator draws states of the machine, and the tests allow at least as many steps as the search):

| Theorem | Statement |
|---|---|
| `CounterexamplesStayNew` | `Spec => []CounterexamplesAreNew` |
| `VerifiedStaysCorrect` | `Spec => []VerifiedIsCorrect` |
| `FillsAreShownOnce` | `Spec => [](Distinct => EveryFillOnce)` |
| `ShortestFillIsAlwaysFound` | `Spec => [](Shrinkable => ShortestFillIsFound)` |

`Distinct`: no alphabet lists an instruction twice; otherwise a fill is shown as often as it can be
spelled.  `Shrinkable` asks nothing of a search without pruning.  With it, what is asked makes it possible to leave an
instruction out: runs begin at the first instruction and no goal looks at the index, jumps and only
jumps have labels for operands (`JumpToLabels`; a jump to an index is among the disagreements above), nothing is called, as a return address is
an index in memory that a goal may look at, and no program is so long that the index wraps.  All the problems of
`Sketches` that prune satisfy both, but for the sketch without a hole, which moves a label into a
register; the alphabets of all of them are distinct.

The argument.  A counterexample is new because the program it refutes passes every example there
is; but the probe allows more steps than the search did, so one needs that a run which halts
within its budget halts the same way within a larger one (`HaltedRunsStay`, by
induction over `Turns`, and `PassingIsMeeting`).  `SynthesizerInv` says that what was found
passes all examples of the synthesizer, whatever order the failures have rotated them into
(`FrontKeepsAll`); `ExamplesInv` that those are the examples of the loop except after the
last round, which is why `VerifiedIsCorrect` excepts that one; `ValidationInv` that as long as
every held-out input has passed, the edge cases among them are met.

For the fills, the odometer is a pair: the lengths of the holes and a digit for each instruction.  `Comes`
orders the pairs as the code goes through them: by the total, then the lengths, then the digits.  A turn leads
to the next pair of that order, or there is none (`TurnOverShows`, from `NextDials` for the digits
and `NextLengths` and `MoreLengths` for the lengths), so `EnumInv` can say that all pairs before the one shown
have been tried, and that they are as many as the counters say.  Every fill is shown by a pair
(`FillIsShown`), by one only if alphabets are distinct (`FillIsShownOnce`); with a bijection
their number is that of the fills.  What `Parse` and `Holes` return, and where the instructions of an item lie in the
program, is shown with sums of lengths (`PartsTile`, `FlatIs`, `CodeIs`).

That pruning loses nothing compares two runs that differ in length.  A program and the same without a dead
write go side by side (`Abreast`, `TurnAbreast`): in the same state, at places that correspond
(`Shifted`), except for the moment between the dead write and the instruction that overwrites it, when the
shorter program waits.  The instruction after a dead write does not see it (`WritersAgree`: it reads
neither the register nor the flags), or it faults and so does the example.  `FillIsShorter` shows that the two
fills give two such programs, whose jumps follow their labels, and `ShorterRuns` that the shorter one ends as the
longer one does, sooner.  A shortest fill that satisfies the examples therefore has no dead write
(`NoShorterFill` takes the least length at which one would have been missed), and was tried.

`ProgramSearch_proofs` (assuming `ProblemsAssumption` and those of `MachineStep`):

| Theorem | Statement |
|---|---|
| `ImagesStayStates` | `Spec => [](FromStart(prob) => ImagesAreStates)` |
| `ShortestIsReturned` | `Spec => [](FromStart(prob) /\ BlindGoals(prob) /\ Covers(prob) => ShortestIsFound)` |
| `GeneratedCovers` | an alphabet of `make_alphabet` covers the instructions it was made from, other than `cmp a a` and `addi a a 0` |

The hypotheses are about the problem, not the search.  `FromStart`: examples begin at the first
instruction and no program is long enough for the index to wrap, so that `verify`, which runs a
program from where its example stands, executes the instructions the search executed.  `BlindGoals`: no goal
looks at the index or at why the machine halted, which `verify` changes at the end of a program; the
run `Merged` shows that a goal on the index is lost.  `Covers`: the space a shortest
program is sought in may exceed the alphabet by instructions that do nothing or what one of the alphabet
does.  `GeneratedCovers` shows this of generated alphabets if the operators on bits commute;
the two instructions it excepts are left out of the alphabet too although they set flags, so problems whose space
holds them are only model-checked.  The arithmetic problems of `MCProgramSearch` satisfy all three hypotheses.

The argument.  No instruction of a straight-line program looks at the index (`ExecuteAt`), and one that
does not use the memory changes its first register at most (`ExecuteStaysLocal`).  So the part
of a state that is stored determines the rest (`LoadedIsStored`, which gives `ImagesAreStates`),
states with one key differ in the index only (`KeysTellApart`), and programs that reach such states
meet the same goals and go on to the same keys (`SameGoesOn`).  `RunIs` relates the run of a program by
`verify` to the execution of the search.

Breadth first, `KnownInv` says that each key is that of a program which solves nothing, and that
it is one of an earlier level or of a node of the next one; `CoveredTo` that each program of an earlier
level is known, and so is each continuation of it, unless a node with its key is still to be extended
by that instruction (`TurnOf`).  Neither half is inductive alone: a program can be passed over only because
another with its key is in its place, possibly of an earlier level.  When no node is left,
`AllKnown` shows by induction over the length that every program the space offers has a known key and so solves
nothing.  Depth first, `StackIs` says of each frame that what was tried there had no solution
below it at this limit (`NoneBelow`), and `DepthInv` that there is none at any smaller limit.

Only model-checked:

* liveness under fairness: `EveryCallReturns`, the fairness part of `IsStream`, `EveryRunReturns`,
  and that searches and loops end (out of the prover's reach);
* everything about recursive trees: constraints, invariants, types and layouts (they are
  `RECURSIVE` operators, without which their modules would not be readable as the code);
* `ShortestIsFound` of `ProgramSearch` where the space has comparisons of a register with itself or
  additions of zero, `ShortestFillIsFound` of sketches that move a label into a register, and the results of the
  searches for corrections and circuits;
* all of the quantum part (amplitudes are sums over indices of qubits) and the operators on values.

## Not modelled

* Floating-point rounding beyond the mantissa of `Operators`, infinities and NaN; angles of
  rotations other than those of the bounds; sampling by weight.
* Text: the assembler, SMT-LIB, printing, the spelling of paths, signatures and type expressions;
  with it the solver bridge, which is text and an external process.
* The hash table of the breadth-first search (a set here) and the field index of a value; the
  counter of invariant evaluations and the clock.
* Quotients of operands of different types (a fraction of doubles), `sum` and `dot`, and the
  operators a user registers; streams of values.
* Purity, entropy, the state space and the transition invariants of `Quantum.cpp`, which are
  sums of doubles compared with a tolerance.
* The scenarios of Tier1 and Tier3 other than teleportation, `run_contract` of Tier2, the command
  line, fuzz targets and benchmarks: parameters and printing around the components above.

## Plan

1. (done) Intervals and constraints, the synthesizer, its abstract stream, and their proofs.
2. (done) The machine, its transition space, and its proofs.
3. (done) `Spaces` and `Walk`, and the proof that walks are closures.
4. (done) `ProgramSearch`, `SketchSearch`, `CounterexampleLoop`.
5. (done) `Quantum`, `HybridRun`, `CorrectionSearch`, `CircuitSearch`.
6. (done) `Invariant`, `Types`, `Views`, `Operators`.
7. (done) Theorems about counting, projection and repair, the types and the stack of the machine, the
   transition space, components, the counterexample-guided loop, and the two searches for programs.
8. (done) Theorems about the algebra of spaces and the clients of a space, and about the fills of a sketch:
   each is tried once, and a shortest one found.
9. A theorem still worth proving: that gates keep inner products (`Quantum`).
