----------------------------- MODULE SketchSearch -----------------------------
(***************************************************************************)
(* Programs with holes (Sketch.cpp): a sketch is parsed, its holes are     *)
(* filled with all sequences of instructions in order of total length, and *)
(* every program that results is run on the examples.  A step is one turn  *)
(* of the odometer.                                                        *)
(***************************************************************************)
EXTENDS Instructions, SequencesExt

CONSTANTS
  SketchProblems,      \* what a synthesizer is constructed from, see IsSketchProblem
  GoalHolds(_, _)      \* does a final state satisfy a goal?

\* A line of a sketch: labels, then nothing, a hole, or an instruction whose operand may
\* be a label.
NoRef == "none"
IsLine(line) ==
  /\ line.kind \in {"blank", "hole", "ins"} /\ line.labels \in Seq(STRING)
  /\ line.kind = "hole" => line.max \in Nat
  /\ line.kind = "ins" => line.ins \in Instruction /\ line.ref \in STRING

IsSketchProblem(p) ==
  /\ p.lines \in Seq(ToSet(p.lines)) /\ \A line \in ToSet(p.lines) : IsLine(line)
  /\ Len(p.examples) > 0
  /\ \A e \in ToSet(p.examples) : e.input \in State
  /\ \A name \in DOMAIN p.alphabets : p.alphabets[name] \in Seq({ins \in Instruction : ins.op \notin IsControl})
  /\ p.maxCandidates \in Nat /\ p.maxSteps \in Nat /\ p.prune \in BOOLEAN

ASSUME SketchProblemsAssumption == \A p \in SketchProblems : IsSketchProblem(p)

VARIABLES
  prob,
  sketch,      \* the sketch parsed
  examples,    \* SketchSynthesizer::examples_
  order,       \* order_: in which order the examples are tried
  phase,       \* "search", "done", or "rejected" by the parser or the constructor
  total,       \* T: instructions in all holes
  len,         \* instructions in each hole
  digits,      \* the odometer: an index into its alphabet for each instruction
  candidates,  \* SketchStats::candidates
  pruned,      \* SketchStats::pruned
  exhausted,   \* SketchStats::budget_exhausted
  fills,       \* fills_: of the last success
  found        \* the set of programs returned: none or one

clock == <<total, len, digits>>
stats == <<candidates, pruned, exhausted>>
searchVars == <<prob, sketch, examples, order, phase, clock, stats, fills, found>>
-----------------------------------------------------------------------------
(* Sketches.                                                               *)

\* A label names the item that follows it, or the end.
Parse(lines) ==
  LET place(s)  == s.labels \o [i \in DOMAIN s.pending |-> [name |-> s.pending[i], at |-> Len(s.items) + 1]]
      add(s, line) ==
        LET t == [s EXCEPT !.pending = @ \o line.labels]
        IN IF line.kind = "blank" THEN t
           ELSE [items |-> Append(t.items, line), labels |-> place(t), pending |-> <<>>]
      read[i \in 0 .. Len(lines)] ==
        IF i = 0 THEN [items |-> <<>>, labels |-> <<>>, pending |-> <<>>] ELSE add(read[i - 1], lines[i])
      end == read[Len(lines)]
  IN [items |-> end.items, labels |-> place(end)]

Refs(sk)  == {item.ref : item \in {i \in ToSet(sk.items) : i.kind = "ins"}} \ {NoRef}
Names(sk) == {label.name : label \in ToSet(sk.labels)}

\* parse throws on a duplicate and on an unknown label.
Parses(sk) ==
  /\ Cardinality(Names(sk)) = Len(sk.labels)
  /\ Refs(sk) \subseteq Names(sk)

\* The sums of the first numbers of a sequence, and of all.
Sums(seq)  == LET sum[i \in 0 .. Len(seq)] == IF i = 0 THEN 0 ELSE sum[i - 1] + seq[i] IN sum
SumOf(seq) == Sums(seq)[Len(seq)]

IsHole(item) == item.kind = "hole"

\* The number of the hole at an item.
HoleAt(sk, i) == Sums([j \in DOMAIN sk.items |-> IF IsHole(sk.items[j]) THEN 1 ELSE 0])[i]

Holes(sk) == FlattenSeq([i \in DOMAIN sk.items |-> IF IsHole(sk.items[i]) THEN <<sk.items[i]>> ELSE <<>>])

\* The index of the first instruction of each item, and of the end.
Starts(sk, fs) ==
  LET size(i) == IF IsHole(sk.items[i]) THEN Len(fs[HoleAt(sk, i)]) ELSE 1
  IN [i \in 1 .. Len(sk.items) + 1 |-> Sums([j \in DOMAIN sk.items |-> size(j)])[i - 1]]

Instantiate(sk, fs) ==
  LET start  == Starts(sk, fs)
      target(ref) == start[(CHOOSE label \in ToSet(sk.labels) : label.name = ref).at]
      code(i) == LET item == sk.items[i]
                 IN CASE IsHole(item) -> fs[HoleAt(sk, i)]
                      [] ~IsHole(item) /\ item.ref = NoRef -> <<item.ins>>
                      [] OTHER -> <<[item.ins EXCEPT !.imm = target(item.ref)]>>
  IN FlattenSeq([i \in DOMAIN sk.items |-> code(i)])
-----------------------------------------------------------------------------
(* Dead writes.                                                            *)

Writes(ins)     == IF ins.op \in {"movi", "mov", "addi", "neg", "not", "ld", "ldb"} \cup ThreeRegs THEN {ins.a} ELSE {}
SetsFlags(ins)  == ins.op \in {"addi", "neg", "not", "cmp"} \cup ThreeRegs
SideEffect(ins) == ins.op \notin {"movi", "mov", "addi", "neg", "not", "ld", "ldb", "cmp", "nop"} \cup ThreeRegs

Reads(ins) ==
  CASE ins.op \in {"movi", "nop"} -> {}
    [] ins.op \in {"mov", "addi", "neg", "not", "ld", "ldb"} -> {ins.b}
    [] ins.op \in {"cmp", "st", "stb"} -> {ins.a, ins.b}
    [] ins.op \in ThreeRegs -> {ins.b, ins.c}
    [] OTHER -> {ins.a, ins.b, ins.c}

\* Mutant: the flags that the first instruction sets are forgotten.
DeadWriteNoFlags(prev, next) ==
  Writes(prev) # {} /\ ~SideEffect(prev) /\ Writes(next) = Writes(prev) /\ Writes(prev) \cap Reads(next) = {}

\* The second instruction overwrites what the first one writes.
DeadWritePair(prev, next) ==
  /\ Writes(prev) # {} /\ ~SideEffect(prev)
  /\ Writes(next) = Writes(prev) /\ Writes(prev) \cap Reads(next) = {}
  /\ SetsFlags(prev) => SetsFlags(next)

Dead(fs) == \E h \in DOMAIN fs : \E k \in 1 .. Len(fs[h]) - 1 : DeadWritePair(fs[h][k], fs[h][k + 1])
-----------------------------------------------------------------------------
(* The synthesizer.                                                        *)

MaxOf(h)      == Holes(sketch)[h].max
AlphabetOf(h) == prob.alphabets[Holes(sketch)[h].alphabet]

\* The constructor throws on a missing or an empty alphabet.
Accepts(p, sk) ==
  /\ Parses(sk)
  /\ \A hole \in ToSet(Holes(sk)) :
       hole.alphabet \in DOMAIN p.alphabets /\ (p.alphabets[hole.alphabet] = <<>> => hole.max = 0)

Passes(e, program) ==
  LET s == RunFor(e.input, program, prob.maxSteps)
  IN s.halted \in {"Halt", "EndOfProgram"} /\ GoalHolds(e.goal, s)

\* The fills that an odometer shows: each hole has l[h] of its digits.
FillsAt(l, d) == [h \in DOMAIN l |-> [k \in 1 .. l[h] |-> AlphabetOf(h)[d[Sums(l)[h - 1] + k]]]]
Shown         == FillsAt(len, digits)

Candidate == Instantiate(sketch, Shown)

\* The choices that each digit runs over.
SizesAt(l) == FlattenSeq([h \in DOMAIN l |-> [k \in 1 .. l[h] |-> Len(AlphabetOf(h))]])
Sizes      == SizesAt(len)

\* Mutant: the last choice of a digit is not tried.
TurnableShort == {p \in DOMAIN digits : digits[p] < Sizes[p] - 1}

\* The digits that have not reached their last choice; the last of them turns.
Turnable == {p \in DOMAIN digits : digits[p] < Sizes[p]}

Turned ==
  LET p == CHOOSE p \in Turnable : \A q \in Turnable : q <= p
  IN [q \in DOMAIN digits |-> CASE q < p -> digits[q] [] q = p -> digits[q] + 1 [] q > p -> 1]

\* The lengths that add up to n, in the order of distribute.
Lengths(n) == {l \in [DOMAIN Holes(sketch) -> 0 .. n] : SumOf(l) = n /\ \A h \in DOMAIN l : l[h] <= MaxOf(h)}
Precedes(l, m) == \E h \in DOMAIN l : l[h] < m[h] /\ \A g \in 1 .. h - 1 : l[g] = m[g]
Least(S) == CHOOSE l \in S : \A m \in S \ {l} : Precedes(l, m)

MaxTotal == SumOf([h \in DOMAIN Holes(sketch) |-> MaxOf(h)])

ShowLengths(l) == len' = l /\ digits' = [p \in 1 .. SumOf(l) |-> 1]

\* The next candidate.
TurnOver ==
  LET later == {l \in Lengths(total) : Precedes(len, l)}
  IN CASE Turnable # {} -> digits' = Turned /\ UNCHANGED <<total, len, phase>>
       [] Turnable = {} /\ later # {} -> ShowLengths(Least(later)) /\ UNCHANGED <<total, phase>>
       [] Turnable = {} /\ later = {} /\ total < MaxTotal ->
            total' = total + 1 /\ ShowLengths(Least(Lengths(total + 1))) /\ UNCHANGED phase
       [] OTHER -> phase' = "done" /\ UNCHANGED clock

\* A synthesizer on its examples, the state in which synthesize starts.
Construct(exs) ==
  /\ examples' = exs
  /\ order' = [i \in DOMAIN exs |-> i]
  /\ phase' = "search"
  /\ total' = 0 /\ ShowLengths([h \in DOMAIN Holes(sketch) |-> 0])
  /\ candidates' = 0 /\ pruned' = 0 /\ exhausted' = FALSE
  /\ fills' = <<>> /\ found' = {}

SearchInit ==
  /\ prob \in SketchProblems
  /\ sketch = Parse(prob.lines)
  /\ examples = prob.examples
  /\ order = [i \in DOMAIN examples |-> i]
  /\ phase = IF Accepts(prob, sketch) THEN "search" ELSE "rejected"
  /\ total = 0 /\ len = [h \in DOMAIN Holes(sketch) |-> 0] /\ digits = <<>>
  /\ candidates = 0 /\ pruned = 0 /\ exhausted = FALSE
  /\ fills = <<>> /\ found = {}

Skip == prob.prune /\ Dead(Shown)

PruneFill ==
  /\ phase = "search" /\ Skip
  /\ pruned' = pruned + 1
  /\ TurnOver
  /\ UNCHANGED <<prob, sketch, examples, order, candidates, exhausted, fills, found>>

GiveUp ==
  /\ phase = "search" /\ ~Skip /\ candidates >= prob.maxCandidates
  /\ exhausted' = TRUE /\ phase' = "done"
  /\ UNCHANGED <<prob, sketch, examples, order, clock, candidates, pruned, fills, found>>

\* Positions of the order at which a program fails.
Failures(program) == {k \in DOMAIN order : ~Passes(examples[order[k]], program)}

\* Mutant: the example that failed overwrites the first one.
ToFrontLossy(k) == [order EXCEPT ![1] = order[k]]

\* std::rotate: the example that failed is tried first from now on.
ToFront(k) == <<order[k]>> \o RemoveAt(order, k)

Try ==
  /\ phase = "search" /\ ~Skip /\ candidates < prob.maxCandidates
  /\ candidates' = candidates + 1
  /\ \E program \in {Candidate} : \E failures \in {Failures(program)} :
       \/ /\ failures # {}
          /\ order' = ToFront(CHOOSE k \in failures : \A j \in failures : k <= j)
          /\ TurnOver
          /\ UNCHANGED <<fills, found>>
       \/ /\ failures = {}
          /\ found' = {program} /\ fills' = Shown
          /\ phase' = "done"
          /\ UNCHANGED <<order, clock>>
  /\ UNCHANGED <<prob, sketch, examples, pruned, exhausted>>

SearchNext == PruneFill \/ GiveUp \/ Try
-----------------------------------------------------------------------------
(* Properties.                                                             *)

\* The fills of one hole of every length, and of all holes.
FillsOf(h)  == UNION {[1 .. n -> ToSet(AlphabetOf(h))] : n \in 0 .. MaxOf(h)}
AllFills    == LET hs == DOMAIN Holes(sketch)
               IN {fs \in [hs -> UNION {FillsOf(h) : h \in hs}] : \A h \in hs : fs[h] \in FillsOf(h)}
LengthOf(fs) == SumOf([h \in DOMAIN fs |-> Len(fs[h])])

\* SketchSynthesizer::verify
Verify(program) ==
  \A i \in DOMAIN examples :
    LET s == RunFor(examples[i].input, program, prob.maxSteps)
    IN s.halted \notin {"Fault", "Running"} /\ GoalHolds(examples[i].goal, s)

(* A search within its budget finds a program exactly if some fill of the  *)
(* sketch satisfies every example, and none with fewer instructions does,  *)
(* fills with dead writes included (Sketch.hpp: `the first solution is a   *)
(* shortest one'): pruning loses nothing, whatever order the examples are  *)
(* tried in.                                                               *)
ShortestFillIsFound ==
  phase = "done" /\ ~exhausted =>
    IF found = {} THEN \A fs \in AllFills : ~Verify(Instantiate(sketch, fs))
    ELSE /\ \A program \in found : Verify(program) /\ program = Instantiate(sketch, fills)
         /\ \A fs \in AllFills : LengthOf(fs) < total => ~Verify(Instantiate(sketch, fs))

(* The odometer shows every fill once: a search that ends without an       *)
(* answer has tried or pruned as many candidates as there are fills.       *)
EveryFillOnce ==
  phase = "done" /\ ~exhausted /\ found = {} => candidates + pruned = Cardinality(AllFills)
=============================================================================
