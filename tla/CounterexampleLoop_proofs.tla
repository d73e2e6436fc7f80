----------------------- MODULE CounterexampleLoop_proofs -----------------------
(***************************************************************************)
(* Counterexamples are new and verified programs are correct, for every    *)
(* sketch, example set, generator and goal: nothing is asked of the        *)
(* machine but that a run that has halted stays where it is.  Every fill   *)
(* of a sketch is tried once, and the program found is a shortest one,     *)
(* although fills with dead writes are skipped: a run without a dead write *)
(* goes through the same states, a place further back.                     *)
(***************************************************************************)
EXTENDS CounterexampleLoop, MachineStep_proofs, SequenceTheorems
-----------------------------------------------------------------------------
(* Runs.                                                                   *)

\* A run that has halted ends in the same state however many more turns it has.
LEMMA HaltedRunsStay ==
  ASSUME NEW s, NEW program, NEW m \in Nat, NEW n \in Nat, m <= n,
         RunFor(s, program, m).halted # "Running"
  PROVE  RunFor(s, program, n) = RunFor(s, program, m)
<1> DEFINE T == Turns(s, program, m)
           U == Turns(s, program, n)
           S == {k \in Nat : k <= m => T[k] = U[k] /\ \E t : T[k] = {t}}
           R == {k \in Nat : m + k <= n => U[m + k] = T[m]}
<1>1. /\ T[0] = {s} /\ U[0] = {s}
      /\ \A k \in 1 .. m : T[k] = {OneTurn(t, program) : t \in T[k - 1]}
      /\ \A k \in 1 .. n : U[k] = {OneTurn(t, program) : t \in U[k - 1]}
  BY TurnsFacts
<1> HIDE DEF T, U
<1>2. 0 \in S
  BY <1>1
<1>3. ASSUME NEW k \in Nat, k \in S PROVE k + 1 \in S
  <2>1. k + 1 \in Nat
    OBVIOUS
  <2>2. SUFFICES ASSUME k + 1 <= m PROVE T[k + 1] = U[k + 1] /\ \E t : T[k + 1] = {t}
    BY <2>1, Zenon
  <2>3. k + 1 \in 1 .. m /\ k + 1 \in 1 .. n /\ (k + 1) - 1 = k
    BY <2>2
  <2>4. PICK t : T[k] = {t}
    BY <1>3, <2>2
  <2>5. U[k] = {t}
    BY <1>3, <2>2, <2>4
  <2>6. T[k + 1] = {OneTurn(t, program)} /\ U[k + 1] = {OneTurn(t, program)}
    BY <1>1, <2>3, <2>4, <2>5
  <2> QED
    BY <2>6
<1>4. m \in S
  <2> HIDE DEF S
  <2> QED
    BY <1>2, <1>3, NumberInduction
<1>5. PICK last : T[m] = {last}
  BY <1>4
<1>6. RunFor(s, program, m) = last
  <2>1. RunFor(s, program, m) \in T[m]
    BY <1>5 DEF RunFor, T
  <2> QED
    BY <1>5, <2>1
<1>7. OneTurn(last, program) = last
  BY <1>6 DEF OneTurn
<1>8. 0 \in R
  BY <1>4
<1>9. ASSUME NEW k \in Nat, k \in R PROVE k + 1 \in R
  <2>1. SUFFICES ASSUME m + (k + 1) <= n PROVE U[m + (k + 1)] = T[m]
    OBVIOUS
  <2>2. m + (k + 1) \in 1 .. n /\ (m + (k + 1)) - 1 = m + k /\ m + k <= n
    BY <2>1
  <2>3. U[m + k] = {last}
    BY <1>9, <2>2, <1>5
  <2>4. U[m + (k + 1)] = {OneTurn(t, program) : t \in U[m + k]}
    BY <1>1, <2>2
  <2> QED
    BY <1>5, <1>7, <2>3, <2>4
<1>10. n - m \in R
  <2> HIDE DEF R
  <2>1. n - m \in Nat
    OBVIOUS
  <2> QED
    BY <1>8, <1>9, <2>1, NumberInduction
<1>11. U[n] = {last}
  BY <1>5, <1>10
<1>12. RunFor(s, program, n) \in U[n]
  BY <1>11 DEF RunFor, U
<1> QED
  BY <1>6, <1>11, <1>12

\* A program that passes an example meets the same input as a probe.
LEMMA PassingIsMeeting ==
  ASSUME prob \in SketchProblems, NEW e, NEW program, Passes(e, program)
  PROVE  Meets(e, program)
<1> DEFINE s == RunFor(e.input, program, prob.maxSteps)
<1>1. prob.maxSteps \in Nat /\ prob.testSteps \in Nat /\ prob.maxSteps <= prob.testSteps
  BY SketchProblemsAssumption, LoopAssumption DEF IsSketchProblem
<1>2. s.halted \in {"Halt", "EndOfProgram"} /\ GoalHolds(e.goal, s)
  BY DEF Passes
<1>3. RunFor(e.input, program, prob.testSteps) = s
  BY <1>1, <1>2, HaltedRunsStay
<1> QED
  BY <1>2, <1>3 DEF Meets
-----------------------------------------------------------------------------
(* Lists: an example joins, an order is changed.                           *)

\* Seq of the values it has: all that a list of examples needs to be.
LEMMA Joining ==
  ASSUME NEW list, list \in Seq(ToSet(list)), NEW e
  PROVE  /\ Append(list, e) \in Seq(ToSet(Append(list, e)))
         /\ Len(list) \in Nat /\ Len(Append(list, e)) = Len(list) + 1
         /\ DOMAIN list = 1 .. Len(list) /\ DOMAIN Append(list, e) = 1 .. Len(list) + 1
         /\ \A i \in DOMAIN list : Append(list, e)[i] = list[i]
         /\ Append(list, e)[Len(list) + 1] = e
<1> DEFINE X == ToSet(list) \cup {e}
<1>1. list \in Seq(X)
  BY SeqMonotonic
<1> HIDE DEF X
<1>2. e \in X
  BY DEF X
<1>3. /\ Append(list, e) \in Seq(X) /\ Len(list) \in Nat /\ Len(Append(list, e)) = Len(list) + 1
      /\ \A i \in 1 .. Len(list) : Append(list, e)[i] = list[i]
      /\ Append(list, e)[Len(list) + 1] = e
      /\ DOMAIN list = 1 .. Len(list) /\ DOMAIN Append(list, e) = 1 .. Len(list) + 1
  BY <1>1, <1>2, AppendProperties, LenProperties
<1>4. Append(list, e) \in Seq(ToSet(Append(list, e)))
  <2> DEFINE long == Append(list, e)
  <2>1. long \in Seq(X) /\ long = [i \in 1 .. Len(long) |-> long[i]] /\ Len(long) \in Nat /\ DOMAIN long = 1 .. Len(long)
    BY <1>3, SeqDef, LenProperties
  <2> HIDE DEF long
  <2>2. \A i \in 1 .. Len(long) : long[i] \in ToSet(long)
    BY <2>1 DEF ToSet
  <2>3. long \in [1 .. Len(long) -> ToSet(long)]
    BY <2>1, <2>2
  <2>4. long \in Seq(ToSet(long))
    BY <2>1, <2>3, SeqDef
  <2> QED
    BY <2>4 DEF long
<1> QED
  BY <1>3, <1>4

\* Moving a position to the front of an order loses none.
LEMMA FrontKeepsAll ==
  ASSUME NEW X, order \in Seq(X), NEW k \in DOMAIN order
  PROVE  ToFront(k) \in Seq(X) /\ ToSet(ToFront(k)) = ToSet(order)
<1> DEFINE n == Len(order)
           before == SubSeq(order, 1, k - 1)
           after == SubSeq(order, k + 1, n)
           rest == before \o after
<1>1. n \in Nat /\ DOMAIN order = 1 .. n /\ k \in 1 .. n /\ \A i \in 1 .. n : order[i] \in X
  BY LenProperties, ElementOfSeq
<1> HIDE DEF n
<1>2. /\ before \in Seq(X) /\ Len(before) = k - 1
      /\ \A i \in 1 .. k - 1 : before[i] = order[i]
  <2>1. 1 \in Int /\ k - 1 \in Int /\ \A i \in 1 .. k - 1 : order[i] \in X
    BY <1>1
  <2>2. /\ before \in Seq(X) /\ Len(before) = IF 1 <= k - 1 THEN (k - 1) - 1 + 1 ELSE 0
        /\ \A i \in 1 .. (k - 1) - 1 + 1 : before[i] = order[1 + i - 1]
    BY <2>1, SubSeqProperties
  <2> QED
    BY <2>2, <1>1
<1>3. /\ after \in Seq(X) /\ Len(after) = n - k
      /\ \A i \in 1 .. n - k : after[i] = order[k + i]
  <2>1. k + 1 \in Int /\ n \in Int /\ \A i \in k + 1 .. n : order[i] \in X
    BY <1>1
  <2>2. /\ after \in Seq(X) /\ Len(after) = IF k + 1 <= n THEN n - (k + 1) + 1 ELSE 0
        /\ \A i \in 1 .. n - (k + 1) + 1 : after[i] = order[(k + 1) + i - 1]
    BY <2>1, SubSeqProperties
  <2>3. ASSUME NEW i \in 1 .. n - k PROVE after[i] = order[k + i]
    <3>1. i \in 1 .. n - (k + 1) + 1 /\ (k + 1) + i - 1 = k + i
      BY <1>1
    <3> QED
      BY <2>2, <3>1
  <2> QED
    BY <2>2, <2>3, <1>1
<1> HIDE DEF before, after
<1>4. /\ rest \in Seq(X) /\ Len(rest) = n - 1
      /\ \A i \in 1 .. n - 1 : rest[i] = IF i <= k - 1 THEN order[i] ELSE order[i + 1]
  <2>1. /\ rest \in Seq(X) /\ Len(rest) = Len(before) + Len(after)
        /\ \A i \in 1 .. Len(before) + Len(after) :
             rest[i] = IF i <= Len(before) THEN before[i] ELSE after[i - Len(before)]
    BY <1>2, <1>3, ConcatProperties
  <2>2. Len(before) = k - 1 /\ Len(before) + Len(after) = n - 1
    BY <1>1, <1>2, <1>3
  <2>3. ASSUME NEW i \in 1 .. n - 1 PROVE rest[i] = IF i <= k - 1 THEN order[i] ELSE order[i + 1]
    <3>1. CASE i <= k - 1
      BY <1>1, <1>2, <2>1, <2>2, <3>1
    <3>2. CASE ~(i <= k - 1)
      <4>1. i - (k - 1) \in 1 .. n - k /\ k + (i - (k - 1)) = i + 1
        BY <1>1, <3>2
      <4>2. after[i - (k - 1)] = order[i + 1]
        BY <1>3, <4>1
      <4> QED
        BY <2>1, <2>2, <3>2, <4>2
    <3> QED
      BY <3>1, <3>2
  <2> QED
    BY <2>1, <2>2, <2>3
<1> HIDE DEF rest
<1> DEFINE f == <<order[k]>> \o rest
<1>5. <<order[k]>> \in Seq(X) /\ Len(<<order[k]>>) = 1 /\ <<order[k]>>[1] = order[k]
  BY <1>1
<1>6. /\ f \in Seq(X) /\ Len(f) = 1 + (n - 1)
      /\ \A i \in 1 .. 1 + (n - 1) : f[i] = IF i <= 1 THEN <<order[k]>>[i] ELSE rest[i - 1]
  BY <1>4, <1>5, ConcatProperties
<1> HIDE DEF f
<1>7. DOMAIN f = 1 .. n
  BY <1>1, <1>6, LenProperties
<1>8. /\ f[1] = order[k]
      /\ \A i \in 2 .. n : f[i] = IF i <= k THEN order[i - 1] ELSE order[i]
  <2>1. f[1] = order[k]
    BY <1>1, <1>5, <1>6
  <2>2. ASSUME NEW i \in 2 .. n PROVE f[i] = IF i <= k THEN order[i - 1] ELSE order[i]
    <3>1. i \in 1 .. 1 + (n - 1) /\ ~(i <= 1) /\ i - 1 \in 1 .. n - 1 /\ (i - 1) + 1 = i /\ (i - 1 <= k - 1 <=> i <= k)
      BY <1>1
    <3>2. f[i] = rest[i - 1]
      BY <1>6, <3>1
    <3>3. rest[i - 1] = IF i - 1 <= k - 1 THEN order[i - 1] ELSE order[(i - 1) + 1]
      BY <1>4, <3>1
    <3> QED
      BY <3>1, <3>2, <3>3
  <2> QED
    BY <2>1, <2>2
<1>9. ASSUME NEW i \in 1 .. n PROVE f[i] \in ToSet(order)
  <2>1. \E j \in 1 .. n : f[i] = order[j]
    <3>1. CASE i = 1
      BY <1>1, <1>8, <3>1
    <3>2. CASE i # 1 /\ i <= k
      <4>1. i \in 2 .. n /\ i - 1 \in 1 .. n /\ f[i] = order[i - 1]
        BY <1>1, <1>8, <3>2
      <4> QED
        BY <4>1
    <3>3. CASE i # 1 /\ ~(i <= k)
      <4>1. i \in 2 .. n /\ f[i] = order[i]
        BY <1>1, <1>8, <3>3
      <4> QED
        BY <4>1
    <3> QED
      BY <3>1, <3>2, <3>3
  <2> QED
    BY <1>1, <2>1 DEF ToSet
<1>10. ASSUME NEW j \in 1 .. n PROVE order[j] \in ToSet(f)
  <2>1. \E i \in 1 .. n : order[j] = f[i]
    <3>1. CASE j = k
      BY <1>1, <1>8, <3>1
    <3>2. CASE j < k
      <4>1. j + 1 \in 2 .. n /\ j + 1 <= k /\ (j + 1) - 1 = j
        BY <1>1, <3>2
      <4>2. f[j + 1] = order[j]
        BY <1>8, <4>1
      <4> QED
        BY <4>1, <4>2
    <3>3. CASE k < j
      <4>1. j \in 2 .. n /\ ~(j <= k)
        BY <1>1, <3>3
      <4>2. f[j] = order[j]
        BY <1>8, <4>1
      <4> QED
        BY <4>2
    <3> QED
      BY <1>1, <3>1, <3>2, <3>3
  <2> QED
    BY <1>7, <2>1 DEF ToSet
<1>11. ToSet(f) = ToSet(order)
  BY <1>1, <1>7, <1>9, <1>10 DEF ToSet
<1>12. ToFront(k) = f
  BY DEF ToFront, RemoveAt, f, rest, before, after, n
<1> QED
  BY <1>6, <1>11, <1>12
-----------------------------------------------------------------------------
(* The loop.                                                               *)

\* What the synthesizer of a round keeps: it tries every example, and what it finds passes them all.
SynthesizerInv ==
  /\ examples \in Seq(ToSet(examples))
  /\ order \in Seq(DOMAIN examples) /\ ToSet(order) = DOMAIN examples
  /\ \A program \in found : \A i \in DOMAIN examples : Passes(examples[i], program)
  /\ \A program, other \in found : program = other

\* The synthesizer has the examples of the loop, but for one that the last round has added.
ExamplesInv ==
  /\ ex \in Seq(ToSet(ex)) /\ Len(prob.examples) <= Len(ex)
  /\ \/ ex = examples
     \/ /\ stage \in {"validate", "finished"} /\ rounds = MaxRounds
        /\ \E e \in ToSet(ex) : ex = Append(examples, e)
  /\ stage \in {"synthesize", "probe"} => rounds < MaxRounds /\ passed = 0

\* Held-out inputs are counted, and a program that has passed them all meets their edge cases.
ValidationInv ==
  /\ stage = "validate" /\ passed = tried => \A program \in found :
       \A i \in 1 .. Len(prob.edges) : i <= tried => Meets(prob.edges[i], program)
  /\ stage = "validate" => passed <= tried
  /\ outcome.verified => stage = "finished" /\ \A program \in found :
       \A i \in 1 .. Len(prob.edges) : i <= Cases => Meets(prob.edges[i], program)

LoopInv ==
  /\ prob \in SketchProblems
  /\ rounds \in Nat /\ passed \in Nat /\ tried \in Nat
  /\ outcome \in [solved : BOOLEAN, verified : BOOLEAN]
  /\ SynthesizerInv /\ ExamplesInv /\ ValidationInv
  /\ CounterexamplesAreNew

\* The order in which a new synthesizer tries its examples.
LEMMA FirstOrder ==
  ASSUME NEW list, list \in Seq(ToSet(list))
  PROVE  /\ [i \in DOMAIN list |-> i] \in Seq(DOMAIN list)
         /\ ToSet([i \in DOMAIN list |-> i]) = DOMAIN list
<1> DEFINE D == DOMAIN list
           id == [i \in D |-> i]
<1>1. D = 1 .. Len(list) /\ Len(list) \in Nat
  BY LenProperties
<1>2. id \in [1 .. Len(list) -> D] /\ DOMAIN id = D /\ \A i \in D : id[i] = i
  BY <1>1
<1> HIDE DEF id, D
<1>3. id \in Seq(D)
  BY <1>1, <1>2, SeqDef
<1>4. ToSet(id) = D
  BY <1>2 DEF ToSet
<1> QED
  BY <1>3, <1>4 DEF id, D

\* The tests depend on the problem only.
LEMMA SameTests ==
  ASSUME UNCHANGED prob
  PROVE  \A e, program : /\ Passes(e, program)' <=> Passes(e, program)
                         /\ Meets(e, program)' <=> Meets(e, program)
BY DEF Passes, Meets

\* The loop starts with the examples of the problem.
LEMMA LoopInit == Init => LoopInv
<1> SUFFICES ASSUME Init PROVE LoopInv
  OBVIOUS
<1>1. /\ prob \in SketchProblems /\ examples = prob.examples /\ ex = prob.examples /\ found = {}
      /\ order = [i \in DOMAIN examples |-> i]
      /\ stage = "synthesize" /\ rounds = 0 /\ tried = 0 /\ passed = 0
      /\ outcome = [solved |-> FALSE, verified |-> FALSE]
  BY DEF Init, SearchInit
<1>2. ex \in Seq(ToSet(ex)) /\ Len(ex) \in Nat /\ DOMAIN ex = 1 .. Len(ex)
  BY <1>1, LoopAssumption, LenProperties
<1>3. SynthesizerInv
  BY <1>1, <1>2, FirstOrder DEF SynthesizerInv
<1>4. ExamplesInv
  BY <1>1, <1>2, LoopAssumption DEF ExamplesInv
<1>5. ValidationInv
  BY <1>1 DEF ValidationInv
<1>6. CounterexamplesAreNew
  BY <1>1, <1>2 DEF CounterexamplesAreNew
<1> QED
  BY <1>1, <1>3, <1>4, <1>5, <1>6 DEF LoopInv

\* A step of the synthesizer: a program is found only if no example is left that it fails.
LEMMA SearchHolds ==
  ASSUME LoopInv, Search
  PROVE  LoopInv'
<1>1. /\ UNCHANGED <<prob, examples, ex, stage, rounds, tried, passed, outcome>>
      /\ stage = "synthesize"
  BY DEF Search, SearchNext, PruneFill, GiveUp, Try, loopVars
<1>2. SynthesizerInv'
  <2>1. CASE PruneFill \/ GiveUp
    <3>1. UNCHANGED <<prob, examples, order, found>>
      BY <2>1 DEF PruneFill, GiveUp
    <3> QED
      BY <3>1, SameTests DEF LoopInv, SynthesizerInv
  <2>2. CASE Try
    <3>1. PICK program \in {Candidate} : \E failures \in {Failures(program)} :
            \/ /\ failures # {}
               /\ order' = ToFront(CHOOSE k \in failures : \A j \in failures : k <= j)
               /\ UNCHANGED found
            \/ /\ failures = {}
               /\ found' = {program}
               /\ UNCHANGED order
      BY <2>2 DEF Try
    <3> DEFINE failures == Failures(program)
    <3>2. failures \subseteq DOMAIN order
      BY DEF Failures
    <3>3. DOMAIN order \subseteq Nat
      BY LenProperties DEF LoopInv, SynthesizerInv
    <3>4. CASE failures # {} /\ order' = ToFront(CHOOSE k \in failures : \A j \in failures : k <= j) /\ UNCHANGED found
      <4> HIDE DEF failures
      <4>1. \E k \in failures : \A j \in failures : k <= j
        BY <3>2, <3>3, <3>4, LeastNumber
      <4>2. PICK i : i = CHOOSE k \in failures : \A j \in failures : k <= j
        OBVIOUS
      <4>3. i \in DOMAIN order /\ order' = ToFront(i)
        BY <3>2, <3>4, <4>1, <4>2
      <4>4. order' \in Seq(DOMAIN examples) /\ ToSet(order') = ToSet(order)
        BY <4>3, FrontKeepsAll DEF LoopInv, SynthesizerInv
      <4> QED
        BY <1>1, <3>4, <4>4, SameTests DEF LoopInv, SynthesizerInv
    <3>5. CASE failures = {} /\ found' = {program} /\ UNCHANGED order
      <4>1. ASSUME NEW i \in DOMAIN examples PROVE Passes(examples[i], program)
        <5>1. PICK k \in DOMAIN order : order[k] = i
          BY DEF LoopInv, SynthesizerInv, ToSet
        <5> QED
          BY <3>5, <5>1 DEF Failures
      <4> QED
        BY <1>1, <3>5, <4>1, SameTests DEF LoopInv, SynthesizerInv
    <3> QED
      BY <3>1, <3>4, <3>5
  <2> QED
    BY <2>1, <2>2 DEF Search, SearchNext
<1>3. ExamplesInv'
  BY <1>1 DEF LoopInv, ExamplesInv
<1>4. ValidationInv'
  BY <1>1 DEF LoopInv, ValidationInv
<1>5. CounterexamplesAreNew'
  BY <1>1 DEF LoopInv, CounterexamplesAreNew
<1> QED
  BY <1>1, <1>2, <1>3, <1>4, <1>5 DEF LoopInv

\* What the steps of the loop that leave the synthesizer and the examples alone keep.
LEMMA SameRound ==
  ASSUME LoopInv, UNCHANGED <<prob, examples, order, found, ex>>
  PROVE  SynthesizerInv' /\ CounterexamplesAreNew' /\ prob' \in SketchProblems
<1>1. SynthesizerInv'
  BY SameTests DEF LoopInv, SynthesizerInv
<1>2. CounterexamplesAreNew'
  BY DEF LoopInv, CounterexamplesAreNew
<1> QED
  BY <1>1, <1>2 DEF LoopInv

\* The loop ends without a program, or a program is to be probed.
LEMMA TurnsHold ==
  ASSUME LoopInv, Throw \/ NoFill \/ StartProbe \/ ProbePasses
  PROVE  LoopInv'
<1>1. UNCHANGED <<prob, examples, order, found, ex, rounds, passed, outcome>>
  BY DEF Throw, NoFill, StartProbe, ProbePasses, searchVars
<1>2. stage' \in {"finished", "probe"} /\ stage \in {"synthesize", "probe"} /\ tried' \in Nat
  BY DEF Throw, NoFill, StartProbe, ProbePasses, LoopInv
<1>3. ~outcome.verified
  BY <1>2 DEF LoopInv, ValidationInv
<1>4. ExamplesInv'
  BY <1>1, <1>2 DEF LoopInv, ExamplesInv
<1>5. ValidationInv'
  BY <1>1, <1>2, <1>3 DEF ValidationInv
<1> QED
  BY <1>1, <1>2, <1>4, <1>5, SameRound DEF LoopInv

\* At the start of the validation nothing has been tried.
LEMMA LeaveHolds ==
  ASSUME LoopInv, Leave, stage = "probe", UNCHANGED <<prob, passed>>
  PROVE  /\ ValidationInv' /\ outcome' \in [solved : BOOLEAN, verified : BOOLEAN]
         /\ stage' = "validate" /\ tried' = 0
<1>1. stage' = "validate" /\ tried' = 0 /\ outcome' = [outcome EXCEPT !.solved = TRUE] /\ passed' = 0
  BY DEF Leave, LoopInv, ExamplesInv
<1>2. ~outcome.verified /\ outcome \in [solved : BOOLEAN, verified : BOOLEAN]
  BY DEF LoopInv, ValidationInv
<1>3. outcome'.verified = outcome.verified /\ outcome' \in [solved : BOOLEAN, verified : BOOLEAN]
  BY <1>1, <1>2
<1>4. ASSUME NEW i \in 1 .. Len(prob.edges), i <= 0 PROVE FALSE
  BY <1>4, LenProperties, LoopAssumption DEF LoopInv
<1>5. ValidationInv'
  BY <1>1, <1>2, <1>3, <1>4 DEF ValidationInv
<1> QED
  BY <1>1, <1>3, <1>5

\* A counterexample is new, as the program passes every example there is.
LEMMA CounterexampleHolds ==
  ASSUME LoopInv, Counterexample
  PROVE  LoopInv'
<1>1. /\ stage = "probe" /\ rounds' = rounds + 1 /\ UNCHANGED <<prob, passed>>
      /\ \E e : (\E program \in found : ~Meets(e, program)) /\ ex' = Append(ex, e)
      /\ \/ rounds + 1 < MaxRounds /\ Construct(ex') /\ stage' = "synthesize" /\ UNCHANGED <<tried, outcome>>
         \/ ~(rounds + 1 < MaxRounds) /\ Leave /\ UNCHANGED searchVars
  BY DEF Counterexample, searchVars
<1>2. PICK e : (\E program \in found : ~Meets(e, program)) /\ ex' = Append(ex, e)
  BY <1>1
<1>3. ex = examples /\ rounds < MaxRounds /\ rounds \in Nat /\ MaxRounds \in Nat /\ ex \in Seq(ToSet(ex))
  BY <1>1, LoopAssumption DEF LoopInv, ExamplesInv
<1>4. /\ ex' \in Seq(ToSet(ex')) /\ Len(ex) \in Nat /\ Len(ex') = Len(ex) + 1
      /\ DOMAIN ex = 1 .. Len(ex) /\ DOMAIN ex' = 1 .. Len(ex) + 1
      /\ \A i \in DOMAIN ex : ex'[i] = ex[i]
      /\ ex'[Len(ex) + 1] = e
  BY <1>2, <1>3, Joining
<1>5. ASSUME NEW i \in DOMAIN ex PROVE ex[i] # e
  <2>1. PICK program \in found : ~Meets(e, program)
    BY <1>2
  <2>2. Passes(ex[i], program)
    BY <1>3 DEF LoopInv, SynthesizerInv
  <2>3. Meets(ex[i], program)
    BY <2>2, PassingIsMeeting DEF LoopInv
  <2> QED
    BY <2>1, <2>3
<1>6. Len(prob.examples) \in Nat /\ Len(prob.examples) <= Len(ex)
  BY LoopAssumption, LenProperties DEF LoopInv, ExamplesInv
<1>7. CounterexamplesAreNew'
  <2> SUFFICES ASSUME NEW i \in DOMAIN ex', NEW j \in DOMAIN ex', i < j, j > Len(prob.examples)
               PROVE  ex'[i] # ex'[j]
    BY <1>1 DEF CounterexamplesAreNew
  <2>1. CASE j = Len(ex) + 1
    <3>1. i \in DOMAIN ex
      BY <1>4, <2>1
    <3> QED
      BY <1>4, <1>5, <2>1, <3>1
  <2>2. CASE j # Len(ex) + 1
    <3>1. i \in DOMAIN ex /\ j \in DOMAIN ex
      BY <1>4, <2>2
    <3> QED
      BY <1>4, <3>1 DEF LoopInv, CounterexamplesAreNew
  <2> QED
    BY <2>1, <2>2
<1>8. Len(prob'.examples) <= Len(ex') /\ rounds' \in Nat /\ prob' \in SketchProblems /\ passed' \in Nat
  BY <1>1, <1>3, <1>4, <1>6 DEF LoopInv
<1>9. CASE rounds + 1 < MaxRounds /\ Construct(ex') /\ stage' = "synthesize" /\ UNCHANGED <<tried, outcome>>
  <2>1. examples' = ex' /\ found' = {} /\ order' = [i \in DOMAIN ex' |-> i]
    BY <1>9 DEF Construct
  <2>2. SynthesizerInv'
    BY <1>4, <2>1, FirstOrder DEF SynthesizerInv
  <2>3. ExamplesInv'
    BY <1>1, <1>3, <1>4, <1>8, <1>9, <2>1 DEF LoopInv, ExamplesInv
  <2>4. ~outcome.verified
    BY <1>1 DEF LoopInv, ValidationInv
  <2>5. ValidationInv'
    BY <1>9, <2>4 DEF ValidationInv
  <2> QED
    BY <1>7, <1>8, <1>9, <2>2, <2>3, <2>5 DEF LoopInv
<1>10. CASE ~(rounds + 1 < MaxRounds) /\ Leave /\ UNCHANGED searchVars
  <2>1. UNCHANGED <<examples, order, found>> /\ rounds' = MaxRounds
    BY <1>1, <1>3, <1>10 DEF searchVars
  <2>2. SynthesizerInv'
    BY <1>1, <2>1, SameTests DEF LoopInv, SynthesizerInv
  <2>3. /\ ValidationInv' /\ outcome' \in [solved : BOOLEAN, verified : BOOLEAN]
        /\ stage' = "validate" /\ tried' = 0
    BY <1>1, <1>10, LeaveHolds
  <2>4. e \in ToSet(ex')
    BY <1>4 DEF ToSet
  <2>5. ExamplesInv'
    BY <1>2, <1>3, <1>4, <1>8, <2>1, <2>3, <2>4 DEF ExamplesInv
  <2> QED
    BY <1>7, <1>8, <2>2, <2>3, <2>5 DEF LoopInv
<1> QED
  BY <1>1, <1>9, <1>10

\* The last round has found no counterexample.
LEMMA NoCounterexampleHolds ==
  ASSUME LoopInv, NoCounterexample
  PROVE  LoopInv'
<1>1. stage = "probe" /\ Leave /\ UNCHANGED <<prob, examples, order, found, ex, rounds, passed>>
  BY DEF NoCounterexample, searchVars
<1>2. /\ ValidationInv' /\ outcome' \in [solved : BOOLEAN, verified : BOOLEAN]
      /\ stage' = "validate" /\ tried' = 0
  BY <1>1, LeaveHolds
<1>3. ExamplesInv'
  BY <1>1, <1>2 DEF LoopInv, ExamplesInv
<1> QED
  BY <1>1, <1>2, <1>3, SameRound DEF LoopInv

\* One held-out input: while the edge cases last, it is the next of them.
LEMMA ValidateHolds ==
  ASSUME LoopInv, Validate
  PROVE  LoopInv'
<1>1. /\ stage = "validate" /\ stage' = "validate" /\ tried < Cases /\ tried' = tried + 1
      /\ UNCHANGED <<prob, examples, order, found, ex, rounds, outcome>>
  BY DEF Validate, searchVars
<1>2. PICK e \in HeldOut, program \in found : passed' = passed + (IF Meets(e, program) THEN 1 ELSE 0)
  BY DEF Validate
<1>3. passed \in Nat /\ tried \in Nat /\ passed <= tried /\ Len(prob.edges) \in Nat
  BY <1>1, LoopAssumption, LenProperties DEF LoopInv, ValidationInv
<1>4. passed' \in Nat /\ tried' \in Nat /\ passed' <= tried'
  BY <1>1, <1>2, <1>3
<1>5. ASSUME passed' = tried', NEW other \in found, NEW i \in 1 .. Len(prob.edges), i <= tried + 1
      PROVE  Meets(prob.edges[i], other)
  <2>1. passed = tried /\ Meets(e, program)
    BY <1>1, <1>2, <1>3, <1>5
  <2>2. other = program
    BY DEF LoopInv, SynthesizerInv
  <2>3. CASE i <= tried
    BY <1>1, <2>1, <2>3 DEF LoopInv, ValidationInv
  <2>4. CASE i = tried + 1
    <3>1. e = prob.edges[i]
      BY <1>2, <1>3, <2>4 DEF HeldOut, Drawn
    <3> QED
      BY <2>1, <2>2, <3>1
  <2> QED
    BY <1>3, <1>5, <2>3, <2>4
<1>6. ~outcome.verified
  BY <1>1 DEF LoopInv, ValidationInv
<1>7. ValidationInv'
  BY <1>1, <1>4, <1>5, <1>6, SameTests DEF ValidationInv
<1>8. ExamplesInv'
  BY <1>1 DEF LoopInv, ExamplesInv
<1> QED
  BY <1>1, <1>4, <1>7, <1>8, SameRound DEF LoopInv

\* The program is verified if it has passed all.
LEMMA RecordHolds ==
  ASSUME LoopInv, Record
  PROVE  LoopInv'
<1>1. /\ stage = "validate" /\ stage' = "finished" /\ tried = Cases
      /\ outcome' = [outcome EXCEPT !.verified = outcome.solved /\ tried > 0 /\ passed = tried]
      /\ UNCHANGED <<prob, examples, order, found, ex, rounds, tried, passed>>
  BY DEF Record, searchVars
<1>2. outcome \in [solved : BOOLEAN, verified : BOOLEAN]
  BY DEF LoopInv
<1>3. /\ outcome' \in [solved : BOOLEAN, verified : BOOLEAN]
      /\ outcome'.verified => passed = tried
  BY <1>1, <1>2
<1>4. ValidationInv'
  BY <1>1, <1>3, SameTests DEF LoopInv, ValidationInv
<1>5. ExamplesInv'
  BY <1>1 DEF LoopInv, ExamplesInv
<1> QED
  BY <1>1, <1>3, <1>4, <1>5, SameRound DEF LoopInv

\* Every step keeps the invariant.
LEMMA LoopStep == LoopInv /\ [Next]_vars => LoopInv'
<1> SUFFICES ASSUME LoopInv, [Next]_vars PROVE LoopInv'
  OBVIOUS
<1>1. CASE UNCHANGED vars
  <2>1. UNCHANGED <<prob, examples, order, found, ex, stage, rounds, tried, passed, outcome>>
    BY <1>1 DEF vars, searchVars, loopVars
  <2>2. ExamplesInv'
    BY <2>1 DEF LoopInv, ExamplesInv
  <2>3. ValidationInv'
    BY <2>1, SameTests DEF LoopInv, ValidationInv
  <2> QED
    BY <2>1, <2>2, <2>3, SameRound DEF LoopInv
<1> QED
  BY <1>1, SearchHolds, TurnsHold, CounterexampleHolds, NoCounterexampleHolds, ValidateHolds, RecordHolds
  DEF Next
-----------------------------------------------------------------------------
(* The theorems.                                                           *)

(* run_sketch never adds an input to the training examples that is one of  *)
(* them: the program found passes those, and goes on to do so with the     *)
(* steps that a probe is allowed.                                          *)
THEOREM CounterexamplesStayNew == Spec => []CounterexamplesAreNew
<1>1. LoopInv => CounterexamplesAreNew
  BY DEF LoopInv
<1> QED
  BY <1>1, LoopInit, LoopStep, PTL DEF Spec

(* A program that run_sketch calls verified meets every edge case of the   *)
(* held-out inputs, as the generator that validates it starts anew, and    *)
(* passes every example but the one that the last round may have added.    *)
THEOREM VerifiedStaysCorrect == Spec => []VerifiedIsCorrect
<1>1. LoopInv => VerifiedIsCorrect
  <2> SUFFICES ASSUME LoopInv, outcome.verified, NEW program \in found PROVE
        /\ \A i \in 1 .. Len(prob.edges) : i <= Cases => Meets(prob.edges[i], program)
        /\ \A i \in DOMAIN ex : ~(rounds = MaxRounds /\ i = Len(ex)) => Passes(ex[i], program)
    BY DEF VerifiedIsCorrect
  <2>1. \A i \in 1 .. Len(prob.edges) : i <= Cases => Meets(prob.edges[i], program)
    BY DEF LoopInv, ValidationInv
  <2>2. ASSUME NEW i \in DOMAIN ex, ~(rounds = MaxRounds /\ i = Len(ex)) PROVE Passes(ex[i], program)
    <3>1. CASE ex = examples
      BY <3>1 DEF LoopInv, SynthesizerInv
    <3>2. CASE ex # examples
      <4>1. rounds = MaxRounds /\ \E e : ex = Append(examples, e)
        BY <3>2 DEF LoopInv, ExamplesInv
      <4>2. PICK e : ex = Append(examples, e)
        BY <4>1
      <4>3. /\ Len(examples) \in Nat /\ Len(ex) = Len(examples) + 1
            /\ DOMAIN examples = 1 .. Len(examples) /\ DOMAIN ex = 1 .. Len(examples) + 1
            /\ \A j \in DOMAIN examples : ex[j] = examples[j]
        BY <4>2, Joining DEF LoopInv, SynthesizerInv
      <4>4. i \in DOMAIN examples
        BY <2>2, <4>1, <4>3
      <4> QED
        BY <4>3, <4>4 DEF LoopInv, SynthesizerInv
    <3> QED
      BY <3>1, <3>2
  <2> QED
    BY <2>1, <2>2
<1> QED
  BY <1>1, LoopInit, LoopStep, PTL DEF Spec
-----------------------------------------------------------------------------
(* Sums of the numbers of a sequence.                                      *)

\* A sequence is a function on its positions.
LEMMA SeqIs ==
  ASSUME NEW X, NEW n \in Nat, NEW s \in [1 .. n -> X]
  PROVE  s \in Seq(X) /\ Len(s) = n /\ DOMAIN s = 1 .. n
<1>1. s \in Seq(X)
  BY SeqDef
<1> QED
  BY <1>1, LenProperties

(* Running sums begin at zero and add one number at a time.                *)
LEMMA SumsAre ==
  ASSUME NEW n \in Nat, NEW l \in [1 .. n -> Int]
  PROVE  /\ Len(l) = n /\ Sums(l) \in [0 .. n -> Int] /\ Sums(l)[0] = 0
         /\ \A i \in 1 .. n : Sums(l)[i] = Sums(l)[i - 1] + l[i]
         /\ SumOf(l) = Sums(l)[n]
<1>1. Len(l) = n
  BY SeqIs
<1> DEFINE step == [i \in 1 .. n |-> [x \in Int |-> x + l[i]]]
           Rule(f) == f = [i \in 0 .. n |-> IF i = 0 THEN 0 ELSE f[i - 1] + l[i]]
           sum == CHOOSE f : Rule(f)
<1>2. step \in Steps(n, Int)
  BY DEF Steps
<1>3. PICK f \in [0 .. n -> Int] : f[0] = 0 /\ \A k \in 1 .. n : f[k] = step[k][f[k - 1]]
  <2> HIDE DEF step
  <2>1. PICK X : X = Int
    OBVIOUS
  <2>2. step \in Steps(n, X) /\ 0 \in X
    BY <1>2, <2>1
  <2>3. \E f \in [0 .. n -> X] : f[0] = 0 /\ \A k \in 1 .. n : f[k] = step[k][f[k - 1]]
    BY <2>2, Recursion
  <2> QED
    BY <2>1, <2>3
<1>4. Rule(f)
  <2>1. ASSUME NEW i \in 0 .. n PROVE f[i] = IF i = 0 THEN 0 ELSE f[i - 1] + l[i]
    <3>1. CASE i = 0
      BY <1>3, <3>1
    <3>2. CASE i # 0
      <4>1. i \in 1 .. n /\ i - 1 \in 0 .. n
        BY <3>2
      <4>2. f[i] = step[i][f[i - 1]] /\ f[i - 1] \in Int
        BY <1>3, <4>1
      <4> QED
        BY <3>2, <4>1, <4>2
    <3> QED
      BY <3>1, <3>2
  <2> QED
    BY <1>3, <2>1
<1>5. Sums(l) = sum
  BY <1>1 DEF Sums
<1>6. Rule(sum)
  <2> HIDE DEF Rule
  <2> QED
    BY <1>4
<1> HIDE DEF sum
<1>7. sum = [i \in 0 .. n |-> IF i = 0 THEN 0 ELSE sum[i - 1] + l[i]]
  BY <1>6
<1>8. sum[0] = 0 /\ \A i \in 1 .. n : sum[i] = sum[i - 1] + l[i]
  BY <1>7
<1>9. \A i \in 0 .. n : sum[i] = f[i]
  <2> DEFINE S == {i \in Nat : i <= n => sum[i] = f[i]}
  <2>1. 0 \in S
    BY <1>3, <1>8
  <2>2. ASSUME NEW i \in Nat, i \in S PROVE i + 1 \in S
    <3>1. SUFFICES ASSUME i + 1 <= n PROVE sum[i + 1] = f[i + 1]
      OBVIOUS
    <3>2. i + 1 \in 1 .. n /\ (i + 1) - 1 = i /\ i \in 0 .. n /\ sum[i] = f[i]
      BY <2>2, <3>1
    <3>3. f[i + 1] = f[i] + l[i + 1]
      BY <1>3, <3>2
    <3> QED
      BY <1>8, <3>2, <3>3
  <2> HIDE DEF S
  <2>3. Nat \subseteq S
    BY <2>1, <2>2, NumberInduction
  <2> QED
    BY <2>3 DEF S
<1>10. sum = f
  BY <1>3, <1>7, <1>9
<1> QED
  BY <1>1, <1>3, <1>5, <1>8, <1>10 DEF SumOf

\* Sums of lengths grow.
LEMMA SumsGrow ==
  ASSUME NEW n \in Nat, NEW l \in [1 .. n -> Nat]
  PROVE  /\ Sums(l) \in [0 .. n -> Nat] /\ SumOf(l) \in Nat
         /\ \A i, j \in 0 .. n : i <= j => Sums(l)[i] <= Sums(l)[j]
<1> DEFINE f == Sums(l)
<1>1. f \in [0 .. n -> Int] /\ f[0] = 0 /\ (\A i \in 1 .. n : f[i] = f[i - 1] + l[i]) /\ SumOf(l) = f[n]
  <2>1. l \in [1 .. n -> Int]
    OBVIOUS
  <2> QED
    BY <2>1, SumsAre
<1> HIDE DEF f
<1> DEFINE S == {j \in Nat : j <= n => f[j] \in Nat /\ \A i \in 0 .. j : f[i] <= f[j]}
<1>2. 0 \in S
  BY <1>1
<1>3. ASSUME NEW j \in Nat, j \in S PROVE j + 1 \in S
  <2>1. SUFFICES ASSUME j + 1 <= n PROVE f[j + 1] \in Nat /\ \A i \in 0 .. j + 1 : f[i] <= f[j + 1]
    OBVIOUS
  <2>2. j + 1 \in 1 .. n /\ (j + 1) - 1 = j /\ l[j + 1] \in Nat /\ f[j] \in Nat /\ \A i \in 0 .. j : f[i] <= f[j] /\ f[i] \in Int
    BY <1>1, <1>3, <2>1
  <2>3. f[j + 1] = f[j] + l[j + 1]
    BY <1>1, <2>2
  <2>4. \A i \in 0 .. j + 1 : i = j + 1 \/ i \in 0 .. j
    OBVIOUS
  <2>5. f[j + 1] \in Nat /\ f[j] <= f[j + 1]
    BY <2>2, <2>3
  <2>6. ASSUME NEW i \in 0 .. j PROVE f[i] <= f[j + 1]
    <3>1. f[i] <= f[j] /\ f[i] \in Int
      BY <2>2
    <3> QED
      BY <2>2, <2>5, <3>1
  <2> QED
    BY <2>4, <2>5, <2>6
<1>4. \A j \in 0 .. n : f[j] \in Nat /\ \A i \in 0 .. j : f[i] <= f[j]
  <2> HIDE DEF S
  <2>1. Nat \subseteq S
    BY <1>2, <1>3, NumberInduction
  <2> QED
    BY <2>1 DEF S
<1>5. f \in [0 .. n -> Nat]
  BY <1>1, <1>4
<1>6. \A i, j \in 0 .. n : i <= j => f[i] <= f[j]
  BY <1>4
<1>7. n \in 0 .. n
  OBVIOUS
<1> QED
  BY <1>1, <1>5, <1>6, <1>7 DEF f

\* Laid end to end, the parts of lengths l take every position once.
LEMMA PartsTile ==
  ASSUME NEW n \in Nat, NEW l \in [1 .. n -> Nat]
  PROVE  /\ \A h \in 1 .. n : \A k \in 1 .. l[h] : Sums(l)[h - 1] + k \in 1 .. SumOf(l)
         /\ \A p \in 1 .. SumOf(l) : \E h \in 1 .. n : \E k \in 1 .. l[h] : p = Sums(l)[h - 1] + k
         /\ \A h, g \in 1 .. n : \A k \in 1 .. l[h], j \in 1 .. l[g] :
              Sums(l)[h - 1] + k = Sums(l)[g - 1] + j => h = g /\ k = j
<1> DEFINE f == Sums(l)
<1>1. /\ f \in [0 .. n -> Nat] /\ f[0] = 0 /\ (\A i \in 1 .. n : f[i] = f[i - 1] + l[i]) /\ SumOf(l) = f[n]
      /\ \A i, j \in 0 .. n : i <= j => f[i] <= f[j]
  <2>1. l \in [1 .. n -> Int]
    OBVIOUS
  <2> QED
    BY <2>1, SumsAre, SumsGrow
<1> HIDE DEF f
<1>2. ASSUME NEW h \in 1 .. n, NEW k \in 1 .. l[h]
      PROVE  /\ h - 1 \in 0 .. n /\ f[h - 1] \in Nat /\ l[h] \in Nat
             /\ f[h - 1] + k \in 1 .. f[h] /\ f[h] \in Nat /\ f[h] <= f[n] /\ f[n] \in Nat
             /\ k \in Nat /\ f[h - 1] + k <= f[h] /\ f[h - 1] < f[h - 1] + k
  <2>1. h - 1 \in 0 .. n /\ h \in 0 .. n /\ n \in 0 .. n /\ h <= n
    OBVIOUS
  <2>2. f[h - 1] \in Nat /\ l[h] \in Nat /\ f[h] \in Nat /\ f[n] \in Nat /\ f[h] = f[h - 1] + l[h] /\ f[h] <= f[n]
    BY <1>1, <2>1
  <2>3. f[h - 1] + k \in 1 .. f[h]
    BY <2>2
  <2> QED
    BY <2>1, <2>2, <2>3
<1>3. ASSUME NEW h \in 1 .. n, NEW k \in 1 .. l[h] PROVE f[h - 1] + k \in 1 .. f[n]
  <2>1. f[h - 1] \in Nat /\ l[h] \in Nat /\ f[h - 1] + k \in 1 .. f[h] /\ f[h] \in Nat /\ f[h] <= f[n] /\ f[n] \in Nat
    BY <1>2
  <2> QED
    BY <2>1
<1>4. ASSUME NEW p \in 1 .. f[n] PROVE \E h \in 1 .. n : \E k \in 1 .. l[h] : p = f[h - 1] + k
  <2> DEFINE S == {i \in 0 .. n : p <= f[i]}
  <2>0. f[n] \in Nat /\ n \in 0 .. n
    BY <1>1
  <2>1. S \subseteq Nat /\ n \in S
    BY <2>0
  <2>2. \E i \in S : \A j \in S : i <= j
    <3> HIDE DEF S
    <3> QED
      BY <2>1, LeastNumber
  <2>3. PICK h \in S : \A j \in S : h <= j
    BY <2>2
  <2>4. h # 0
    BY <1>1, <2>3
  <2>5. h \in 1 .. n /\ h - 1 \in 0 .. n
    BY <2>3, <2>4
  <2>6. f[h - 1] \in Nat /\ f[h] \in Nat /\ l[h] \in Nat /\ f[h] = f[h - 1] + l[h]
    BY <1>1, <2>5
  <2>7. ~(p <= f[h - 1])
    BY <2>3, <2>5
  <2>8. p <= f[h]
    BY <2>3
  <2>9. p - f[h - 1] \in 1 .. l[h] /\ p = f[h - 1] + (p - f[h - 1])
    BY <2>6, <2>7, <2>8
  <2> QED
    BY <2>5, <2>9
<1>5. ASSUME NEW h \in 1 .. n, NEW g \in 1 .. n, NEW k \in 1 .. l[h], NEW j \in 1 .. l[g], f[h - 1] + k = f[g - 1] + j
      PROVE  h = g /\ k = j
  <2>1. /\ f[h - 1] \in Nat /\ l[h] \in Nat /\ f[h - 1] + k <= f[h] /\ f[h] \in Nat /\ k \in Nat /\ f[h - 1] < f[h - 1] + k
        /\ f[g - 1] \in Nat /\ l[g] \in Nat /\ f[g - 1] + j <= f[g] /\ f[g] \in Nat /\ j \in Nat /\ f[g - 1] < f[g - 1] + j
    BY <1>2
  <2>2. ~(h < g)
    <3>1. SUFFICES ASSUME h < g PROVE FALSE
      OBVIOUS
    <3>2. h \in 0 .. n /\ g - 1 \in 0 .. n /\ h <= g - 1
      BY <3>1
    <3>3. f[h] <= f[g - 1]
      BY <1>1, <3>2
    <3>4. PICK u, v, x, y : u = f[h - 1] /\ v = f[g - 1] /\ x = f[h] /\ y = f[g]
      OBVIOUS
    <3>5. u \in Nat /\ v \in Nat /\ x \in Nat /\ u + k <= x /\ x <= v /\ v < v + j /\ k \in Nat /\ j \in Nat
      BY <2>1, <3>3, <3>4
    <3>6. u + k = v + j
      BY <1>5, <3>4
    <3> QED
      BY <3>5, <3>6
  <2>3. ~(g < h)
    <3>1. SUFFICES ASSUME g < h PROVE FALSE
      OBVIOUS
    <3>2. g \in 0 .. n /\ h - 1 \in 0 .. n /\ g <= h - 1
      BY <3>1
    <3>3. f[g] <= f[h - 1]
      BY <1>1, <3>2
    <3>4. PICK u, v, x : u = f[h - 1] /\ v = f[g - 1] /\ x = f[g]
      OBVIOUS
    <3>5. u \in Nat /\ v \in Nat /\ x \in Nat /\ v + j <= x /\ x <= u /\ u < u + k /\ k \in Nat /\ j \in Nat
      BY <2>1, <3>3, <3>4
    <3>6. u + k = v + j
      BY <1>5, <3>4
    <3> QED
      BY <3>5, <3>6
  <2>4. h = g
    BY <2>2, <2>3
  <2> QED
    BY <1>5, <2>1, <2>4
<1> QED
  BY <1>1, <1>3, <1>4, <1>5 DEF f

\* A place of the whole is in one of its parts.
LEMMA PartOf ==
  ASSUME NEW n \in Nat, NEW l \in [1 .. n -> Nat], NEW p \in 1 .. SumOf(l)
  PROVE  \E h \in 1 .. n : \E k \in 1 .. l[h] : p = Sums(l)[h - 1] + k
<1>1. n \in Nat /\ l \in [1 .. n -> Nat]
  OBVIOUS
<1>2. \A x \in 1 .. SumOf(l) : \E h \in 1 .. n : \E k \in 1 .. l[h] : x = Sums(l)[h - 1] + k
  BY <1>1, PartsTile, ZenonT(30)
<1> QED
  BY <1>2, Zenon

\* Lengths that differ in one part have sums that differ by as much from there on.
LEMMA SumsWithout ==
  ASSUME NEW n \in Nat, NEW l \in [1 .. n -> Int], NEW m \in [1 .. n -> Int], NEW h \in 1 .. n, NEW c \in Int,
         m[h] = l[h] + c, \A g \in 1 .. n : g # h => m[g] = l[g]
  PROVE  /\ \A i \in 0 .. n : Sums(m)[i] = IF i < h THEN Sums(l)[i] ELSE Sums(l)[i] + c
         /\ SumOf(m) = SumOf(l) + c
<1> DEFINE f == Sums(l)
           e == Sums(m)
<1>1. /\ f \in [0 .. n -> Int] /\ f[0] = 0 /\ (\A i \in 1 .. n : f[i] = f[i - 1] + l[i]) /\ SumOf(l) = f[n]
      /\ e \in [0 .. n -> Int] /\ e[0] = 0 /\ (\A i \in 1 .. n : e[i] = e[i - 1] + m[i]) /\ SumOf(m) = e[n]
  BY SumsAre
<1> HIDE DEF f, e
<1> DEFINE S == {i \in Nat : i <= n => e[i] = IF i < h THEN f[i] ELSE f[i] + c}
<1>2. 0 \in S
  BY <1>1
<1>3. ASSUME NEW i \in Nat, i \in S PROVE i + 1 \in S
  <2>1. SUFFICES ASSUME i + 1 <= n PROVE e[i + 1] = IF i + 1 < h THEN f[i + 1] ELSE f[i + 1] + c
    OBVIOUS
  <2>0. i + 1 \in 1 .. n /\ (i + 1) - 1 = i /\ i \in 0 .. n /\ i <= n
    BY <2>1
  <2>2. /\ i + 1 \in 1 .. n /\ (i + 1) - 1 = i /\ i \in 0 .. n
        /\ f[i] \in Int /\ e[i] \in Int /\ l[i + 1] \in Int /\ m[i + 1] \in Int /\ e[i] = IF i < h THEN f[i] ELSE f[i] + c
    BY <1>1, <1>3, <2>0
  <2>3. f[i + 1] = f[i] + l[i + 1] /\ e[i + 1] = e[i] + m[i + 1]
    BY <1>1, <2>2
  <2>4. m[i + 1] = IF i + 1 = h THEN l[i + 1] + c ELSE l[i + 1]
    BY <2>2
  <2>5. CASE i + 1 < h
    <3>1. i < h /\ i + 1 # h
      BY <2>5
    <3> QED
      BY <2>2, <2>3, <2>4, <2>5, <3>1
  <2>6. CASE i + 1 = h
    <3>1. i < h /\ ~(i + 1 < h)
      BY <2>6
    <3> QED
      BY <2>2, <2>3, <2>4, <2>6, <3>1
  <2>7. CASE h < i + 1
    <3>1. ~(i < h) /\ ~(i + 1 < h) /\ i + 1 # h
      BY <2>7
    <3> QED
      BY <2>2, <2>3, <2>4, <3>1
  <2> QED
    BY <2>5, <2>6, <2>7
<1>4. \A i \in 0 .. n : e[i] = IF i < h THEN f[i] ELSE f[i] + c
  <2> HIDE DEF S
  <2>1. Nat \subseteq S
    BY <1>2, <1>3, NumberInduction
  <2> QED
    BY <2>1 DEF S
<1>5. n \in 0 .. n /\ ~(n < h)
  OBVIOUS
<1> QED
  BY <1>1, <1>4, <1>5 DEF f, e
-----------------------------------------------------------------------------
(* Sequences laid end to end, and the order of sequences of numbers.       *)

Lens(ss) == [i \in DOMAIN ss |-> Len(ss[i])]

\* Sequences laid end to end: what is laid stands where the lengths before it say.
Rows(ss, n, X) == n \in Nat /\ ss \in [1 .. n -> Seq(X)]
Laid(f, ss, n, X) ==
  /\ Lens(ss) \in [1 .. n -> Nat]
  /\ f \in Seq(X) /\ Len(f) = SumOf(Lens(ss))
  /\ \A i \in 1 .. n : \A k \in 1 .. Len(ss[i]) : f[Sums(Lens(ss))[i - 1] + k] = ss[i][k]

LEMMA FlatIs ==
  ASSUME NEW X, NEW n, NEW ss, Rows(ss, n, X)
  PROVE  Laid(FlattenSeq(ss), ss, n, X)
<1>r. n \in Nat /\ ss \in [1 .. n -> Seq(X)]
  BY DEF Rows
<1> SUFFICES /\ Lens(ss) \in [1 .. n -> Nat]
             /\ FlattenSeq(ss) \in Seq(X) /\ Len(FlattenSeq(ss)) = SumOf(Lens(ss))
             /\ \A i \in 1 .. n : \A k \in 1 .. Len(ss[i]) : FlattenSeq(ss)[Sums(Lens(ss))[i - 1] + k] = ss[i][k]
  BY DEF Laid
<1> USE <1>r
<1>1. ss \in Seq(Seq(X)) /\ Len(ss) = n /\ DOMAIN ss = 1 .. n
  BY SeqIs
<1>2. PICK l : l = Lens(ss)
  OBVIOUS
<1>3. l \in [1 .. n -> Nat] /\ \A i \in 1 .. n : l[i] = Len(ss[i])
  BY <1>1, <1>2 DEF Lens
<1>4. PICK f : f = Sums(l)
  OBVIOUS
<1>5. /\ f \in [0 .. n -> Nat] /\ f[0] = 0 /\ (\A i \in 1 .. n : f[i] = f[i - 1] + l[i]) /\ SumOf(l) = f[n]
      /\ \A i, j \in 0 .. n : i <= j => f[i] <= f[j]
  <2>1. l \in [1 .. n -> Int] /\ l \in [1 .. n -> Nat]
    BY <1>3
  <2>2. Sums(l)[0] = 0 /\ (\A i \in 1 .. n : Sums(l)[i] = Sums(l)[i - 1] + l[i]) /\ SumOf(l) = Sums(l)[n]
    BY <2>1, SumsAre
  <2>3. Sums(l) \in [0 .. n -> Nat] /\ \A i, j \in 0 .. n : i <= j => Sums(l)[i] <= Sums(l)[j]
    BY <2>1, SumsGrow
  <2> QED
    BY <1>4, <2>2, <2>3
<1>6. CASE n = 0
  <2>1. ss = <<>>
    BY <1>1, <1>6, EmptySeq
  <2>2. FlattenSeq(ss) = ss
    BY <1>1, <1>6 DEF FlattenSeq
  <2>3. <<>> \in Seq(X) /\ Len(<<>>) = 0
    OBVIOUS
  <2>4. SumOf(l) = 0
    BY <1>5, <1>6
  <2>5. FlattenSeq(ss) \in Seq(X) /\ Len(FlattenSeq(ss)) = SumOf(l)
    BY <2>1, <2>2, <2>3, <2>4
  <2> QED
    BY <1>2, <1>3, <1>6, <2>5
<1>7. CASE n # 0
  <2> DEFINE Y == Seq(X)
             step == [i \in 1 .. n |-> [x \in Y |-> x \o ss[i]]]
             Rule(w) == w = [i \in 1 .. n |-> IF i = 1 THEN ss[i] ELSE w[i - 1] \o ss[i]]
             flat == CHOOSE w : Rule(w)
  <2>1. step \in Steps(n, Y) /\ <<>> \in Y
    BY DEF Steps
  <2>2. PICK e \in [0 .. n -> Y] : e[0] = <<>> /\ \A k \in 1 .. n : e[k] = step[k][e[k - 1]]
    <3>1. PICK z : z = <<>>
      OBVIOUS
    <3> HIDE DEF step, Y
    <3>2. z \in Y
      BY <2>1, <3>1
    <3>3. \E e \in [0 .. n -> Y] : e[0] = z /\ \A k \in 1 .. n : e[k] = step[k][e[k - 1]]
      BY <2>1, <3>2, Recursion
    <3> QED
      BY <3>1, <3>3
  <2>3. \A k \in 1 .. n : e[k] = e[k - 1] \o ss[k]
    <3>1. ASSUME NEW k \in 1 .. n PROVE e[k] = e[k - 1] \o ss[k]
      <4>1. k - 1 \in 0 .. n
        OBVIOUS
      <4> QED
        BY <2>2, <4>1
    <3> QED
      BY <3>1
  <2>4. Rule([i \in 1 .. n |-> e[i]])
    <3>1. ASSUME NEW i \in 1 .. n PROVE e[i] = IF i = 1 THEN ss[i] ELSE [j \in 1 .. n |-> e[j]][i - 1] \o ss[i]
      <4>1. CASE i = 1
        <5>1. e[i] = <<>> \o ss[i] /\ ss[i] \in Seq(X)
          <6>1. i - 1 = 0 /\ e[i] = e[i - 1] \o ss[i]
            BY <2>3, <4>1
          <6> QED
            BY <2>2, <6>1
        <5>2. <<>> \o ss[i] = ss[i]
          BY <5>1
        <5> QED
          BY <4>1, <5>1, <5>2
      <4>2. CASE i # 1
        <5>1. i - 1 \in 1 .. n
          BY <4>2
        <5> QED
          BY <2>3, <4>2, <5>1
      <4> QED
        BY <4>1, <4>2
    <3> QED
      BY <3>1
  <2>5. FlattenSeq(ss) = flat[n]
    BY <1>1, <1>7 DEF FlattenSeq
  <2>6. Rule(flat)
    <3> HIDE DEF Rule
    <3> QED
      BY <2>4
  <2>7. PICK w : w = flat
    OBVIOUS
  <2> HIDE DEF flat
  <2>8. w = [i \in 1 .. n |-> IF i = 1 THEN ss[i] ELSE w[i - 1] \o ss[i]]
    BY <2>6, <2>7
  <2> DEFINE Flat(i) ==
               /\ w[i] \in Seq(X) /\ Len(w[i]) = f[i]
               /\ \A h \in 1 .. i : \A k \in 1 .. l[h] : w[i][f[h - 1] + k] = ss[h][k]
             S == {i \in Nat : i < n => Flat(i + 1)}
  <2>9. 0 \in S
    <3>1. 1 \in 1 .. n /\ 1 - 1 = 0
      BY <1>7
    <3>2. w[1] = ss[1] /\ ss[1] \in Seq(X) /\ f[1] = f[0] + l[1] /\ l[1] = Len(ss[1]) /\ l[1] \in Nat
      BY <1>3, <1>5, <2>8, <3>1
    <3>3. Len(w[1]) = f[1]
      BY <1>5, <3>2
    <3>4. ASSUME NEW h \in 1 .. 1, NEW k \in 1 .. l[h] PROVE w[1][f[h - 1] + k] = ss[h][k]
      <4>1. h = 1 /\ f[h - 1] + k = k
        BY <1>5, <3>2
      <4> QED
        BY <3>2, <4>1
    <3>5. Flat(1)
      BY <3>2, <3>3, <3>4
    <3>6. 0 + 1 = 1
      OBVIOUS
    <3> HIDE DEF Flat
    <3> QED
      BY <3>5, <3>6
  <2>10. ASSUME NEW i \in Nat, i \in S PROVE i + 1 \in S
    <3>1. SUFFICES ASSUME i + 1 < n PROVE Flat((i + 1) + 1)
      OBVIOUS
    <3>2. PICK j : j = i + 1
      OBVIOUS
    <3>3. j \in 1 .. n /\ j + 1 \in 1 .. n /\ j + 1 # 1 /\ (j + 1) - 1 = j /\ j \in 0 .. n /\ j + 1 \in 0 .. n
      BY <3>1, <3>2
    <3>4. Flat(j)
      BY <2>10, <3>1, <3>2
    <3>5. w[j + 1] = w[j] \o ss[j + 1] /\ ss[j + 1] \in Seq(X) /\ l[j + 1] = Len(ss[j + 1]) /\ f[j + 1] = f[j] + l[j + 1]
      BY <1>3, <1>5, <2>8, <3>3
    <3>6. PICK u, v : u = w[j] /\ v = ss[j + 1]
      OBVIOUS
    <3>7. u \in Seq(X) /\ v \in Seq(X) /\ Len(u) = f[j] /\ f[j] \in Nat /\ Len(v) = l[j + 1] /\ l[j + 1] \in Nat
      BY <1>3, <1>5, <3>3, <3>4, <3>5, <3>6
    <3>8. /\ u \o v \in Seq(X) /\ Len(u \o v) = Len(u) + Len(v)
          /\ \A p \in 1 .. Len(u) + Len(v) : (u \o v)[p] = IF p <= Len(u) THEN u[p] ELSE v[p - Len(u)]
      BY <3>7, ConcatProperties
    <3>9. w[j + 1] \in Seq(X) /\ Len(w[j + 1]) = f[j + 1]
      BY <3>5, <3>6, <3>7, <3>8
    <3>10. ASSUME NEW h \in 1 .. j + 1, NEW k \in 1 .. l[h] PROVE w[j + 1][f[h - 1] + k] = ss[h][k]
      <4>1. CASE h = j + 1
        <5>1. /\ f[h - 1] = f[j] /\ k \in 1 .. Len(v) /\ f[j] + k \in 1 .. Len(u) + Len(v)
              /\ ~(f[j] + k <= Len(u)) /\ (f[j] + k) - Len(u) = k
          <6>1. PICK a, b, m : a = Len(u) /\ b = Len(v) /\ m = f[j]
            OBVIOUS
          <6>2. a = m /\ m \in Nat /\ b \in Nat /\ k \in 1 .. b
            BY <3>7, <4>1, <6>1
          <6>3. k \in 1 .. b /\ m + k \in 1 .. a + b /\ ~(m + k <= a) /\ (m + k) - a = k
            BY <6>2
          <6>4. h - 1 = j
            BY <3>3, <4>1
          <6> QED
            BY <6>1, <6>3, <6>4
        <5> QED
          BY <3>5, <3>6, <3>7, <3>8, <4>1, <5>1
      <4>2. CASE h # j + 1
        <5>1. h \in 1 .. j /\ h \in 1 .. n /\ h - 1 \in 0 .. n /\ h \in 0 .. n /\ h <= j
          BY <3>3, <4>2
        <5>2. f[h] = f[h - 1] + l[h] /\ f[h] <= f[j] /\ f[h - 1] \in Nat /\ f[h] \in Nat /\ f[j] \in Nat /\ l[h] \in Nat
          BY <1>3, <1>5, <3>3, <5>1
        <5>3. f[h - 1] + k \in 1 .. Len(u) + Len(v) /\ f[h - 1] + k <= Len(u)
          <6>1. PICK a, b, c, m : a = Len(u) /\ b = Len(v) /\ m = f[j] /\ c = f[h - 1]
            OBVIOUS
          <6>2. a = m /\ m \in Nat /\ b \in Nat /\ c \in Nat /\ k \in 1 .. l[h] /\ l[h] \in Nat /\ c + l[h] <= m
            BY <3>7, <5>2, <6>1
          <6>3. c + k \in 1 .. a + b /\ c + k <= a
            BY <6>2
          <6> QED
            BY <6>1, <6>3
        <5>4. u[f[h - 1] + k] = ss[h][k]
          BY <3>4, <3>6, <5>1
        <5> QED
          BY <3>5, <3>6, <3>8, <5>3, <5>4
      <4> QED
        BY <4>1, <4>2
    <3> HIDE DEF Flat
    <3>11. Flat(j + 1)
      BY <3>9, <3>10 DEF Flat
    <3> QED
      BY <3>2, <3>11
  <2>11. Flat(n)
    <3>1. Nat \subseteq S
      <4> HIDE DEF S
      <4> QED
        BY <2>9, <2>10, NumberInduction
    <3>2. n - 1 \in Nat /\ n - 1 < n /\ (n - 1) + 1 = n
      BY <1>7
    <3>3. n - 1 \in S
      BY <3>1, <3>2
    <3> HIDE DEF Flat
    <3> QED
      BY <3>2, <3>3
  <2>12. FlattenSeq(ss) = w[n]
    BY <2>5, <2>7
  <2> HIDE DEF S
  <2>13. \A i \in 1 .. n : \A k \in 1 .. Len(ss[i]) : FlattenSeq(ss)[f[i - 1] + k] = ss[i][k]
    BY <1>3, <2>11, <2>12
  <2>14. FlattenSeq(ss) \in Seq(X) /\ Len(FlattenSeq(ss)) = SumOf(l)
    BY <1>5, <2>11, <2>12
  <2> QED
    BY <1>2, <1>3, <1>4, <2>13, <2>14
<1> QED
  BY <1>6, <1>7

\* The order of numbers of equal length, position by position.
LEMMA LexIs ==
  ASSUME NEW n \in Nat, NEW x \in [1 .. n -> Nat], NEW y \in [1 .. n -> Nat]
  PROVE  /\ ~Precedes(x, x)
         /\ x = y \/ Precedes(x, y) \/ Precedes(y, x)
         /\ ~(Precedes(x, y) /\ Precedes(y, x))
<1>1. ~Precedes(x, x)
  BY DEF Precedes
<1>2. ASSUME x # y PROVE Precedes(x, y) \/ Precedes(y, x)
  <2> DEFINE D == {h \in 1 .. n : x[h] # y[h]}
  <2>1. D # {} /\ D \subseteq Nat
    BY <1>2
  <2>2. \E h \in D : \A g \in D : h <= g
    <3> HIDE DEF D
    <3> QED
      BY <2>1, LeastNumber
  <2>3. PICK h \in D : \A g \in D : h <= g
    BY <2>2
  <2>4. \A g \in 1 .. h - 1 : x[g] = y[g]
    <3>1. ASSUME NEW g \in 1 .. h - 1, x[g] # y[g] PROVE FALSE
      <4>1. g \in D /\ g < h
        BY <3>1
      <4> QED
        BY <2>3, <4>1
    <3> QED
      BY <3>1
  <2>5. x[h] < y[h] \/ y[h] < x[h]
    BY <2>3
  <2> QED
    BY <2>3, <2>4, <2>5 DEF Precedes
<1>3. ASSUME Precedes(x, y), Precedes(y, x) PROVE FALSE
  <2>1. PICK h \in 1 .. n : x[h] < y[h] /\ \A g \in 1 .. h - 1 : x[g] = y[g]
    BY <1>3 DEF Precedes
  <2>2. PICK i \in 1 .. n : y[i] < x[i] /\ \A g \in 1 .. i - 1 : y[g] = x[g]
    BY <1>3 DEF Precedes
  <2>3. h < i => h \in 1 .. i - 1
    OBVIOUS
  <2>4. i < h => i \in 1 .. h - 1
    OBVIOUS
  <2>5. x[h] \in Nat /\ y[h] \in Nat /\ x[i] \in Nat /\ y[i] \in Nat
    OBVIOUS
  <2> QED
    BY <2>1, <2>2, <2>3, <2>4, <2>5
<1> QED
  BY <1>1, <1>2, <1>3

\* It is transitive.
LEMMA LexTrans ==
  ASSUME NEW n \in Nat, NEW x \in [1 .. n -> Nat], NEW y \in [1 .. n -> Nat], NEW z \in [1 .. n -> Nat],
         Precedes(x, y), Precedes(y, z)
  PROVE  Precedes(x, z)
<1>1. PICK h \in 1 .. n : x[h] < y[h] /\ \A g \in 1 .. h - 1 : x[g] = y[g]
  BY DEF Precedes
<1>2. PICK i \in 1 .. n : y[i] < z[i] /\ \A g \in 1 .. i - 1 : y[g] = z[g]
  BY DEF Precedes
<1>3. CASE h <= i
  <2>1. h < i => h \in 1 .. i - 1
    OBVIOUS
  <2>2. x[h] < z[h]
    BY <1>1, <1>2, <1>3, <2>1
  <2>3. \A g \in 1 .. h - 1 : g \in 1 .. i - 1
    BY <1>3
  <2>4. \A g \in 1 .. h - 1 : x[g] = z[g]
    BY <1>1, <1>2, <2>3
  <2> QED
    BY <2>2, <2>4 DEF Precedes
<1>4. CASE i < h
  <2>1. i \in 1 .. h - 1
    BY <1>4
  <2>2. x[i] < z[i]
    BY <1>1, <1>2, <2>1
  <2>3. \A g \in 1 .. i - 1 : g \in 1 .. h - 1
    BY <1>4
  <2>4. \A g \in 1 .. i - 1 : x[g] = z[g]
    BY <1>1, <1>2, <2>3
  <2> QED
    BY <2>2, <2>4 DEF Precedes
<1> QED
  BY <1>3, <1>4

\* A finite set has a least element in that order.
LEMMA LeastIs ==
  ASSUME NEW n \in Nat, NEW S, S \subseteq [1 .. n -> Nat], IsFiniteSet(S), S # {}
  PROVE  Least(S) \in S /\ \A m \in S \ {Least(S)} : Precedes(Least(S), m)
<1> DEFINE Has(T) == \E l \in T : \A m \in T \ {l} : Precedes(l, m)
           C == {T \in SUBSET S : T # {} => Has(T)}
<1>1. {} \in C
  OBVIOUS
<1>2. ASSUME NEW T \in SUBSET S, NEW x \in S, T \in C PROVE T \cup {x} \in C
  <2>1. T \cup {x} \in SUBSET S
    OBVIOUS
  <2>2. Has(T \cup {x})
    <3>1. CASE T = {}
      BY <3>1
    <3>2. CASE T # {}
      <4>1. PICK l \in T : \A m \in T \ {l} : Precedes(l, m)
        BY <1>2, <3>2
      <4>2. l \in [1 .. n -> Nat] /\ x \in [1 .. n -> Nat]
        OBVIOUS
      <4>3. x = l \/ Precedes(x, l) \/ Precedes(l, x)
        BY <4>2, LexIs
      <4>4. CASE x = l
        BY <4>1, <4>4
      <4>5. CASE Precedes(l, x)
        BY <4>1, <4>5
      <4>6. CASE Precedes(x, l)
        <5>1. ASSUME NEW m \in T, m # x PROVE Precedes(x, m)
          <6>1. m \in [1 .. n -> Nat]
            OBVIOUS
          <6>2. m = l \/ Precedes(l, m)
            BY <4>1
          <6> QED
            BY <4>2, <4>6, <6>1, <6>2, LexTrans
        <5>2. \A m \in (T \cup {x}) \ {x} : Precedes(x, m)
          BY <5>1
        <5> QED
          BY <5>2
      <4> QED
        BY <4>3, <4>4, <4>5, <4>6
    <3> QED
      BY <3>1, <3>2
  <2> QED
    BY <2>1, <2>2
<1>3. S \in C
  <2> HIDE DEF C
  <2> QED
    BY <1>1, <1>2, SetInduction
<1>4. Has(S)
  BY <1>3
<1> QED
  BY <1>4 DEF Least
-----------------------------------------------------------------------------
(* Dials: the odometer over given sizes.                                   *)

\* Lengths that are no less have a sum that is no less.
LEMMA SumsLess ==
  ASSUME NEW n \in Nat, NEW l \in [1 .. n -> Nat], NEW m \in [1 .. n -> Nat], \A h \in 1 .. n : l[h] <= m[h]
  PROVE  SumOf(l) <= SumOf(m) /\ SumOf(l) \in Nat /\ SumOf(m) \in Nat
<1> DEFINE f == Sums(l)
           e == Sums(m)
<1>1. /\ f \in [0 .. n -> Int] /\ f[0] = 0 /\ (\A i \in 1 .. n : f[i] = f[i - 1] + l[i]) /\ SumOf(l) = f[n]
      /\ e \in [0 .. n -> Int] /\ e[0] = 0 /\ (\A i \in 1 .. n : e[i] = e[i - 1] + m[i]) /\ SumOf(m) = e[n]
  <2>1. l \in [1 .. n -> Int] /\ m \in [1 .. n -> Int]
    OBVIOUS
  <2> QED
    BY <2>1, SumsAre
<1> HIDE DEF f, e
<1> DEFINE S == {i \in Nat : i <= n => f[i] <= e[i]}
<1>2. 0 \in S
  BY <1>1
<1>3. ASSUME NEW i \in Nat, i \in S PROVE i + 1 \in S
  <2>1. SUFFICES ASSUME i + 1 <= n PROVE f[i + 1] <= e[i + 1]
    OBVIOUS
  <2>2. i + 1 \in 1 .. n /\ (i + 1) - 1 = i /\ i \in 0 .. n /\ i <= n
    BY <2>1
  <2>3. f[i] \in Int /\ e[i] \in Int /\ f[i] <= e[i] /\ l[i + 1] \in Nat /\ m[i + 1] \in Nat /\ l[i + 1] <= m[i + 1]
    BY <1>1, <1>3, <2>2
  <2>4. f[i + 1] = f[i] + l[i + 1] /\ e[i + 1] = e[i] + m[i + 1]
    BY <1>1, <2>2
  <2> QED
    BY <2>3, <2>4
<1>4. f[n] <= e[n]
  <2> HIDE DEF S
  <2>1. Nat \subseteq S
    BY <1>2, <1>3, NumberInduction
  <2> QED
    BY <2>1 DEF S
<1> QED
  BY <1>1, <1>4, SumsGrow

\* A length is no more than the sum.
LEMMA PartOfSum ==
  ASSUME NEW n \in Nat, NEW l \in [1 .. n -> Nat], NEW h \in 1 .. n
  PROVE  l[h] <= SumOf(l)
<1> DEFINE f == Sums(l)
<1>1. l \in [1 .. n -> Int]
  OBVIOUS
<1>2. (\A i \in 1 .. n : f[i] = f[i - 1] + l[i]) /\ SumOf(l) = f[n]
  BY <1>1, SumsAre
<1>3. h - 1 \in 0 .. n /\ h \in 0 .. n /\ n \in 0 .. n /\ h <= n
  OBVIOUS
<1>4. f[h - 1] \in Nat /\ f[h] \in Nat /\ f[n] \in Nat /\ f[h] <= f[n]
  BY <1>3, SumsGrow
<1> QED
  BY <1>2, <1>4

\* The settings of an odometer whose digits run over so many choices.
Dials(n, sz) == {d \in [1 .. n -> Nat] : \A p \in 1 .. n : 1 <= d[p] /\ d[p] <= sz[p]}

\* The setting that follows when the last digit that can turn does.
Turning(d, e, p, n, sz) ==
  /\ n \in Nat /\ sz \in [1 .. n -> Nat] /\ \A q \in 1 .. n : sz[q] # 0
  /\ d \in Dials(n, sz) /\ p \in 1 .. n /\ d[p] < sz[p]
  /\ \A q \in 1 .. n : d[q] < sz[q] => q <= p
  /\ e \in [1 .. n -> Nat]
  /\ \A q \in 1 .. n : (q < p => e[q] = d[q]) /\ (q = p => e[q] = d[q] + 1) /\ (q > p => e[q] = 1)

LEMMA NextDials ==
  ASSUME NEW n, NEW sz, NEW d, NEW p, NEW e, Turning(d, e, p, n, sz)
  PROVE  /\ e \in Dials(n, sz)
         /\ \A x \in Dials(n, sz) : Precedes(x, e) <=> Precedes(x, d) \/ x = d
<1>t. /\ n \in Nat /\ sz \in [1 .. n -> Nat] /\ (\A q \in 1 .. n : sz[q] # 0)
      /\ d \in Dials(n, sz) /\ p \in 1 .. n /\ d[p] < sz[p]
      /\ (\A q \in 1 .. n : d[q] < sz[q] => q <= p)
      /\ e \in [1 .. n -> Nat]
      /\ (\A q \in 1 .. n : (q < p => e[q] = d[q]) /\ (q = p => e[q] = d[q] + 1) /\ (q > p => e[q] = 1))
  BY DEF Turning
<1> USE <1>t
<1>1. d \in [1 .. n -> Nat] /\ \A q \in 1 .. n : 1 <= d[q] /\ d[q] <= sz[q] /\ d[q] \in Nat /\ sz[q] \in Nat
  BY DEF Dials
<1>2. e \in Dials(n, sz)
  <2>1. ASSUME NEW q \in 1 .. n PROVE 1 <= e[q] /\ e[q] <= sz[q]
    <3>1. d[q] \in Nat /\ sz[q] \in Nat /\ 1 <= d[q] /\ d[q] <= sz[q] /\ sz[q] # 0
      BY <1>1
    <3>2. CASE q < p
      BY <3>1, <3>2
    <3>3. CASE q = p
      <4>1. e[q] = d[q] + 1 /\ d[q] < sz[q]
        BY <3>3
      <4> QED
        BY <3>1, <4>1
    <3>4. CASE q > p
      BY <3>1, <3>4
    <3> QED
      BY <3>2, <3>3, <3>4
  <2> QED
    BY <2>1 DEF Dials
<1>3. Precedes(d, e)
  <2>1. d[p] < e[p] /\ DOMAIN d = 1 .. n
    BY <1>1
  <2>2. \A g \in 1 .. p - 1 : d[g] = e[g]
    <3>1. \A g \in 1 .. p - 1 : g \in 1 .. n /\ g < p
      OBVIOUS
    <3> QED
      BY <3>1
  <2> QED
    BY <2>1, <2>2 DEF Precedes
<1>4. ASSUME NEW x \in Dials(n, sz), Precedes(x, e) PROVE Precedes(x, d) \/ x = d
  <2>1. x \in [1 .. n -> Nat] /\ \A q \in 1 .. n : 1 <= x[q] /\ x[q] <= sz[q] /\ x[q] \in Nat
    BY DEF Dials
  <2>2. SUFFICES ASSUME Precedes(d, x) PROVE FALSE
    BY <1>1, <2>1, LexIs
  <2>3. PICK h \in 1 .. n : d[h] < x[h] /\ \A g \in 1 .. h - 1 : d[g] = x[g]
    BY <1>1, <2>2 DEF Precedes
  <2>4. PICK i \in 1 .. n : x[i] < e[i] /\ \A g \in 1 .. i - 1 : x[g] = e[g]
    BY <1>4, <2>1 DEF Precedes
  <2>5. h <= p
    BY <1>1, <2>1, <2>3
  <2>6. i <= p
    BY <2>1, <2>4
  <2>7. CASE i < h
    <3>1. i \in 1 .. h - 1 /\ i < p
      BY <2>5, <2>7
    <3> QED
      BY <1>1, <2>1, <2>3, <2>4, <3>1
  <2>8. CASE h < i
    <3>1. h \in 1 .. i - 1 /\ h < p
      BY <2>6, <2>8
    <3> QED
      BY <1>1, <2>1, <2>3, <2>4, <3>1
  <2>9. CASE h = i
    <3>1. h < p \/ h = p
      BY <2>5
    <3>2. x[h] \in Nat /\ d[h] \in Nat /\ d[h] < x[h] /\ x[h] < e[h]
      BY <1>1, <2>1, <2>3, <2>4, <2>9
    <3> QED
      BY <3>1, <3>2
  <2> QED
    BY <2>7, <2>8, <2>9
<1>5. ASSUME NEW x \in Dials(n, sz), Precedes(x, d) \/ x = d PROVE Precedes(x, e)
  <2>1. x \in [1 .. n -> Nat]
    BY DEF Dials
  <2> QED
    BY <1>1, <1>3, <1>5, <2>1, LexTrans
<1> QED
  BY <1>2, <1>4, <1>5

\* No setting follows that in which no digit can turn.
LEMMA LastDials ==
  ASSUME NEW n \in Nat, NEW sz \in [1 .. n -> Nat], NEW d \in Dials(n, sz), \A q \in 1 .. n : ~(d[q] < sz[q]),
         NEW x \in Dials(n, sz)
  PROVE  Precedes(x, d) \/ x = d
<1>1. d \in [1 .. n -> Nat] /\ x \in [1 .. n -> Nat] /\ \A q \in 1 .. n : d[q] \in Nat /\ x[q] \in Nat /\ x[q] <= sz[q] /\ sz[q] \in Nat
  BY DEF Dials
<1>2. SUFFICES ASSUME Precedes(d, x) PROVE FALSE
  BY <1>1, LexIs
<1>3. PICK h \in 1 .. n : d[h] < x[h]
  BY <1>1, <1>2 DEF Precedes
<1> QED
  BY <1>1, <1>3

\* None comes before that in which all digits are at their first choice.
LEMMA FirstDials ==
  ASSUME NEW n \in Nat, NEW sz \in [1 .. n -> Nat], \A q \in 1 .. n : sz[q] # 0
  PROVE  /\ [p \in 1 .. n |-> 1] \in Dials(n, sz)
         /\ \A x \in Dials(n, sz) : ~Precedes(x, [p \in 1 .. n |-> 1])
<1>1. [p \in 1 .. n |-> 1] \in Dials(n, sz)
  BY DEF Dials
<1>2. ASSUME NEW x \in Dials(n, sz), Precedes(x, [p \in 1 .. n |-> 1]) PROVE FALSE
  <2>1. x \in [1 .. n -> Nat] /\ \A q \in 1 .. n : 1 <= x[q] /\ x[q] \in Nat
    BY DEF Dials
  <2>2. PICK h \in 1 .. n : x[h] < [p \in 1 .. n |-> 1][h]
    BY <1>2, <2>1 DEF Precedes
  <2> QED
    BY <2>1, <2>2
<1> QED
  BY <1>1, <1>2
-----------------------------------------------------------------------------
(* Settings: the lengths of the holes and the digits of the odometer.      *)

HoleCount == Len(Holes(sketch))
Fillers   == {ins \in Instruction : ins.op \notin IsControl}

\* What a constructor that accepts its sketch has made sure of.
Ready ==
  /\ DOMAIN Holes(sketch) = 1 .. HoleCount /\ HoleCount \in Nat
  /\ \A h \in 1 .. HoleCount :
       MaxOf(h) \in Nat /\ AlphabetOf(h) \in Seq(Fillers) /\ (MaxOf(h) # 0 => Len(AlphabetOf(h)) # 0)

\* The lengths that holes may have, and the settings of the odometer for them.
Widths      == {l \in [1 .. HoleCount -> Nat] : \A h \in 1 .. HoleCount : l[h] <= MaxOf(h)}
Settings(l) == Dials(SumOf(l), SizesAt(l))

\* The order in which the odometer shows them.
Comes(l, d, m, e) ==
  \/ SumOf(l) < SumOf(m)
  \/ SumOf(l) = SumOf(m) /\ Precedes(l, m)
  \/ l = m /\ Precedes(d, e)

Follows(l, d, m, e) ==
  /\ m \in Widths /\ e \in Settings(m)
  /\ \A x \in Widths : \A y \in Settings(x) : Comes(x, y, m, e) <=> Comes(x, y, l, d) \/ (x = l /\ y = d)

IsLast(l, d) == \A x \in Widths : \A y \in Settings(x) : Comes(x, y, l, d) \/ (x = l /\ y = d)

\* Each digit runs over the alphabet of its hole.
LEMMA SizesAre ==
  ASSUME Ready, NEW l \in Widths
  PROVE  /\ SumOf(l) \in Nat /\ SizesAt(l) \in [1 .. SumOf(l) -> Nat] /\ \A p \in 1 .. SumOf(l) : SizesAt(l)[p] # 0
         /\ \A h \in 1 .. HoleCount : \A k \in 1 .. l[h] : SizesAt(l)[Sums(l)[h - 1] + k] = Len(AlphabetOf(h))
<1>1. PICK n : n = HoleCount
  OBVIOUS
<1>2. n \in Nat /\ l \in [1 .. n -> Nat] /\ DOMAIN l = 1 .. n /\ \A h \in 1 .. n : l[h] <= MaxOf(h) /\ MaxOf(h) \in Nat
  BY <1>1 DEF Ready, Widths
<1> DEFINE X == Nat \ {0}
           row(h) == [k \in 1 .. l[h] |-> Len(AlphabetOf(h))]
           ss == [h \in 1 .. n |-> row(h)]
<1>3. ASSUME NEW h \in 1 .. n PROVE row(h) \in Seq(X) /\ Len(row(h)) = l[h]
  <2>1. PICK b : b = Len(AlphabetOf(h))
    OBVIOUS
  <2>2. b \in Nat /\ (l[h] # 0 => b # 0) /\ l[h] \in Nat
    <3>1. AlphabetOf(h) \in Seq(Fillers) /\ (MaxOf(h) # 0 => Len(AlphabetOf(h)) # 0)
      BY <1>1 DEF Ready
    <3>2. l[h] \in Nat /\ l[h] <= MaxOf(h) /\ MaxOf(h) \in Nat
      BY <1>2
    <3> QED
      BY <2>1, <3>1, <3>2, LenProperties
  <2>3. row(h) = [k \in 1 .. l[h] |-> b]
    BY <2>1
  <2>4. [k \in 1 .. l[h] |-> b] \in [1 .. l[h] -> X]
    BY <2>2
  <2> QED
    BY <2>2, <2>3, <2>4, SeqIs
<1>4. ss \in [1 .. n -> Seq(X)] /\ \A h \in 1 .. n : ss[h] = row(h)
  BY <1>3
<1>5. SizesAt(l) = FlattenSeq(ss)
  BY <1>2 DEF SizesAt
<1>6. Lens(ss) = l
  BY <1>2, <1>3 DEF Lens
<1>7. PICK s : s = ss
  OBVIOUS
<1> HIDE DEF ss, X
<1>8. /\ FlattenSeq(s) \in Seq(X) /\ Len(FlattenSeq(s)) = SumOf(l)
      /\ \A h \in 1 .. n : \A k \in 1 .. Len(s[h]) : FlattenSeq(s)[Sums(l)[h - 1] + k] = s[h][k]
  <2>1. Rows(s, n, X)
    BY <1>2, <1>4, <1>7 DEF Rows
  <2>2. Lens(s) = l
    BY <1>6, <1>7
  <2>3. Laid(FlattenSeq(s), s, n, X)
    BY <2>1, FlatIs
  <2> QED
    BY <2>2, <2>3 DEF Laid
<1>9. PICK f : f = FlattenSeq(s)
  OBVIOUS
<1>10. SumOf(l) \in Nat
  BY <1>2, SumsGrow
<1>11. f \in [1 .. SumOf(l) -> X]
  <2>1. f \in Seq(X) /\ Len(f) = SumOf(l)
    BY <1>8, <1>9
  <2> QED
    BY <2>1, <1>10, LenProperties
<1>12. f \in [1 .. SumOf(l) -> Nat] /\ \A p \in 1 .. SumOf(l) : f[p] # 0
  BY <1>11 DEF X
<1>13. ASSUME NEW h \in 1 .. n, NEW k \in 1 .. l[h] PROVE f[Sums(l)[h - 1] + k] = Len(AlphabetOf(h))
  <2>1. s[h] = row(h) /\ Len(s[h]) = l[h]
    BY <1>3, <1>4, <1>7
  <2>2. f[Sums(l)[h - 1] + k] = s[h][k]
    BY <1>8, <1>9, <2>1
  <2> QED
    BY <2>1, <2>2
<1> QED
  BY <1>1, <1>5, <1>7, <1>9, <1>10, <1>12, <1>13

\* The lengths of a sum are finitely many.
LEMMA LengthsAre ==
  ASSUME Ready, NEW n \in Nat
  PROVE  Lengths(n) = {l \in Widths : SumOf(l) = n} /\ IsFiniteSet(Lengths(n)) /\ Lengths(n) \subseteq [1 .. HoleCount -> Nat]
<1>1. PICK c : c = HoleCount
  OBVIOUS
<1>2. c \in Nat /\ DOMAIN Holes(sketch) = 1 .. c
  BY <1>1 DEF Ready
<1>3. ASSUME NEW l \in Lengths(n) PROVE l \in Widths /\ SumOf(l) = n
  <2>1. l \in [1 .. c -> 0 .. n] /\ SumOf(l) = n /\ \A h \in DOMAIN l : l[h] <= MaxOf(h)
    BY <1>2 DEF Lengths
  <2>2. l \in [1 .. c -> Nat] /\ DOMAIN l = 1 .. c
    BY <2>1
  <2> QED
    BY <1>1, <2>1, <2>2 DEF Widths
<1>4. ASSUME NEW l \in Widths, SumOf(l) = n PROVE l \in Lengths(n)
  <2>1. l \in [1 .. c -> Nat] /\ DOMAIN l = 1 .. c /\ \A h \in 1 .. c : l[h] <= MaxOf(h)
    BY <1>1 DEF Widths
  <2>2. ASSUME NEW h \in 1 .. c PROVE l[h] \in 0 .. n
    <3>1. l[h] <= n
      BY <1>2, <1>4, <2>1, PartOfSum
    <3>2. l[h] \in Nat
      BY <2>1
    <3> QED
      BY <3>1, <3>2
  <2>3. l \in [1 .. c -> 0 .. n]
    BY <2>1, <2>2
  <2> QED
    BY <1>2, <1>4, <2>1, <2>3 DEF Lengths
<1>5. IsFiniteSet(Lengths(n))
  <2>1. IsFiniteSet(1 .. c) /\ IsFiniteSet(0 .. n)
    BY <1>2, FS_Interval
  <2>2. IsFiniteSet([1 .. c -> 0 .. n])
    BY <2>1, FunctionsAreFinite
  <2>3. Lengths(n) \subseteq [1 .. c -> 0 .. n]
    BY <1>2 DEF Lengths
  <2> QED
    BY <2>2, <2>3, FS_Subset
<1>6. Widths \subseteq [1 .. HoleCount -> Nat]
  BY DEF Widths
<1> QED
  BY <1>3, <1>4, <1>5, <1>6

\* The next setting with the same lengths.
LEMMA NextSetting ==
  ASSUME Ready, NEW l \in Widths, NEW d \in Settings(l), NEW p \in 1 .. SumOf(l), d[p] < SizesAt(l)[p],
         \A q \in 1 .. SumOf(l) : d[q] < SizesAt(l)[q] => q <= p,
         NEW e \in [1 .. SumOf(l) -> Nat],
         \A q \in 1 .. SumOf(l) : (q < p => e[q] = d[q]) /\ (q = p => e[q] = d[q] + 1) /\ (q > p => e[q] = 1)
  PROVE  Follows(l, d, l, e)
<1>1. SumOf(l) \in Nat /\ SizesAt(l) \in [1 .. SumOf(l) -> Nat] /\ \A q \in 1 .. SumOf(l) : SizesAt(l)[q] # 0
  BY SizesAre
<1>2. /\ e \in Settings(l)
      /\ \A x \in Settings(l) : Precedes(x, e) <=> Precedes(x, d) \/ x = d
  <2>1. PICK n, sz : n = SumOf(l) /\ sz = SizesAt(l)
    OBVIOUS
  <2>2. /\ n \in Nat /\ sz \in [1 .. n -> Nat] /\ d \in Dials(n, sz) /\ p \in 1 .. n /\ d[p] < sz[p]
        /\ (\A q \in 1 .. n : d[q] < sz[q] => q <= p) /\ e \in [1 .. n -> Nat]
        /\ (\A q \in 1 .. n : sz[q] # 0)
    BY <1>1, <2>1 DEF Settings
  <2>3. \A q \in 1 .. n : (q < p => e[q] = d[q]) /\ (q = p => e[q] = d[q] + 1) /\ (q > p => e[q] = 1)
    BY <2>1
  <2>4. e \in Dials(n, sz) /\ \A x \in Dials(n, sz) : Precedes(x, e) <=> Precedes(x, d) \/ x = d
    <3>1. Turning(d, e, p, n, sz)
      BY <2>2, <2>3 DEF Turning
    <3> QED
      BY <3>1, NextDials
  <2> QED
    BY <2>1, <2>4 DEF Settings
<1>3. ASSUME NEW x \in Widths, NEW y \in Settings(x)
      PROVE  Comes(x, y, l, e) <=> Comes(x, y, l, d) \/ (x = l /\ y = d)
  BY <1>2 DEF Comes
<1> QED
  BY <1>2, <1>3 DEF Follows

\* The first setting with the next lengths.
LEMMA NextLengths ==
  ASSUME Ready, NEW l \in Widths, NEW d \in Settings(l), \A q \in 1 .. SumOf(l) : ~(d[q] < SizesAt(l)[q]),
         NEW m \in Widths,
         \A x \in Widths : SumOf(x) < SumOf(m) \/ (SumOf(x) = SumOf(m) /\ Precedes(x, m))
                             <=> SumOf(x) < SumOf(l) \/ (SumOf(x) = SumOf(l) /\ Precedes(x, l)) \/ x = l
  PROVE  Follows(l, d, m, [p \in 1 .. SumOf(m) |-> 1])
<1> DEFINE e == [p \in 1 .. SumOf(m) |-> 1]
<1>1. e \in Settings(m) /\ \A y \in Settings(m) : ~Precedes(y, e)
  <2>1. SumOf(m) \in Nat /\ SizesAt(m) \in [1 .. SumOf(m) -> Nat] /\ \A q \in 1 .. SumOf(m) : SizesAt(m)[q] # 0
    BY SizesAre
  <2> QED
    BY <2>1, FirstDials DEF Settings
<1>2. \A y \in Settings(l) : Precedes(y, d) \/ y = d
  <2>1. SumOf(l) \in Nat /\ SizesAt(l) \in [1 .. SumOf(l) -> Nat]
    BY SizesAre
  <2> QED
    BY <2>1, LastDials DEF Settings
<1> HIDE DEF e
<1>3. ASSUME NEW x \in Widths, NEW y \in Settings(x)
      PROVE  Comes(x, y, m, e) <=> Comes(x, y, l, d) \/ (x = l /\ y = d)
  <2>1. Comes(x, y, m, e) <=> SumOf(x) < SumOf(m) \/ (SumOf(x) = SumOf(m) /\ Precedes(x, m))
    BY <1>1 DEF Comes
  <2>2. Comes(x, y, l, d) \/ (x = l /\ y = d) <=> SumOf(x) < SumOf(l) \/ (SumOf(x) = SumOf(l) /\ Precedes(x, l)) \/ x = l
    BY <1>2 DEF Comes
  <2> QED
    BY <2>1, <2>2
<1> QED
  BY <1>1, <1>3 DEF Follows, e

\* The greatest of the lengths with the least sum that is more.
LEMMA MoreLengths ==
  ASSUME Ready, NEW l \in Widths, SumOf(l) < MaxTotal
  PROVE  Lengths(SumOf(l) + 1) # {}
<1>1. PICK n, mx : n = HoleCount /\ mx = [h \in DOMAIN Holes(sketch) |-> MaxOf(h)]
  OBVIOUS
<1>2. n \in Nat /\ mx \in [1 .. n -> Nat] /\ l \in [1 .. n -> Nat] /\ \A h \in 1 .. n : mx[h] = MaxOf(h) /\ l[h] <= mx[h]
  BY <1>1 DEF Ready, Widths
<1>3. SumOf(mx) = MaxTotal
  BY <1>1 DEF MaxTotal
<1>4. PICK h \in 1 .. n : ~(mx[h] <= l[h])
  <2>1. SUFFICES ASSUME \A h \in 1 .. n : mx[h] <= l[h] PROVE FALSE
    OBVIOUS
  <2>2. SumOf(mx) <= SumOf(l) /\ SumOf(mx) \in Nat /\ SumOf(l) \in Nat
    BY <1>2, <2>1, SumsLess
  <2> QED
    BY <1>3, <2>2
<1> DEFINE m == [l EXCEPT ![h] = @ + 1]
<1>5. m \in [1 .. n -> Nat] /\ m[h] = l[h] + 1 /\ \A g \in 1 .. n : g # h => m[g] = l[g]
  BY <1>2
<1> HIDE DEF m
<1>6. SumOf(m) = SumOf(l) + 1 /\ SumOf(l) + 1 \in Nat
  <2>1. l \in [1 .. n -> Int] /\ m \in [1 .. n -> Int] /\ 1 \in Int
    BY <1>2, <1>5
  <2>2. SumOf(m) = SumOf(l) + 1
    BY <1>2, <1>5, <2>1, SumsWithout
  <2>3. SumOf(l) \in Nat
    BY <1>2, SumsGrow
  <2> QED
    BY <2>2, <2>3
<1>7. m \in Widths
  <2>1. ASSUME NEW g \in 1 .. n PROVE m[g] <= mx[g]
    <3>1. l[h] \in Nat /\ mx[h] \in Nat /\ l[h] + 1 <= mx[h]
      BY <1>2, <1>4
    <3> QED
      BY <1>2, <1>5, <3>1
  <2> QED
    BY <1>1, <1>2, <1>5, <2>1 DEF Widths
<1> QED
  BY <1>6, <1>7, LengthsAre

\* A turn of the odometer shows the next setting, or stops after the last one.
LEMMA TurnOverShows ==
  ASSUME Ready, len \in Widths, digits \in Settings(len), total = SumOf(len), TurnOver, phase = "search"
  PROVE  \/ phase' = "search" /\ total' = SumOf(len') /\ Follows(len, digits, len', digits')
         \/ phase' = "done" /\ UNCHANGED clock /\ IsLast(len, digits)
<1>1. PICK n : n = SumOf(len)
  OBVIOUS
<1>2. n \in Nat /\ SizesAt(len) \in [1 .. n -> Nat] /\ \A p \in 1 .. n : SizesAt(len)[p] # 0
  BY <1>1, SizesAre
<1>3. digits \in [1 .. n -> Nat] /\ DOMAIN digits = 1 .. n /\ \A p \in 1 .. n : digits[p] \in Nat /\ digits[p] <= SizesAt(len)[p]
  BY <1>1 DEF Settings, Dials
<1>4. Turnable = {p \in 1 .. n : digits[p] < SizesAt(len)[p]}
  BY <1>3 DEF Turnable, Sizes
<1> DEFINE later == {l \in Lengths(total) : Precedes(len, l)}
<1>5. Lengths(n) = {l \in Widths : SumOf(l) = n} /\ IsFiniteSet(Lengths(n)) /\ Lengths(n) \subseteq [1 .. HoleCount -> Nat]
  BY <1>2, LengthsAre
<1>6. HoleCount \in Nat /\ Widths \subseteq [1 .. HoleCount -> Nat] /\ total = n
  BY <1>1 DEF Ready, Widths
<1>7. CASE Turnable # {}
  <2>1. digits' = Turned /\ UNCHANGED <<total, len, phase>>
    BY <1>7 DEF TurnOver
  <2>2. Turnable \subseteq Nat /\ \A p \in Turnable : p <= n
    BY <1>2, <1>4
  <2>3. \E p \in Turnable : \A q \in Turnable : p >= q
    BY <1>2, <1>7, <2>2, GreatestNumber
  <2>4. PICK p : p = CHOOSE x \in Turnable : \A q \in Turnable : q <= x
    OBVIOUS
  <2>5. p \in Turnable /\ \A q \in Turnable : q <= p
    <3>1. \E r \in Turnable : \A q \in Turnable : q <= r
      BY <2>2, <2>3
    <3> QED
      BY <2>4, <3>1
  <2>6. Turned = [q \in 1 .. n |-> CASE q < p -> digits[q] [] q = p -> digits[q] + 1 [] q > p -> 1]
    BY <1>3, <2>4 DEF Turned
  <2>7. p \in 1 .. n /\ digits[p] < SizesAt(len)[p] /\ \A q \in 1 .. n : digits[q] < SizesAt(len)[q] => q <= p
    BY <1>4, <2>5
  <2>8. \A q \in 1 .. n : /\ q < p => Turned[q] = digits[q]
                          /\ q = p => Turned[q] = digits[q] + 1
                          /\ q > p => Turned[q] = 1
    BY <2>6, <2>7
  <2>9. Turned \in [1 .. n -> Nat]
    <3>1. ASSUME NEW q \in 1 .. n PROVE Turned[q] \in Nat
      <4>1. q < p \/ q = p \/ q > p
        BY <2>7
      <4>2. digits[q] \in Nat
        BY <1>3
      <4> QED
        BY <2>8, <4>1, <4>2
    <3> QED
      BY <2>6, <3>1
  <2>10. Follows(len, digits, len, Turned)
    BY <1>1, <2>7, <2>8, <2>9, NextSetting
  <2> QED
    BY <2>1, <2>10
<1>8. ASSUME Turnable = {} PROVE \A q \in 1 .. SumOf(len) : ~(digits[q] < SizesAt(len)[q])
  BY <1>1, <1>4, <1>8
<1>9. \A x \in Widths : SumOf(x) \in Nat
  BY SizesAre
<1>10. CASE Turnable = {} /\ later # {}
  <2>1. ShowLengths(Least(later)) /\ UNCHANGED <<total, phase>>
    BY <1>10 DEF TurnOver
  <2>2. PICK m : m = Least(later)
    OBVIOUS
  <2>3. len' = m /\ digits' = [p \in 1 .. SumOf(m) |-> 1]
    BY <2>1, <2>2 DEF ShowLengths
  <2>4. later \subseteq Lengths(n)
    BY <1>6
  <2>5. later \subseteq [1 .. HoleCount -> Nat] /\ IsFiniteSet(later)
    BY <1>5, <2>4, FS_Subset
  <2>6. m \in later /\ \A x \in later \ {m} : Precedes(m, x)
    <3> HIDE DEF later
    <3> QED
      BY <1>6, <1>10, <2>2, <2>5, LeastIs
  <2>7. m \in Widths /\ SumOf(m) = n /\ Precedes(len, m)
    BY <1>5, <1>6, <2>6
  <2>8. ASSUME NEW x \in Widths
        PROVE  SumOf(x) < SumOf(m) \/ (SumOf(x) = SumOf(m) /\ Precedes(x, m))
                 <=> SumOf(x) < SumOf(len) \/ (SumOf(x) = SumOf(len) /\ Precedes(x, len)) \/ x = len
    <3>1. x \in [1 .. HoleCount -> Nat] /\ m \in [1 .. HoleCount -> Nat] /\ len \in [1 .. HoleCount -> Nat]
      BY <1>6, <2>7
    <3>2. ASSUME SumOf(x) = n, Precedes(x, m) PROVE Precedes(x, len) \/ x = len
      <4>1. SUFFICES ASSUME Precedes(len, x) PROVE FALSE
        BY <1>6, <3>1, LexIs
      <4>2. x \in later
        BY <1>5, <1>6, <3>2, <4>1
      <4>3. x = m \/ Precedes(m, x)
        BY <2>6, <4>2
      <4> QED
        BY <1>6, <3>1, <3>2, <4>3, LexIs
    <3>3. ASSUME Precedes(x, len) PROVE Precedes(x, m)
      BY <1>6, <2>7, <3>1, <3>3, LexTrans
    <3> QED
      BY <1>1, <2>7, <3>2, <3>3
  <2>9. Follows(len, digits, m, [p \in 1 .. SumOf(m) |-> 1])
    BY <1>8, <1>10, <2>7, <2>8, NextLengths
  <2> QED
    BY <1>1, <2>1, <2>3, <2>7, <2>9
<1>11. ASSUME later = {}, NEW x \in Widths, SumOf(x) = n PROVE Precedes(x, len) \/ x = len
  <2>1. ~Precedes(len, x)
    BY <1>5, <1>6, <1>11
  <2>2. x \in [1 .. HoleCount -> Nat] /\ len \in [1 .. HoleCount -> Nat]
    BY <1>6
  <2> QED
    BY <1>6, <2>1, <2>2, LexIs
<1>12. CASE Turnable = {} /\ later = {} /\ total < MaxTotal
  <2>1. total' = total + 1 /\ ShowLengths(Least(Lengths(total + 1))) /\ UNCHANGED phase
    BY <1>12 DEF TurnOver
  <2>2. PICK m : m = Least(Lengths(n + 1))
    OBVIOUS
  <2>3. len' = m /\ digits' = [p \in 1 .. SumOf(m) |-> 1]
    BY <1>6, <2>1, <2>2 DEF ShowLengths
  <2>4. /\ Lengths(n + 1) = {l \in Widths : SumOf(l) = n + 1} /\ IsFiniteSet(Lengths(n + 1))
        /\ Lengths(n + 1) \subseteq [1 .. HoleCount -> Nat]
    <3>1. n + 1 \in Nat
      BY <1>2
    <3> QED
      BY <3>1, LengthsAre
  <2>5. Lengths(n + 1) # {}
    BY <1>1, <1>6, <1>12, MoreLengths
  <2>6. m \in Lengths(n + 1) /\ \A x \in Lengths(n + 1) \ {m} : Precedes(m, x)
    BY <1>6, <2>2, <2>4, <2>5, LeastIs
  <2>7. m \in Widths /\ SumOf(m) = n + 1
    BY <2>4, <2>6
  <2>8. ASSUME NEW x \in Widths
        PROVE  SumOf(x) < SumOf(m) \/ (SumOf(x) = SumOf(m) /\ Precedes(x, m))
                 <=> SumOf(x) < SumOf(len) \/ (SumOf(x) = SumOf(len) /\ Precedes(x, len)) \/ x = len
    <3>1. x \in [1 .. HoleCount -> Nat] /\ m \in [1 .. HoleCount -> Nat]
      BY <1>6, <2>7
    <3>2. ASSUME SumOf(x) = n + 1 PROVE ~Precedes(x, m)
      <4>1. x = m \/ Precedes(m, x)
        BY <2>4, <2>6, <3>2
      <4> QED
        BY <1>6, <3>1, <4>1, LexIs
    <3>3. SumOf(x) \in Nat
      BY <1>9
    <3>4. SumOf(x) = n => Precedes(x, len) \/ x = len
      BY <1>11, <1>12
    <3>5. SumOf(x) < n + 1 <=> SumOf(x) < n \/ SumOf(x) = n
      BY <1>2, <3>3
    <3> QED
      BY <1>1, <2>7, <3>2, <3>4, <3>5
  <2>9. Follows(len, digits, m, [p \in 1 .. SumOf(m) |-> 1])
    BY <1>8, <1>12, <2>7, <2>8, NextLengths
  <2> QED
    BY <1>6, <2>1, <2>3, <2>7, <2>9
<1>13. CASE Turnable = {} /\ later = {} /\ ~(total < MaxTotal)
  <2>1. phase' = "done" /\ UNCHANGED clock
    BY <1>13 DEF TurnOver
  <2>2. ASSUME NEW x \in Widths, NEW y \in Settings(x) PROVE Comes(x, y, len, digits) \/ (x = len /\ y = digits)
    <3>1. SumOf(x) <= MaxTotal /\ MaxTotal \in Nat /\ SumOf(x) \in Nat
      <4>1. PICK c, mx : c = HoleCount /\ mx = [h \in DOMAIN Holes(sketch) |-> MaxOf(h)]
        OBVIOUS
      <4>2. c \in Nat /\ mx \in [1 .. c -> Nat] /\ x \in [1 .. c -> Nat] /\ \A h \in 1 .. c : x[h] <= mx[h]
        BY <4>1 DEF Ready, Widths
      <4>3. SumOf(x) <= SumOf(mx) /\ SumOf(x) \in Nat /\ SumOf(mx) \in Nat
        BY <4>2, SumsLess
      <4> QED
        BY <4>1, <4>3 DEF MaxTotal
    <3>2. SumOf(x) < n \/ SumOf(x) = n
      BY <1>2, <1>6, <1>13, <3>1
    <3>3. SumOf(x) = n => Precedes(x, len) \/ x = len
      BY <1>11, <1>13
    <3>4. x = len => Precedes(y, digits) \/ y = digits
      <4>1. SUFFICES ASSUME x = len PROVE Precedes(y, digits) \/ y = digits
        OBVIOUS
      <4>2. \A q \in 1 .. n : ~(digits[q] < SizesAt(len)[q])
        BY <1>1, <1>8, <1>13
      <4>3. digits \in Dials(n, SizesAt(len)) /\ y \in Dials(n, SizesAt(len))
        BY <1>1, <4>1 DEF Settings
      <4> QED
        BY <1>2, <4>2, <4>3, LastDials
    <3> QED
      BY <1>1, <3>2, <3>3, <3>4 DEF Comes
  <2> QED
    BY <2>1, <2>2 DEF IsLast
<1> HIDE DEF later
<1>14. \/ Turnable # {}
       \/ Turnable = {} /\ later # {}
       \/ Turnable = {} /\ later = {} /\ total < MaxTotal
       \/ Turnable = {} /\ later = {} /\ ~(total < MaxTotal)
  OBVIOUS
<1> QED
  BY <1>7, <1>10, <1>12, <1>13, <1>14
-----------------------------------------------------------------------------
(* Sketches.                                                               *)

\* What has been read of the lines L: items are holes and instructions, and the labels stand at items.
Placed == [name : STRING, at : Nat]
NoBlanks(items) == \A i \in DOMAIN items : items[i].kind # "blank"
Reading(L) ==
  {s \in [items : Seq(L), labels : Seq(Placed), pending : Seq(STRING)] :
     NoBlanks(s.items) /\ \A i \in DOMAIN s.labels : s.labels[i].at \in 1 .. Len(s.items)}

Place(s) == s.labels \o [i \in DOMAIN s.pending |-> [name |-> s.pending[i], at |-> Len(s.items) + 1]]
AddLine(s, line) ==
  LET t == [s EXCEPT !.pending = @ \o line.labels]
  IN IF line.kind = "blank" THEN t
     ELSE [items |-> Append(t.items, line), labels |-> Place(t), pending |-> <<>>]

IsSketch(sk, L) ==
  /\ sk.items \in Seq(L) /\ NoBlanks(sk.items) /\ sk.labels \in Seq(Placed)
  /\ \A i \in DOMAIN sk.labels : sk.labels[i].at \in 1 .. Len(sk.items) + 1

\* Labels that are placed stand at the next item.
LEMMA PlaceIs ==
  ASSUME NEW L, NEW s \in Reading(L)
  PROVE  /\ Place(s) \in Seq(Placed)
         /\ \A i \in DOMAIN Place(s) : Place(s)[i].at \in 1 .. Len(s.items) + 1
<1> DEFINE more == [i \in DOMAIN s.pending |-> [name |-> s.pending[i], at |-> Len(s.items) + 1]]
<1>1. /\ s.items \in Seq(L) /\ s.labels \in Seq(Placed) /\ s.pending \in Seq(STRING)
      /\ \A i \in DOMAIN s.labels : s.labels[i].at \in 1 .. Len(s.items)
  BY DEF Reading
<1>2. PICK n, m, c : n = Len(s.items) /\ m = Len(s.pending) /\ c = Len(s.labels)
  OBVIOUS
<1>3. n \in Nat /\ m \in Nat /\ c \in Nat /\ DOMAIN s.pending = 1 .. m /\ DOMAIN s.labels = 1 .. c /\ \A i \in 1 .. m : s.pending[i] \in STRING
  BY <1>1, <1>2, LenProperties, ElementOfSeq
<1>4. more \in [1 .. m -> Placed] /\ \A i \in 1 .. m : more[i].at = n + 1
  BY <1>2, <1>3 DEF Placed
<1> HIDE DEF more
<1>5. more \in Seq(Placed) /\ Len(more) = m
  BY <1>3, <1>4, SeqIs
<1>6. PICK u : u = s.labels
  OBVIOUS
<1>7. u \in Seq(Placed) /\ Len(u) = c
  BY <1>1, <1>2, <1>6
<1>8. /\ u \o more \in Seq(Placed) /\ Len(u \o more) = c + m
      /\ \A p \in 1 .. c + m : (u \o more)[p] = IF p <= c THEN u[p] ELSE more[p - c]
  BY <1>5, <1>7, ConcatProperties
<1>9. DOMAIN (u \o more) = 1 .. c + m
  BY <1>8, LenProperties
<1>10. ASSUME NEW p \in 1 .. c + m PROVE (u \o more)[p].at \in 1 .. n + 1
  <2>1. CASE p <= c
    <3>1. p \in 1 .. c
      BY <1>3, <2>1
    <3>2. u[p].at \in 1 .. n
      BY <1>1, <1>2, <1>3, <1>6, <3>1
    <3> QED
      BY <1>3, <1>8, <2>1, <3>2
  <2>2. CASE ~(p <= c)
    <3>1. p - c \in 1 .. m
      BY <1>3, <2>2
    <3>2. more[p - c].at = n + 1
      BY <1>4, <3>1
    <3>3. (u \o more)[p] = more[p - c]
      BY <1>8, <2>2
    <3> QED
      BY <1>3, <3>2, <3>3
  <2> QED
    BY <2>1, <2>2
<1>11. Place(s) = u \o more
  BY <1>6 DEF Place, more
<1> QED
  BY <1>2, <1>8, <1>9, <1>10, <1>11

\* A line is read.
LEMMA AddLineIs ==
  ASSUME NEW L, NEW s \in Reading(L), NEW line \in L, line.labels \in Seq(STRING)
  PROVE  AddLine(s, line) \in Reading(L)
<1> DEFINE t == [s EXCEPT !.pending = @ \o line.labels]
<1>1. /\ s \in [items : Seq(L), labels : Seq(Placed), pending : Seq(STRING)]
      /\ s.items \in Seq(L) /\ s.labels \in Seq(Placed) /\ s.pending \in Seq(STRING)
      /\ NoBlanks(s.items) /\ \A i \in DOMAIN s.labels : s.labels[i].at \in 1 .. Len(s.items)
  BY DEF Reading
<1>2. s.pending \o line.labels \in Seq(STRING)
  BY <1>1, ConcatProperties
<1>3. t \in [items : Seq(L), labels : Seq(Placed), pending : Seq(STRING)] /\ t.items = s.items /\ t.labels = s.labels
  BY <1>1, <1>2
<1>4. t \in Reading(L)
  BY <1>1, <1>3 DEF Reading
<1>5. CASE line.kind = "blank"
  BY <1>4, <1>5 DEF AddLine
<1>6. CASE line.kind # "blank"
  <2> HIDE DEF t
  <2>1. PICK n, u, v, p : n = Len(s.items) /\ u = s.items /\ v = Append(u, line) /\ p = Place(t)
    OBVIOUS
  <2>2. n \in Nat /\ v \in Seq(L) /\ Len(v) = n + 1 /\ NoBlanks(v)
    <3>1. /\ n \in Nat /\ v \in Seq(L) /\ Len(v) = n + 1 /\ v[n + 1] = line
          /\ \A i \in 1 .. n : v[i] = u[i]
      BY <1>1, <2>1, AppendProperties, LenProperties
    <3>2. DOMAIN v = 1 .. n + 1 /\ DOMAIN u = 1 .. n
      BY <1>1, <2>1, <3>1, LenProperties
    <3>3. \A i \in 1 .. n : u[i].kind # "blank"
      BY <1>1, <2>1, <3>2 DEF NoBlanks
    <3>4. \A i \in 1 .. n + 1 : v[i].kind # "blank"
      BY <1>6, <3>1, <3>3
    <3> QED
      BY <3>1, <3>2, <3>4 DEF NoBlanks
  <2>3. p \in Seq(Placed) /\ \A i \in DOMAIN p : p[i].at \in 1 .. n + 1
    BY <1>3, <1>4, <2>1, PlaceIs
  <2>4. <<>> \in Seq(STRING)
    BY EmptySeq
  <2> DEFINE r == [items |-> v, labels |-> p, pending |-> <<>>]
  <2>5. r \in [items : Seq(L), labels : Seq(Placed), pending : Seq(STRING)] /\ r.items = v /\ r.labels = p
    BY <2>2, <2>3, <2>4
  <2>6. r \in Reading(L)
    BY <2>2, <2>3, <2>5 DEF Reading
  <2>7. AddLine(s, line) = r
    BY <1>3, <1>6, <2>1 DEF AddLine, t
  <2> QED
    BY <2>6, <2>7
<1> QED
  BY <1>5, <1>6

\* What parse returns.
LEMMA ParseIs ==
  ASSUME NEW L, NEW lines \in Seq(L), \A line \in L : line.labels \in Seq(STRING)
  PROVE  IsSketch(Parse(lines), L)
<1>1. PICK n, X, z : n = Len(lines) /\ X = Reading(L) /\ z = [items |-> <<>>, labels |-> <<>>, pending |-> <<>>]
  OBVIOUS
<1>2. n \in Nat /\ \A i \in 1 .. n : lines[i] \in L
  BY <1>1, LenProperties, ElementOfSeq
<1>3. z \in X
  <2>1. <<>> \in Seq(L) /\ <<>> \in Seq(Placed) /\ <<>> \in Seq(STRING)
    BY EmptySeq
  <2>2. z \in [items : Seq(L), labels : Seq(Placed), pending : Seq(STRING)] /\ z.labels = <<>> /\ z.items = <<>>
    BY <1>1, <2>1
  <2>3. DOMAIN z.labels = {} /\ DOMAIN z.items = {}
    BY <2>2
  <2> QED
    BY <1>1, <2>2, <2>3 DEF Reading, NoBlanks
<1>4. \A i \in 1 .. n : \A s \in X : AddLine(s, lines[i]) \in X
  BY <1>1, <1>2, AddLineIs
<1> DEFINE step == [i \in 1 .. n |-> [s \in X |-> AddLine(s, lines[i])]]
           Rule(f) == f = [i \in 0 .. n |-> IF i = 0 THEN z ELSE AddLine(f[i - 1], lines[i])]
           kept == CHOOSE f : Rule(f)
<1>5. step \in Steps(n, X)
  BY <1>4 DEF Steps
<1>6. PICK f \in [0 .. n -> X] : f[0] = z /\ \A k \in 1 .. n : f[k] = step[k][f[k - 1]]
  <2> HIDE DEF step
  <2> QED
    BY <1>2, <1>3, <1>5, Recursion
<1>7. Rule(f)
  <2>1. ASSUME NEW i \in 0 .. n PROVE f[i] = IF i = 0 THEN z ELSE AddLine(f[i - 1], lines[i])
    <3>1. CASE i = 0
      BY <1>6, <3>1
    <3>2. CASE i # 0
      <4>1. i \in 1 .. n /\ i - 1 \in 0 .. n
        BY <1>2, <3>2
      <4>2. f[i] = step[i][f[i - 1]] /\ f[i - 1] \in X
        BY <1>6, <4>1
      <4> QED
        BY <3>2, <4>1, <4>2
    <3> QED
      BY <3>1, <3>2
  <2> QED
    BY <1>6, <2>1
<1>8. Rule(kept)
  <2> HIDE DEF Rule
  <2> QED
    BY <1>7
<1>9. PICK read : read = kept
  OBVIOUS
<1>10. read = [i \in 0 .. n |-> IF i = 0 THEN z ELSE AddLine(read[i - 1], lines[i])]
  <2> HIDE DEF kept
  <2> QED
    BY <1>8, <1>9
<1>11. Parse(lines) = [items |-> read[n].items, labels |-> Place(read[n])]
  BY <1>1, <1>9 DEF Parse, Place, AddLine
<1> HIDE DEF kept, Rule, step
<1> DEFINE S == {i \in Nat : i <= n => read[i] \in X}
<1>12. 0 \in S
  BY <1>2, <1>3, <1>10
<1>13. ASSUME NEW i \in Nat, i \in S PROVE i + 1 \in S
  <2>1. SUFFICES ASSUME i + 1 <= n PROVE read[i + 1] \in X
    OBVIOUS
  <2>2. i + 1 \in 1 .. n /\ i + 1 \in 0 .. n /\ (i + 1) - 1 = i /\ i <= n /\ i + 1 # 0
    BY <1>2, <2>1
  <2>3. read[i + 1] = AddLine(read[i], lines[i + 1])
    BY <1>10, <2>2
  <2> QED
    BY <1>4, <1>13, <2>2, <2>3
<1>14. read[n] \in X
  <2> HIDE DEF S
  <2>1. Nat \subseteq S
    BY <1>12, <1>13, NumberInduction
  <2> QED
    BY <1>2, <2>1 DEF S
<1>15. PICK s : s = read[n]
  OBVIOUS
<1>16. s.items \in Seq(L) /\ NoBlanks(s.items) /\ Place(s) \in Seq(Placed) /\ \A i \in DOMAIN Place(s) : Place(s)[i].at \in 1 .. Len(s.items) + 1
  <2>1. s \in Reading(L)
    BY <1>1, <1>14, <1>15
  <2>2. s.items \in Seq(L) /\ NoBlanks(s.items)
    BY <2>1 DEF Reading
  <2> QED
    BY <2>1, <2>2, PlaceIs
<1>17. Parse(lines).items = s.items /\ Parse(lines).labels = Place(s)
  BY <1>11, <1>15
<1> QED
  BY <1>16, <1>17 DEF IsSketch
-----------------------------------------------------------------------------
(* The holes of a sketch.                                                  *)

\* The rows that Holes lays end to end.
HoleRows(sk) == [i \in DOMAIN sk.items |-> IF IsHole(sk.items[i]) THEN <<sk.items[i]>> ELSE <<>>]

\* Every hole has a number of its own, in the order of the items.
Numbered(sk) ==
  /\ \A i \in 1 .. Len(sk.items) : IsHole(sk.items[i]) =>
       HoleAt(sk, i) \in 1 .. Len(Holes(sk)) /\ Holes(sk)[HoleAt(sk, i)] = sk.items[i]
  /\ \A h \in 1 .. Len(Holes(sk)) : \E i \in 1 .. Len(sk.items) : IsHole(sk.items[i]) /\ HoleAt(sk, i) = h
  /\ \A i, j \in 1 .. Len(sk.items) : IsHole(sk.items[i]) /\ IsHole(sk.items[j]) /\ HoleAt(sk, i) = HoleAt(sk, j) => i = j

LEMMA HolesAre ==
  ASSUME NEW L, NEW sk, IsSketch(sk, L)
  PROVE  Holes(sk) \in Seq({line \in L : IsHole(line)}) /\ Numbered(sk)
<1>1. PICK n, items, X : n = Len(sk.items) /\ items = sk.items /\ X = {line \in L : IsHole(line)}
  OBVIOUS
<1>2. n \in Nat /\ DOMAIN items = 1 .. n /\ \A i \in 1 .. n : items[i] \in L
  BY <1>1, LenProperties, ElementOfSeq DEF IsSketch
<1>3. PICK rows : rows = HoleRows(sk)
  OBVIOUS
<1>4. /\ DOMAIN rows = 1 .. n
      /\ \A i \in 1 .. n : /\ rows[i] \in Seq(X)
                           /\ Len(rows[i]) = IF IsHole(items[i]) THEN 1 ELSE 0
                           /\ IsHole(items[i]) => rows[i][1] = items[i]
  <2>1. rows = [i \in 1 .. n |-> IF IsHole(items[i]) THEN <<items[i]>> ELSE <<>>]
    BY <1>1, <1>2, <1>3 DEF HoleRows
  <2>2. ASSUME NEW i \in 1 .. n
        PROVE  /\ rows[i] \in Seq(X)
               /\ Len(rows[i]) = IF IsHole(items[i]) THEN 1 ELSE 0
               /\ IsHole(items[i]) => rows[i][1] = items[i]
    <3>1. CASE IsHole(items[i])
      <4>1. items[i] \in X
        BY <1>1, <1>2, <3>1
      <4>2. PICK v : v = items[i]
        OBVIOUS
      <4>3. <<v>> \in Seq(X) /\ Len(<<v>>) = 1 /\ <<v>>[1] = v
        BY <4>1, <4>2
      <4> QED
        BY <2>1, <3>1, <4>2, <4>3
    <3>2. CASE ~IsHole(items[i])
      <4>1. rows[i] = <<>>
        BY <2>1, <3>2
      <4>2. <<>> \in Seq(X) /\ Len(<<>>) = 0
        BY EmptySeq
      <4> QED
        BY <3>2, <4>1, <4>2
    <3> QED
      BY <3>1, <3>2
  <2> QED
    BY <2>1, <2>2
<1>5. rows \in [1 .. n -> Seq(X)]
  <2>1. rows = [i \in 1 .. n |-> rows[i]]
    BY <1>1, <1>2, <1>3 DEF HoleRows
  <2> QED
    BY <1>4, <2>1
<1>6. Laid(FlattenSeq(rows), rows, n, X)
  <2>1. Rows(rows, n, X)
    BY <1>2, <1>5 DEF Rows
  <2> QED
    BY <2>1, FlatIs
<1>7. FlattenSeq(rows) = Holes(sk)
  BY <1>3 DEF Holes, HoleRows
<1>8. PICK l, hs : l = Lens(rows) /\ hs = Holes(sk)
  OBVIOUS
<1>9. /\ l \in [1 .. n -> Nat] /\ hs \in Seq(X) /\ Len(hs) = SumOf(l)
      /\ \A i \in 1 .. n : \A k \in 1 .. Len(rows[i]) : hs[Sums(l)[i - 1] + k] = rows[i][k]
  BY <1>6, <1>7, <1>8 DEF Laid
<1>10. \A i \in 1 .. n : l[i] = IF IsHole(items[i]) THEN 1 ELSE 0
  BY <1>4, <1>8 DEF Lens
<1>11. [j \in DOMAIN sk.items |-> IF IsHole(sk.items[j]) THEN 1 ELSE 0] = l
  <2>1. l = [i \in 1 .. n |-> l[i]]
    BY <1>9
  <2>2. [i \in 1 .. n |-> l[i]] = [i \in 1 .. n |-> IF IsHole(items[i]) THEN 1 ELSE 0]
    BY <1>10
  <2> QED
    BY <1>1, <1>2, <2>1, <2>2
<1>12. ASSUME NEW i \in 1 .. n PROVE HoleAt(sk, i) = Sums(l)[i]
  BY <1>11 DEF HoleAt
<1>13. ASSUME NEW i \in 1 .. n, IsHole(items[i])
       PROVE  Sums(l)[i] = Sums(l)[i - 1] + 1 /\ Sums(l)[i] \in 1 .. SumOf(l) /\ 1 \in 1 .. l[i]
  <2>1. l \in [1 .. n -> Int]
    BY <1>9
  <2>2. l[i] = 1
    BY <1>10, <1>13
  <2>3. Sums(l)[i] = Sums(l)[i - 1] + l[i]
    <3>1. \A j \in 1 .. n : Sums(l)[j] = Sums(l)[j - 1] + l[j]
      BY <1>2, <2>1, SumsAre
    <3> QED
      BY <3>1
  <2>4. 1 \in 1 .. l[i]
    BY <2>2
  <2>5. \A h \in 1 .. n : \A k \in 1 .. l[h] : Sums(l)[h - 1] + k \in 1 .. SumOf(l)
    BY <1>2, <1>9, PartsTile
  <2>6. Sums(l)[i - 1] + 1 \in 1 .. SumOf(l)
    BY <2>4, <2>5
  <2> QED
    BY <2>2, <2>3, <2>4, <2>6
<1>14. ASSUME NEW i \in 1 .. n, IsHole(items[i])
       PROVE  HoleAt(sk, i) \in 1 .. Len(hs) /\ hs[HoleAt(sk, i)] = items[i]
  <2>1. Len(rows[i]) = 1 /\ rows[i][1] = items[i] /\ 1 \in 1 .. Len(rows[i])
    BY <1>4, <1>14
  <2>2. hs[Sums(l)[i - 1] + 1] = rows[i][1]
    BY <1>9, <2>1
  <2>3. Sums(l)[i] = Sums(l)[i - 1] + 1 /\ Sums(l)[i] \in 1 .. SumOf(l)
    BY <1>13, <1>14
  <2> QED
    BY <1>9, <1>12, <2>1, <2>2, <2>3
<1>15. ASSUME NEW h \in 1 .. Len(hs) PROVE \E i \in 1 .. n : IsHole(items[i]) /\ HoleAt(sk, i) = h
  <2>1. n \in Nat /\ l \in [1 .. n -> Nat] /\ h \in 1 .. SumOf(l)
    BY <1>2, <1>9
  <2>2. PICK i \in 1 .. n : \E k \in 1 .. l[i] : h = Sums(l)[i - 1] + k
    BY <2>1, PartOf
  <2>3. PICK k \in 1 .. l[i] : h = Sums(l)[i - 1] + k
    BY <2>2
  <2>4. IsHole(items[i]) /\ k = 1
    BY <1>10
  <2> QED
    BY <1>12, <1>13, <2>3, <2>4
<1>16. ASSUME NEW i \in 1 .. n, NEW j \in 1 .. n, IsHole(items[i]), IsHole(items[j]), HoleAt(sk, i) = HoleAt(sk, j) PROVE i = j
  <2>1. \A h, g \in 1 .. n : \A k \in 1 .. l[h], m \in 1 .. l[g] :
          Sums(l)[h - 1] + k = Sums(l)[g - 1] + m => h = g /\ k = m
    BY <1>2, <1>9, PartsTile
  <2>2. Sums(l)[i] = Sums(l)[i - 1] + 1 /\ 1 \in 1 .. l[i]
    BY <1>13, <1>16
  <2>3. Sums(l)[j] = Sums(l)[j - 1] + 1 /\ 1 \in 1 .. l[j]
    BY <1>13, <1>16
  <2>4. Sums(l)[i - 1] + 1 = Sums(l)[j - 1] + 1
    BY <1>12, <1>16, <2>2, <2>3
  <2> QED
    BY <2>1, <2>2, <2>3, <2>4
<1> QED
  BY <1>1, <1>8, <1>9, <1>14, <1>15, <1>16 DEF Numbered

\* The sketch is that of the problem, and what is not rejected is ready.
SketchInv ==
  /\ prob \in SketchProblems /\ sketch = Parse(prob.lines)
  /\ phase \in {"search", "done", "rejected"}
  /\ phase # "rejected" => Accepts(prob, sketch)

LEMMA SketchFacts ==
  ASSUME SketchInv
  PROVE  /\ IsSketch(sketch, ToSet(prob.lines)) /\ \A line \in ToSet(prob.lines) : IsLine(line)
         /\ phase # "rejected" => Ready
<1>1. IsSketchProblem(prob)
  BY SketchProblemsAssumption DEF SketchInv
<1>2. PICK L : L = ToSet(prob.lines)
  OBVIOUS
<1>3. prob.lines \in Seq(L) /\ \A line \in L : IsLine(line)
  BY <1>1, <1>2 DEF IsSketchProblem
<1>4. \A line \in L : line.labels \in Seq(STRING)
  BY <1>3 DEF IsLine
<1>5. IsSketch(sketch, L)
  <2>1. IsSketch(Parse(prob.lines), L)
    BY <1>3, <1>4, ParseIs
  <2> QED
    BY <2>1 DEF SketchInv
<1>6. PICK hs, n : hs = Holes(sketch) /\ n = Len(hs)
  OBVIOUS
<1>7. hs \in Seq({line \in L : IsHole(line)})
  BY <1>5, <1>6, HolesAre
<1>8. n \in Nat /\ DOMAIN hs = 1 .. n /\ \A h \in 1 .. n : hs[h] \in {line \in L : IsHole(line)} /\ hs[h] \in ToSet(hs)
  <2>1. n \in Nat /\ DOMAIN hs = 1 .. n /\ \A h \in 1 .. n : hs[h] \in {line \in L : IsHole(line)}
    BY <1>6, <1>7, LenProperties, ElementOfSeq
  <2> QED
    BY <2>1 DEF ToSet
<1>9. ASSUME phase # "rejected", NEW h \in 1 .. n
      PROVE  MaxOf(h) \in Nat /\ AlphabetOf(h) \in Seq(Fillers) /\ (MaxOf(h) # 0 => Len(AlphabetOf(h)) # 0)
  <2>1. PICK hole : hole = hs[h]
    OBVIOUS
  <2>2. hole \in L /\ IsHole(hole) /\ hole \in ToSet(hs)
    BY <1>8, <2>1
  <2>3. hole.max \in Nat
    BY <1>3, <2>2 DEF IsLine, IsHole
  <2>4. hole.alphabet \in DOMAIN prob.alphabets /\ (prob.alphabets[hole.alphabet] = <<>> => hole.max = 0)
    BY <1>6, <1>9, <2>2 DEF SketchInv, Accepts
  <2>5. PICK a : a = prob.alphabets[hole.alphabet]
    OBVIOUS
  <2>6. a \in Seq(Fillers)
    BY <1>1, <2>4, <2>5 DEF IsSketchProblem, Fillers
  <2>7. Len(a) = 0 => a = <<>>
    BY <2>6, EmptySeq
  <2>8. MaxOf(h) = hole.max /\ AlphabetOf(h) = a
    BY <1>6, <2>1, <2>5 DEF MaxOf, AlphabetOf
  <2> QED
    BY <2>3, <2>4, <2>5, <2>6, <2>7, <2>8
<1> QED
  BY <1>2, <1>3, <1>5, <1>6, <1>8, <1>9 DEF Ready, HoleCount
-----------------------------------------------------------------------------
(* Fills.                                                                  *)

\* What AllFills ranges over.
LEMMA AllFillsAre ==
  ASSUME Ready, NEW fs
  PROVE  fs \in AllFills <=>
           /\ fs = [h \in 1 .. HoleCount |-> fs[h]]
           /\ \A h \in 1 .. HoleCount : \E n \in 0 .. MaxOf(h) : fs[h] \in [1 .. n -> ToSet(AlphabetOf(h))]
<1>1. PICK c : c = HoleCount
  OBVIOUS
<1>2. DOMAIN Holes(sketch) = 1 .. c
  BY <1>1 DEF Ready
<1> DEFINE U == UNION {FillsOf(h) : h \in 1 .. c}
<1>3. AllFills = {gs \in [1 .. c -> U] : \A h \in 1 .. c : gs[h] \in FillsOf(h)}
  BY <1>2 DEF AllFills
<1>4. ASSUME NEW h \in 1 .. c
      PROVE  /\ FillsOf(h) \subseteq U
             /\ \A f : f \in FillsOf(h) <=> \E n \in 0 .. MaxOf(h) : f \in [1 .. n -> ToSet(AlphabetOf(h))]
  BY DEF FillsOf
<1> HIDE DEF U
<1>5. fs \in AllFills <=> fs \in [1 .. c -> U] /\ \A h \in 1 .. c : fs[h] \in FillsOf(h)
  BY <1>3
<1>6. fs \in AllFills <=> fs = [h \in 1 .. c |-> fs[h]] /\ \A h \in 1 .. c : fs[h] \in FillsOf(h)
  BY <1>4, <1>5
<1> QED
  BY <1>1, <1>4, <1>6

\* The instruction that a setting shows at a place.
LEMMA FillsAtIs ==
  ASSUME Ready, NEW l \in Widths, NEW d \in Settings(l)
  PROVE  /\ FillsAt(l, d) = [h \in 1 .. HoleCount |-> FillsAt(l, d)[h]]
         /\ \A h \in 1 .. HoleCount :
              /\ FillsAt(l, d)[h] \in [1 .. l[h] -> ToSet(AlphabetOf(h))] /\ l[h] \in 0 .. MaxOf(h)
              /\ \A k \in 1 .. l[h] : /\ d[Sums(l)[h - 1] + k] \in 1 .. Len(AlphabetOf(h))
                                      /\ FillsAt(l, d)[h][k] = AlphabetOf(h)[d[Sums(l)[h - 1] + k]]
<1>1. PICK c : c = HoleCount
  OBVIOUS
<1>2. c \in Nat /\ l \in [1 .. c -> Nat] /\ DOMAIN l = 1 .. c /\ \A h \in 1 .. c : l[h] \in 0 .. MaxOf(h)
  BY <1>1 DEF Ready, Widths
<1>3. FillsAt(l, d) = [h \in 1 .. c |-> [k \in 1 .. l[h] |-> AlphabetOf(h)[d[Sums(l)[h - 1] + k]]]]
  BY <1>2 DEF FillsAt
<1>4. ASSUME NEW h \in 1 .. c, NEW k \in 1 .. l[h]
      PROVE  /\ d[Sums(l)[h - 1] + k] \in 1 .. Len(AlphabetOf(h))
             /\ AlphabetOf(h)[d[Sums(l)[h - 1] + k]] \in ToSet(AlphabetOf(h))
  <2>1. PICK p, z, n, s : p = Sums(l)[h - 1] + k /\ z = SizesAt(l) /\ n = SumOf(l) /\ s = AlphabetOf(h)
    OBVIOUS
  <2>2. p \in 1 .. n
    <3>1. \A g \in 1 .. c : \A j \in 1 .. l[g] : Sums(l)[g - 1] + j \in 1 .. SumOf(l)
      BY <1>2, PartsTile
    <3> QED
      BY <2>1, <3>1
  <2>3. z[p] = Len(s)
    <3>1. \A g \in 1 .. HoleCount : \A j \in 1 .. l[g] : SizesAt(l)[Sums(l)[g - 1] + j] = Len(AlphabetOf(g))
      BY SizesAre
    <3> QED
      BY <1>1, <2>1, <3>1
  <2>4. d[p] \in Nat /\ 1 <= d[p] /\ d[p] <= z[p]
    BY <2>1, <2>2 DEF Settings, Dials
  <2>5. s \in Seq(Fillers)
    BY <1>1, <2>1 DEF Ready
  <2>6. DOMAIN s = 1 .. Len(s) /\ Len(s) \in Nat
    BY <2>5, LenProperties
  <2>7. d[p] \in 1 .. Len(s)
    BY <2>3, <2>4, <2>6
  <2>8. s[d[p]] \in ToSet(s)
    BY <2>6, <2>7 DEF ToSet
  <2> QED
    BY <2>1, <2>7, <2>8
<1>5. ASSUME NEW h \in 1 .. c
      PROVE  /\ FillsAt(l, d)[h] \in [1 .. l[h] -> ToSet(AlphabetOf(h))]
             /\ \A k \in 1 .. l[h] : FillsAt(l, d)[h][k] = AlphabetOf(h)[d[Sums(l)[h - 1] + k]]
  <2>1. FillsAt(l, d)[h] = [k \in 1 .. l[h] |-> AlphabetOf(h)[d[Sums(l)[h - 1] + k]]]
    BY <1>3
  <2> QED
    BY <1>4, <2>1
<1>6. FillsAt(l, d) = [h \in 1 .. c |-> FillsAt(l, d)[h]]
  BY <1>3
<1> QED
  BY <1>1, <1>2, <1>4, <1>5, <1>6

\* A setting shows a fill of the total that it is for.
LEMMA SettingIsFill ==
  ASSUME Ready, NEW l \in Widths, NEW d \in Settings(l)
  PROVE  FillsAt(l, d) \in AllFills /\ LengthOf(FillsAt(l, d)) = SumOf(l)
<1>1. PICK c, fs : c = HoleCount /\ fs = FillsAt(l, d)
  OBVIOUS
<1>2. /\ fs = [h \in 1 .. c |-> fs[h]]
      /\ \A h \in 1 .. c : fs[h] \in [1 .. l[h] -> ToSet(AlphabetOf(h))] /\ l[h] \in 0 .. MaxOf(h)
  BY <1>1, FillsAtIs
<1>3. fs \in AllFills
  <2>1. \A h \in 1 .. c : \E n \in 0 .. MaxOf(h) : fs[h] \in [1 .. n -> ToSet(AlphabetOf(h))]
    BY <1>2
  <2> QED
    BY <1>1, <1>2, <2>1, AllFillsAre
<1>4. c \in Nat /\ l \in [1 .. c -> Nat]
  BY <1>1 DEF Ready, Widths
<1>5. ASSUME NEW h \in 1 .. c PROVE Len(fs[h]) = l[h]
  <2>1. l[h] \in Nat /\ fs[h] \in [1 .. l[h] -> ToSet(AlphabetOf(h))]
    BY <1>2, <1>4
  <2> QED
    BY <2>1, SeqIs
<1>6. [h \in DOMAIN fs |-> Len(fs[h])] = l
  <2>1. DOMAIN fs = 1 .. c
    BY <1>2
  <2>2. [h \in DOMAIN fs |-> Len(fs[h])] = [h \in 1 .. c |-> l[h]]
    BY <1>5, <2>1
  <2> QED
    BY <1>4, <2>2
<1>7. LengthOf(fs) = SumOf(l)
  BY <1>6 DEF LengthOf
<1> QED
  BY <1>1, <1>3, <1>7

\* Every fill is shown by a setting.
LEMMA FillIsShown ==
  ASSUME Ready, NEW fs \in AllFills
  PROVE  \E l \in Widths : \E d \in Settings(l) : FillsAt(l, d) = fs /\ LengthOf(fs) = SumOf(l)
<1>1. PICK c : c = HoleCount
  OBVIOUS
<1>2. /\ fs = [h \in 1 .. c |-> fs[h]]
      /\ \A h \in 1 .. c : \E n \in 0 .. MaxOf(h) : fs[h] \in [1 .. n -> ToSet(AlphabetOf(h))]
  BY <1>1, AllFillsAre
<1>3. c \in Nat /\ \A h \in 1 .. c : MaxOf(h) \in Nat /\ AlphabetOf(h) \in Seq(Fillers)
  BY <1>1 DEF Ready
<1> DEFINE l == [h \in 1 .. c |-> Len(fs[h])]
<1>4. ASSUME NEW h \in 1 .. c
      PROVE  l[h] \in 0 .. MaxOf(h) /\ fs[h] \in [1 .. l[h] -> ToSet(AlphabetOf(h))]
  <2>1. PICK n \in 0 .. MaxOf(h) : fs[h] \in [1 .. n -> ToSet(AlphabetOf(h))]
    BY <1>2
  <2>2. n \in Nat
    OBVIOUS
  <2>3. Len(fs[h]) = n
    BY <2>1, <2>2, SeqIs
  <2> QED
    BY <2>1, <2>3
<1>5. l \in [1 .. c -> Nat] /\ l \in Widths
  <2>1. l \in [1 .. c -> Nat] /\ \A h \in 1 .. c : l[h] <= MaxOf(h)
    <3>1. \A h \in 1 .. c : l[h] \in Nat /\ l[h] <= MaxOf(h)
      BY <1>3, <1>4
    <3> QED
      BY <3>1
  <2> HIDE DEF l
  <2> QED
    BY <1>1, <2>1 DEF Widths
<1>6. LengthOf(fs) = SumOf(l)
  <2>1. [h \in DOMAIN fs |-> Len(fs[h])] = l
    BY <1>2
  <2> QED
    BY <2>1 DEF LengthOf
<1> HIDE DEF l
<1>7. PICK n : n = SumOf(l)
  OBVIOUS
<1> DEFINE Spot(p, h, k) == h \in 1 .. c /\ k \in 1 .. l[h] /\ p = Sums(l)[h - 1] + k
           Fit(p, a) == \E h, k : Spot(p, h, k) /\ a \in 1 .. Len(AlphabetOf(h)) /\ AlphabetOf(h)[a] = fs[h][k]
           d == [p \in 1 .. n |-> CHOOSE a : Fit(p, a)]
<1>8. /\ \A h \in 1 .. c : \A k \in 1 .. l[h] : Sums(l)[h - 1] + k \in 1 .. n
      /\ \A p \in 1 .. n : \E h \in 1 .. c : \E k \in 1 .. l[h] : p = Sums(l)[h - 1] + k
      /\ \A h, g \in 1 .. c : \A k \in 1 .. l[h], j \in 1 .. l[g] :
           Sums(l)[h - 1] + k = Sums(l)[g - 1] + j => h = g /\ k = j
  <2>1. c \in Nat /\ l \in [1 .. c -> Nat]
    BY <1>3, <1>5
  <2>2. \A h \in 1 .. c : \A k \in 1 .. l[h] : Sums(l)[h - 1] + k \in 1 .. n
    BY <1>7, <2>1, PartsTile
  <2>3. \A p \in 1 .. n : \E h \in 1 .. c : \E k \in 1 .. l[h] : p = Sums(l)[h - 1] + k
    BY <1>7, <2>1, PartsTile
  <2>4. \A h, g \in 1 .. c : \A k \in 1 .. l[h], j \in 1 .. l[g] :
           Sums(l)[h - 1] + k = Sums(l)[g - 1] + j => h = g /\ k = j
    BY <2>1, PartsTile
  <2> QED
    BY <2>2, <2>3, <2>4
<1>9. ASSUME NEW p \in 1 .. n PROVE \E a : Fit(p, a)
  <2>1. PICK h \in 1 .. c : \E k \in 1 .. l[h] : p = Sums(l)[h - 1] + k
    BY <1>8
  <2>2. PICK k \in 1 .. l[h] : p = Sums(l)[h - 1] + k
    BY <2>1
  <2>3. PICK s : s = AlphabetOf(h)
    OBVIOUS
  <2>4. fs[h][k] \in ToSet(s) /\ DOMAIN s = 1 .. Len(s)
    BY <1>3, <1>4, <2>3, LenProperties
  <2>5. PICK a \in 1 .. Len(s) : s[a] = fs[h][k]
    BY <2>4 DEF ToSet
  <2> QED
    BY <2>2, <2>3, <2>5
<1>10. ASSUME NEW p \in 1 .. n PROVE Fit(p, d[p])
  <2>1. d[p] = CHOOSE a : Fit(p, a)
    OBVIOUS
  <2> HIDE DEF d, Fit
  <2> QED
    BY <1>9, <2>1
<1>11. DOMAIN d = 1 .. n /\ d = [p \in 1 .. n |-> d[p]]
  <2> HIDE DEF Fit
  <2> QED
    OBVIOUS
<1> HIDE DEF d
<1>12. ASSUME NEW h \in 1 .. c, NEW k \in 1 .. l[h]
       PROVE  /\ d[Sums(l)[h - 1] + k] \in 1 .. Len(AlphabetOf(h))
              /\ AlphabetOf(h)[d[Sums(l)[h - 1] + k]] = fs[h][k]
  <2>1. PICK p : p = Sums(l)[h - 1] + k
    OBVIOUS
  <2>2. p \in 1 .. n
    BY <1>8, <2>1
  <2>3. PICK g, j : Spot(p, g, j) /\ d[p] \in 1 .. Len(AlphabetOf(g)) /\ AlphabetOf(g)[d[p]] = fs[g][j]
    BY <1>10, <2>2
  <2>4. g = h /\ j = k
    BY <1>8, <2>1, <2>3
  <2> QED
    BY <2>1, <2>3, <2>4
<1>13. d \in Settings(l)
  <2>1. PICK z : z = SizesAt(l)
    OBVIOUS
  <2>2. n \in Nat /\ z \in [1 .. n -> Nat] /\ \A h \in 1 .. c : \A k \in 1 .. l[h] : z[Sums(l)[h - 1] + k] = Len(AlphabetOf(h))
    BY <1>1, <1>5, <1>7, <2>1, SizesAre
  <2>3. ASSUME NEW p \in 1 .. n PROVE d[p] \in Nat /\ 1 <= d[p] /\ d[p] <= z[p]
    <3>1. PICK h \in 1 .. c : \E k \in 1 .. l[h] : p = Sums(l)[h - 1] + k
      BY <1>8
    <3>2. PICK k \in 1 .. l[h] : p = Sums(l)[h - 1] + k
      BY <3>1
    <3>3. d[p] \in 1 .. Len(AlphabetOf(h)) /\ z[p] = Len(AlphabetOf(h)) /\ Len(AlphabetOf(h)) \in Nat
      <4>1. Len(AlphabetOf(h)) \in Nat
        BY <1>3, LenProperties
      <4> QED
        BY <1>12, <2>2, <3>2, <4>1
    <3> QED
      BY <3>3
  <2>4. d \in [1 .. n -> Nat]
    BY <1>11, <2>3
  <2>5. d \in Dials(n, z)
    BY <2>3, <2>4 DEF Dials
  <2> QED
    BY <1>7, <2>1, <2>5 DEF Settings
<1>14. FillsAt(l, d) = fs
  <2>1. PICK gs : gs = FillsAt(l, d)
    OBVIOUS
  <2>2. /\ gs = [h \in 1 .. c |-> gs[h]]
        /\ \A h \in 1 .. c : /\ gs[h] \in [1 .. l[h] -> ToSet(AlphabetOf(h))]
                             /\ \A k \in 1 .. l[h] : gs[h][k] = AlphabetOf(h)[d[Sums(l)[h - 1] + k]]
    BY <1>1, <1>5, <1>13, <2>1, FillsAtIs
  <2>3. ASSUME NEW h \in 1 .. c PROVE gs[h] = fs[h]
    <3>1. gs[h] \in [1 .. l[h] -> ToSet(AlphabetOf(h))] /\ fs[h] \in [1 .. l[h] -> ToSet(AlphabetOf(h))]
      BY <1>4, <2>2
    <3>2. \A k \in 1 .. l[h] : gs[h][k] = fs[h][k]
      BY <1>12, <2>2
    <3>3. PICK u, v : u = gs[h] /\ v = fs[h]
      OBVIOUS
    <3>4. u = v
      <4>1. PICK D, X : D = 1 .. l[h] /\ X = ToSet(AlphabetOf(h))
        OBVIOUS
      <4>2. u \in [D -> X] /\ v \in [D -> X] /\ \A k \in D : u[k] = v[k]
        BY <3>1, <3>2, <3>3, <4>1
      <4> QED
        BY <4>2
    <3> QED
      BY <3>3, <3>4
  <2> QED
    BY <1>2, <2>1, <2>2, <2>3
<1> QED
  BY <1>5, <1>6, <1>13, <1>14

\* No alphabet lists an instruction twice.
Distinct == \A h \in DOMAIN Holes(sketch) : \A a, b \in DOMAIN AlphabetOf(h) :
              AlphabetOf(h)[a] = AlphabetOf(h)[b] => a = b

\* Then no fill is shown twice.
LEMMA FillIsShownOnce ==
  ASSUME Ready, Distinct, NEW l \in Widths, NEW d \in Settings(l), NEW m \in Widths, NEW e \in Settings(m),
         FillsAt(l, d) = FillsAt(m, e)
  PROVE  l = m /\ d = e
<1>1. PICK c, fs : c = HoleCount /\ fs = FillsAt(l, d)
  OBVIOUS
<1>2. /\ c \in Nat /\ DOMAIN Holes(sketch) = 1 .. c /\ l \in [1 .. c -> Nat] /\ m \in [1 .. c -> Nat]
      /\ \A h \in 1 .. c : AlphabetOf(h) \in Seq(Fillers)
  BY <1>1 DEF Ready, Widths
<1>3. \A h \in 1 .. c :
        /\ fs[h] \in [1 .. l[h] -> ToSet(AlphabetOf(h))]
        /\ \A k \in 1 .. l[h] : /\ d[Sums(l)[h - 1] + k] \in 1 .. Len(AlphabetOf(h))
                                /\ fs[h][k] = AlphabetOf(h)[d[Sums(l)[h - 1] + k]]
  BY <1>1, FillsAtIs
<1>4. \A h \in 1 .. c :
        /\ fs[h] \in [1 .. m[h] -> ToSet(AlphabetOf(h))]
        /\ \A k \in 1 .. m[h] : /\ e[Sums(m)[h - 1] + k] \in 1 .. Len(AlphabetOf(h))
                                /\ fs[h][k] = AlphabetOf(h)[e[Sums(m)[h - 1] + k]]
  BY <1>1, FillsAtIs
<1>5. ASSUME NEW h \in 1 .. c PROVE l[h] = m[h]
  <2>0. PICK X, f : X = ToSet(AlphabetOf(h)) /\ f = fs[h]
    OBVIOUS
  <2>1. Len(f) = l[h]
    <3>1. l[h] \in Nat /\ f \in [1 .. l[h] -> X]
      BY <1>2, <1>3, <2>0
    <3> QED
      BY <3>1, SeqIs
  <2>2. Len(f) = m[h]
    <3>1. m[h] \in Nat /\ f \in [1 .. m[h] -> X]
      BY <1>2, <1>4, <2>0
    <3> QED
      BY <3>1, SeqIs
  <2> QED
    BY <2>1, <2>2
<1>6. l = m
  BY <1>2, <1>5
<1>7. PICK n : n = SumOf(l)
  OBVIOUS
<1>8. d \in [1 .. n -> Nat] /\ e \in [1 .. n -> Nat]
  BY <1>6, <1>7 DEF Settings, Dials
<1>9. ASSUME NEW p \in 1 .. n PROVE d[p] = e[p]
  <2>0. \A q \in 1 .. n : \E h \in 1 .. c : \E k \in 1 .. l[h] : q = Sums(l)[h - 1] + k
    BY <1>2, <1>7, PartsTile
  <2>1. PICK h \in 1 .. c : \E k \in 1 .. l[h] : p = Sums(l)[h - 1] + k
    BY <2>0
  <2>2. PICK k \in 1 .. l[h] : p = Sums(l)[h - 1] + k
    BY <2>1
  <2>3. PICK s : s = AlphabetOf(h)
    OBVIOUS
  <2>4. d[p] \in 1 .. Len(s) /\ fs[h][k] = s[d[p]] /\ e[p] \in 1 .. Len(s) /\ fs[h][k] = s[e[p]]
    BY <1>3, <1>4, <1>6, <2>2, <2>3
  <2>5. DOMAIN s = 1 .. Len(s)
    BY <1>2, <2>3, LenProperties
  <2>6. \A a, b \in DOMAIN s : s[a] = s[b] => a = b
    BY <1>2, <2>3 DEF Distinct
  <2> QED
    BY <2>4, <2>5, <2>6
<1>10. d = e
  <2>1. PICK D : D = 1 .. n
    OBVIOUS
  <2>2. d \in [D -> Nat] /\ e \in [D -> Nat] /\ \A p \in D : d[p] = e[p]
    BY <1>8, <1>9, <2>1
  <2> QED
    BY <2>2
<1> QED
  BY <1>6, <1>10
-----------------------------------------------------------------------------
(* The enumeration.                                                        *)

\* All settings, and those before one.
AllSettings   == UNION {{<<x, y>> : y \in Settings(x)} : x \in Widths}
Earlier(l, d) == {s \in AllSettings : Comes(s[1], s[2], l, d)}

\* A setting is left behind when its candidate has been pruned, or has failed an example.
Tried(l, d) ==
  \/ prob.prune /\ Dead(FillsAt(l, d))
  \/ \E i \in DOMAIN examples : ~Passes(examples[i], Instantiate(sketch, FillsAt(l, d)))

Searched(S) ==
  /\ IsFiniteSet(S) /\ Cardinality(S) = candidates + pruned
  /\ \A s \in S : Tried(s[1], s[2])

EnumInv ==
  /\ SketchInv
  /\ candidates \in Nat /\ pruned \in Nat
  /\ phase # "rejected" => len \in Widths /\ digits \in Settings(len) /\ total = SumOf(len)
  /\ phase = "search" => found = {} /\ ~exhausted /\ Searched(Earlier(len, digits))
  /\ phase = "done" /\ found = {} /\ ~exhausted => Searched(AllSettings)
  /\ found # {} => /\ phase = "done" /\ found = {Instantiate(sketch, fills)} /\ fills = Shown
                   /\ \A s \in Earlier(len, digits) : Tried(s[1], s[2])

LEMMA SettingsAre ==
  ASSUME NEW s
  PROVE  s \in AllSettings <=> s = <<s[1], s[2]>> /\ s[1] \in Widths /\ s[2] \in Settings(s[1])
<1>1. ASSUME s \in AllSettings PROVE s = <<s[1], s[2]>> /\ s[1] \in Widths /\ s[2] \in Settings(s[1])
  <2>1. PICK x \in Widths : s \in {<<x, y>> : y \in Settings(x)}
    BY <1>1 DEF AllSettings
  <2>2. PICK y \in Settings(x) : s = <<x, y>>
    BY <2>1
  <2> QED
    BY <2>2
<1>2. ASSUME s = <<s[1], s[2]>>, s[1] \in Widths, s[2] \in Settings(s[1]) PROVE s \in AllSettings
  <2>1. PICK x, y : x = s[1] /\ y = s[2]
    OBVIOUS
  <2>2. x \in Widths /\ y \in Settings(x) /\ s = <<x, y>>
    BY <1>2, <2>1
  <2>3. s \in {<<x, z>> : z \in Settings(x)}
    BY <2>2
  <2> QED
    BY <2>2, <2>3 DEF AllSettings
<1> QED
  BY <1>1, <1>2

\* What is shown is not before itself.
LEMMA NotEarlier ==
  ASSUME Ready, NEW l \in Widths, NEW d \in Settings(l)
  PROVE  /\ <<l, d>> \in AllSettings /\ <<l, d>> \notin Earlier(l, d)
         /\ \A m, e : Follows(l, d, m, e) => Earlier(m, e) = Earlier(l, d) \cup {<<l, d>>}
         /\ IsLast(l, d) => AllSettings = Earlier(l, d) \cup {<<l, d>>}
<1>1. PICK q : q = <<l, d>>
  OBVIOUS
<1>2. q[1] = l /\ q[2] = d /\ q \in AllSettings
  BY <1>1, SettingsAre
<1>3. ~Comes(l, d, l, d)
  <2>1. SumOf(l) \in Nat
    BY SizesAre
  <2>2. ~Precedes(l, l)
    BY LexIs DEF Widths, Ready
  <2>3. ~Precedes(d, d)
    <3>1. PICK n : n = SumOf(l)
      OBVIOUS
    <3>2. n \in Nat /\ d \in [1 .. n -> Nat]
      BY <2>1, <3>1 DEF Settings, Dials
    <3> QED
      BY <3>2, LexIs
  <2> QED
    BY <2>1, <2>2, <2>3 DEF Comes
<1>4. q \notin Earlier(l, d)
  BY <1>2, <1>3 DEF Earlier
<1>5. ASSUME NEW s \in AllSettings PROVE s = q <=> s[1] = l /\ s[2] = d
  BY <1>1, <1>2, <1>5, SettingsAre
<1>6. ASSUME NEW m, NEW e, Follows(l, d, m, e) PROVE Earlier(m, e) = Earlier(l, d) \cup {q}
  <2>1. ASSUME NEW s \in AllSettings PROVE Comes(s[1], s[2], m, e) <=> Comes(s[1], s[2], l, d) \/ s = q
    <3>1. s[1] \in Widths /\ s[2] \in Settings(s[1])
      BY SettingsAre
    <3> QED
      BY <1>5, <1>6, <3>1 DEF Follows
  <2> QED
    BY <1>2, <2>1 DEF Earlier
<1>7. ASSUME IsLast(l, d) PROVE AllSettings = Earlier(l, d) \cup {q}
  <2>1. ASSUME NEW s \in AllSettings PROVE Comes(s[1], s[2], l, d) \/ s = q
    <3>1. s[1] \in Widths /\ s[2] \in Settings(s[1])
      BY SettingsAre
    <3> QED
      BY <1>5, <1>7, <3>1 DEF IsLast
  <2> QED
    BY <1>2, <2>1 DEF Earlier
<1> QED
  BY <1>1, <1>2, <1>4, <1>6, <1>7

\* The first setting: no hole has an instruction.
LEMMA FirstSetting ==
  ASSUME Ready, NEW l, l = [h \in DOMAIN Holes(sketch) |-> 0], NEW d, d = <<>> \/ d = [p \in 1 .. SumOf(l) |-> 1]
  PROVE  l \in Widths /\ d \in Settings(l) /\ SumOf(l) = 0 /\ Earlier(l, d) = {}
<1>1. PICK c : c = HoleCount
  OBVIOUS
<1>2. c \in Nat /\ l = [h \in 1 .. c |-> 0] /\ l \in [1 .. c -> Nat] /\ l \in [1 .. c -> Int]
  BY <1>1 DEF Ready
<1>3. l \in Widths
  BY <1>1, <1>2 DEF Ready, Widths
<1>4. SumOf(l) = 0
  <2> DEFINE f == Sums(l)
  <2>1. f[0] = 0 /\ (\A i \in 1 .. c : f[i] = f[i - 1] + l[i]) /\ SumOf(l) = f[c]
    BY <1>2, SumsAre
  <2> HIDE DEF f
  <2> DEFINE S == {i \in Nat : i <= c => f[i] = 0}
  <2>2. 0 \in S
    BY <2>1
  <2>3. ASSUME NEW i \in Nat, i \in S PROVE i + 1 \in S
    <3>1. SUFFICES ASSUME i + 1 <= c PROVE f[i + 1] = 0
      OBVIOUS
    <3>2. i + 1 \in 1 .. c /\ (i + 1) - 1 = i /\ i <= c
      BY <1>2, <3>1
    <3>3. l[i + 1] = 0
      BY <1>2, <3>2
    <3> QED
      BY <2>1, <2>3, <3>2, <3>3
  <2>4. f[c] = 0
    <3> HIDE DEF S
    <3>1. Nat \subseteq S
      BY <2>2, <2>3, NumberInduction
    <3> QED
      BY <1>2, <3>1 DEF S
  <2> QED
    BY <2>1, <2>4
<1>5. \A y : y \in Settings(l) => DOMAIN y = {}
  <2>1. \A y : y \in Settings(l) => y \in [1 .. 0 -> Nat]
    BY <1>4 DEF Settings, Dials
  <2>2. 1 .. 0 = {}
    OBVIOUS
  <2> QED
    BY <2>1, <2>2
<1>6. d \in Settings(l)
  <2>1. 1 .. 0 = {}
    OBVIOUS
  <2>2. <<>> \in [{} -> Nat] /\ [p \in {} |-> 1] \in [{} -> Nat]
    OBVIOUS
  <2>3. d \in [1 .. 0 -> Nat]
    BY <1>4, <2>1, <2>2
  <2> QED
    BY <1>4, <2>1, <2>3 DEF Settings, Dials
<1>7. ASSUME NEW s \in Earlier(l, d) PROVE FALSE
  <2>1. s[1] \in Widths /\ s[2] \in Settings(s[1]) /\ Comes(s[1], s[2], l, d)
    BY SettingsAre DEF Earlier
  <2>2. PICK x, y : x = s[1] /\ y = s[2]
    OBVIOUS
  <2>3. x \in Widths /\ y \in Settings(x) /\ Comes(x, y, l, d)
    BY <2>1, <2>2
  <2>4. SumOf(x) \in Nat
    BY <2>3, SizesAre
  <2>5. ~Precedes(x, l)
    <3>1. x \in [1 .. c -> Nat]
      BY <1>1, <2>3 DEF Widths
    <3> QED
      BY <1>2, <3>1 DEF Precedes
  <2>6. x = l => ~Precedes(y, d)
    BY <1>5, <2>3 DEF Precedes
  <2> QED
    BY <1>4, <2>3, <2>4, <2>5, <2>6 DEF Comes
<1> QED
  BY <1>3, <1>4, <1>6, <1>7

\* The settings depend on the problem and its sketch only.
LEMMA SameSettings ==
  ASSUME UNCHANGED <<prob, sketch>>
  PROVE  /\ Ready' <=> Ready
         /\ Widths' = Widths /\ AllSettings' = AllSettings
         /\ \A l, d : /\ Settings(l)' = Settings(l)
                      /\ Earlier(l, d)' = Earlier(l, d)
                      /\ FillsAt(l, d)' = FillsAt(l, d)
BY DEF Ready, HoleCount, Fillers, Widths, AllSettings, Settings, SizesAt, Earlier, FillsAt, AlphabetOf, MaxOf, Dials, Comes

LEMMA SameTried ==
  ASSUME UNCHANGED <<prob, sketch, examples>>
  PROVE  \A l, d : Tried(l, d)' <=> Tried(l, d)
<1>1. \A l, d : FillsAt(l, d)' = FillsAt(l, d)
  BY SameSettings
<1> QED
  BY <1>1, SameTests DEF Tried

\* A search starts with nothing tried.
LEMMA EnumInit == Init => EnumInv
<1> SUFFICES ASSUME Init PROVE EnumInv
  OBVIOUS
<1>1. /\ prob \in SketchProblems /\ sketch = Parse(prob.lines)
      /\ phase = (IF Accepts(prob, sketch) THEN "search" ELSE "rejected")
      /\ total = 0 /\ len = [h \in DOMAIN Holes(sketch) |-> 0] /\ digits = <<>>
      /\ candidates = 0 /\ pruned = 0 /\ exhausted = FALSE /\ found = {}
  BY DEF Init, SearchInit
<1>2. SketchInv
  BY <1>1 DEF SketchInv
<1>3. CASE phase = "rejected"
  BY <1>1, <1>2, <1>3 DEF EnumInv
<1>4. CASE phase # "rejected"
  <2>1. Ready
    BY <1>2, <1>4, SketchFacts
  <2>2. len \in Widths /\ digits \in Settings(len) /\ SumOf(len) = 0 /\ Earlier(len, digits) = {}
    BY <1>1, <2>1, FirstSetting
  <2>3. Searched(Earlier(len, digits))
    <3>1. IsFiniteSet({}) /\ Cardinality({}) = 0 /\ candidates + pruned = 0
      BY <1>1, FS_EmptySet
    <3> QED
      BY <2>2, <3>1 DEF Searched
  <2> QED
    BY <1>1, <1>2, <1>4, <2>2, <2>3 DEF EnumInv
<1> QED
  BY <1>3, <1>4

\* What is not rejected stays so.
LEMMA SketchStays ==
  ASSUME SketchInv, UNCHANGED <<prob, sketch>>, phase' \in {"search", "done", "rejected"},
         phase' # "rejected" => phase # "rejected"
  PROVE  SketchInv'
BY DEF SketchInv

\* The candidate shown is left behind, and the odometer turns.
LEMMA LeaveBehind ==
  ASSUME EnumInv, phase = "search", TurnOver, UNCHANGED <<prob, sketch, examples, found, exhausted>>,
         candidates' \in Nat, pruned' \in Nat, candidates' + pruned' = candidates + pruned + 1,
         Tried(len, digits)
  PROVE  EnumInv'
<1>1. /\ Ready /\ len \in Widths /\ digits \in Settings(len) /\ total = SumOf(len)
      /\ found = {} /\ ~exhausted /\ Searched(Earlier(len, digits))
      /\ candidates \in Nat /\ pruned \in Nat /\ SketchInv
  BY SketchFacts DEF EnumInv
<1> DEFINE Now == Earlier(len, digits) \cup {<<len, digits>>}
<1>2. /\ <<len, digits>> \notin Earlier(len, digits)
      /\ \A m, e : Follows(len, digits, m, e) => Earlier(m, e) = Now
      /\ IsLast(len, digits) => AllSettings = Now
  BY <1>1, NotEarlier
<1>3. IsFiniteSet(Now) /\ Cardinality(Now) = candidates' + pruned'
  <2>1. PICK S, q : S = Earlier(len, digits) /\ q = <<len, digits>>
    OBVIOUS
  <2>2. IsFiniteSet(S) /\ Cardinality(S) = candidates + pruned /\ q \notin S
    BY <1>1, <1>2, <2>1 DEF Searched
  <2>3. IsFiniteSet(S \cup {q}) /\ Cardinality(S \cup {q}) = Cardinality(S) + 1
    BY <2>2, FS_AddElement
  <2> QED
    BY <2>1, <2>2, <2>3
<1>4. \A s \in Now : Tried(s[1], s[2])'
  <2>1. \A s \in Now : Tried(s[1], s[2])
    <3>1. ASSUME NEW s \in Now PROVE Tried(s[1], s[2])
      <4>1. CASE s \in Earlier(len, digits)
        BY <1>1, <4>1 DEF Searched
      <4>2. CASE s = <<len, digits>>
        <5>1. s[1] = len /\ s[2] = digits
          BY <4>2
        <5> QED
          BY <5>1
      <4> QED
        BY <4>1, <4>2
    <3> QED
      BY <3>1
  <2> HIDE DEF Now
  <2> QED
    BY <2>1, SameTried
<1> HIDE DEF Now
<1>6. /\ (Ready' <=> Ready) /\ Widths' = Widths /\ AllSettings' = AllSettings
      /\ \A l, d : Settings(l)' = Settings(l) /\ Earlier(l, d)' = Earlier(l, d)
  BY SameSettings
<1>7. \/ phase' = "search" /\ total' = SumOf(len') /\ Follows(len, digits, len', digits')
      \/ phase' = "done" /\ UNCHANGED clock /\ IsLast(len, digits)
  BY <1>1, TurnOverShows
<1>8. SketchInv'
  BY <1>1, <1>7, SketchStays
<1>9. CASE phase' = "search" /\ total' = SumOf(len') /\ Follows(len, digits, len', digits')
  <2>1. len' \in Widths /\ digits' \in Settings(len')
    BY <1>9 DEF Follows
  <2>2. Earlier(len', digits') = Now
    BY <1>2, <1>9
  <2>3. Earlier(len, digits)' = Now
    <3>1. AllSettings' = AllSettings
      BY <1>6
    <3>2. Earlier(len, digits)' = {s \in AllSettings : Comes(s[1], s[2], len', digits')}
      BY <3>1 DEF Earlier, Comes
    <3> QED
      BY <2>2, <3>2 DEF Earlier
  <2> QED
    BY <1>1, <1>3, <1>4, <1>6, <1>8, <1>9, <2>1, <2>3 DEF EnumInv, Searched
<1>10. CASE phase' = "done" /\ UNCHANGED clock /\ IsLast(len, digits)
  <2>1. AllSettings' = Now
    BY <1>2, <1>6, <1>10
  <2> QED
    BY <1>1, <1>3, <1>4, <1>6, <1>8, <1>10, <2>1 DEF EnumInv, Searched, clock
<1> QED
  BY <1>7, <1>9, <1>10

\* The invariant speaks of the search only.
LEMMA SameSearch == ASSUME EnumInv, UNCHANGED searchVars PROVE EnumInv'
<1>1. UNCHANGED <<prob, sketch, examples, phase, total, len, digits, candidates, pruned, exhausted, fills, found>>
  BY DEF searchVars, clock, stats
<1>2. SketchInv'
  BY <1>1, SketchStays DEF EnumInv, SketchInv
<1>3. /\ Widths' = Widths /\ AllSettings' = AllSettings
      /\ \A l, d : Settings(l)' = Settings(l) /\ Earlier(l, d)' = Earlier(l, d) /\ FillsAt(l, d)' = FillsAt(l, d)
  BY <1>1, SameSettings
<1>4. \A l, d : Tried(l, d)' <=> Tried(l, d)
  BY <1>1, SameTried
<1>5. \A S : S = S' => (Searched(S) => Searched(S)')
  BY <1>1, <1>4 DEF Searched
<1>6. Earlier(len, digits)' = Earlier(len, digits)
  BY <1>1, <1>3 DEF Earlier
<1>7. Shown' = Shown /\ Settings(len)' = Settings(len)
  BY <1>1, <1>3 DEF Shown
<1>8. Searched(Earlier(len, digits)) => Searched(Earlier(len, digits))'
  BY <1>1, <1>4, <1>6 DEF Searched
<1>9. Searched(AllSettings) => Searched(AllSettings)'
  BY <1>1, <1>3, <1>4 DEF Searched
<1>10. found' # {} => /\ phase' = "done" /\ found' = {Instantiate(sketch', fills')} /\ fills' = Shown'
                      /\ \A s \in Earlier(len, digits)' : Tried(s[1], s[2])'
  BY <1>1, <1>4, <1>6, <1>7 DEF EnumInv
<1> QED
  BY <1>1, <1>2, <1>3, <1>7, <1>8, <1>9, <1>10 DEF EnumInv

\* The next round searches the sketch anew.
LEMMA EnumAnew ==
  ASSUME EnumInv, found # {}, NEW exs, Construct(exs), UNCHANGED <<prob, sketch>>
  PROVE  EnumInv'
<1>1. /\ phase' = "search" /\ total' = 0 /\ len' = [h \in DOMAIN Holes(sketch) |-> 0]
      /\ digits' = [p \in 1 .. SumOf(len') |-> 1]
      /\ candidates' = 0 /\ pruned' = 0 /\ exhausted' = FALSE /\ found' = {}
  BY DEF Construct, ShowLengths
<1>2. phase = "done" /\ SketchInv
  BY DEF EnumInv
<1>3. Ready /\ SketchInv'
  BY <1>1, <1>2, SketchStays, SketchFacts
<1>4. len' \in Widths /\ digits' \in Settings(len') /\ SumOf(len') = 0 /\ Earlier(len', digits') = {}
  BY <1>1, <1>3, FirstSetting
<1>5. /\ Widths' = Widths /\ AllSettings' = AllSettings
      /\ \A l, d : Settings(l)' = Settings(l)
  BY SameSettings
<1>6. Earlier(len, digits)' = {}
  <2>1. Earlier(len, digits)' = {s \in AllSettings : Comes(s[1], s[2], len', digits')}
    BY <1>5 DEF Earlier, Comes
  <2> QED
    BY <1>4, <2>1 DEF Earlier
<1>7. Searched(Earlier(len, digits))'
  <2>1. IsFiniteSet({}) /\ Cardinality({}) = 0 /\ candidates' + pruned' = 0
    BY <1>1, FS_EmptySet
  <2> QED
    BY <1>6, <2>1 DEF Searched
<1>8. Settings(len)' = Settings(len')
  BY <1>5 DEF Settings
<1> QED
  BY <1>1, <1>3, <1>4, <1>5, <1>7, <1>8 DEF EnumInv

\* One step of the synthesizer.
LEMMA EnumSearch == ASSUME EnumInv, LoopInv, Search PROVE EnumInv'
<1>1. SearchNext /\ phase = "search" /\ UNCHANGED <<prob, sketch, examples>>
  BY DEF Search, SearchNext, PruneFill, GiveUp, Try
<1>2. /\ Ready /\ len \in Widths /\ digits \in Settings(len) /\ total = SumOf(len)
      /\ found = {} /\ ~exhausted /\ Searched(Earlier(len, digits))
      /\ candidates \in Nat /\ pruned \in Nat /\ SketchInv
  BY <1>1, SketchFacts DEF EnumInv
<1>3. CASE PruneFill
  <2>1. Skip /\ pruned' = pruned + 1 /\ TurnOver /\ UNCHANGED <<candidates, exhausted, found>>
    BY <1>3 DEF PruneFill
  <2>2. Tried(len, digits)
    BY <2>1 DEF Tried, Skip, Shown
  <2> QED
    BY <1>1, <1>2, <2>1, <2>2, LeaveBehind
<1>4. CASE GiveUp
  <2>1. exhausted' = TRUE /\ phase' = "done" /\ UNCHANGED <<total, len, digits, candidates, pruned, fills, found>>
    BY <1>4 DEF GiveUp, clock
  <2>2. SketchInv'
    BY <1>1, <1>2, <2>1, SketchStays
  <2>3. Widths' = Widths /\ \A l, d : Settings(l)' = Settings(l)
    BY <1>1, SameSettings
  <2>4. Settings(len)' = Settings(len')
    BY <2>3 DEF Settings
  <2> QED
    BY <1>2, <2>1, <2>2, <2>3, <2>4 DEF EnumInv
<1>5. CASE Try
  <2>1. candidates' = candidates + 1 /\ UNCHANGED <<pruned, exhausted>>
    BY <1>5 DEF Try
  <2>2. \/ Failures(Candidate) # {} /\ TurnOver /\ UNCHANGED found
        \/ Failures(Candidate) = {} /\ found' = {Candidate} /\ fills' = Shown /\ phase' = "done" /\ UNCHANGED clock
    BY <1>5 DEF Try
  <2>3. CASE Failures(Candidate) # {} /\ TurnOver /\ UNCHANGED found
    <3>1. PICK k \in DOMAIN order : ~Passes(examples[order[k]], Candidate)
      BY <2>3 DEF Failures
    <3>2. order[k] \in DOMAIN examples
      BY ElementOfSeq, LenProperties DEF LoopInv, SynthesizerInv
    <3>3. Tried(len, digits)
      BY <3>1, <3>2 DEF Tried, Candidate, Shown
    <3> QED
      BY <1>1, <1>2, <2>1, <2>3, <3>3, LeaveBehind
  <2>4. CASE Failures(Candidate) = {} /\ found' = {Candidate} /\ fills' = Shown /\ phase' = "done" /\ UNCHANGED clock
    <3>1. UNCHANGED <<total, len, digits>>
      BY <2>4 DEF clock
    <3>2. SketchInv'
      BY <1>1, <1>2, <2>4, SketchStays
    <3>3. /\ Widths' = Widths /\ AllSettings' = AllSettings
          /\ \A l, d : Settings(l)' = Settings(l) /\ FillsAt(l, d)' = FillsAt(l, d)
      BY <1>1, SameSettings
    <3>4. \A l, d : Tried(l, d)' <=> Tried(l, d)
      BY <1>1, SameTried
    <3>5. Shown' = Shown /\ Settings(len)' = Settings(len) /\ Earlier(len, digits)' = Earlier(len, digits)
      BY <3>1, <3>3 DEF Shown, Earlier, Settings
    <3>6. found' = {Instantiate(sketch', fills')}
      BY <1>1, <2>4 DEF Candidate
    <3>7. \A s \in Earlier(len, digits)' : Tried(s[1], s[2])'
      BY <1>2, <3>4, <3>5 DEF Searched
    <3> QED
      BY <1>2, <2>1, <2>4, <3>1, <3>2, <3>3, <3>5, <3>6, <3>7 DEF EnumInv
  <2> QED
    BY <2>2, <2>3, <2>4
<1> QED
  BY <1>1, <1>3, <1>4, <1>5 DEF SearchNext

LEMMA EnumStep == LoopInv /\ EnumInv /\ [Next]_vars => EnumInv'
<1> SUFFICES ASSUME LoopInv, EnumInv, [Next]_vars PROVE EnumInv'
  OBVIOUS
<1>1. CASE UNCHANGED vars
  BY <1>1, SameSearch DEF vars
<1>2. CASE Search
  BY <1>2, EnumSearch
<1>3. CASE Throw \/ NoFill \/ StartProbe \/ ProbePasses \/ NoCounterexample \/ Validate \/ Record
  <2>1. UNCHANGED searchVars
    BY <1>3 DEF Throw, NoFill, StartProbe, ProbePasses, NoCounterexample, Validate, Record
  <2> QED
    BY <2>1, SameSearch
<1>4. CASE Counterexample
  <2>1. \/ Construct(ex') /\ UNCHANGED <<prob, sketch>>
        \/ UNCHANGED searchVars
    BY <1>4 DEF Counterexample
  <2>2. found # {}
    BY <1>4 DEF Counterexample
  <2> QED
    BY <2>1, <2>2, SameSearch, EnumAnew
<1> QED
  BY <1>1, <1>2, <1>3, <1>4 DEF Next

\* Settings are as many as fills.
LEMMA AsManySettings ==
  ASSUME Ready, Distinct, IsFiniteSet(AllSettings)
  PROVE  Cardinality(AllFills) = Cardinality(AllSettings)
<1> DEFINE f == [s \in AllSettings |-> FillsAt(s[1], s[2])]
<1>1. ASSUME NEW s \in AllSettings PROVE s = <<s[1], s[2]>> /\ s[1] \in Widths /\ s[2] \in Settings(s[1])
  BY SettingsAre
<1>2. f \in [AllSettings -> AllFills]
  BY <1>1, SettingIsFill
<1>3. ASSUME NEW s \in AllSettings, NEW r \in AllSettings, f[s] = f[r] PROVE s = r
  <2>1. s[1] = r[1] /\ s[2] = r[2]
    BY <1>1, <1>3, FillIsShownOnce
  <2> QED
    BY <1>1, <2>1
<1>4. ASSUME NEW fs \in AllFills PROVE \E s \in AllSettings : f[s] = fs
  <2>1. PICK l \in Widths : \E d \in Settings(l) : FillsAt(l, d) = fs
    BY FillIsShown
  <2>2. PICK d \in Settings(l) : FillsAt(l, d) = fs
    BY <2>1
  <2>3. PICK q : q = <<l, d>>
    OBVIOUS
  <2>4. q \in AllSettings /\ q[1] = l /\ q[2] = d
    BY <2>3, SettingsAre
  <2> QED
    BY <2>2, <2>4
<1> HIDE DEF f
<1>5. f \in Bijection(AllSettings, AllFills)
  BY <1>2, <1>3, <1>4 DEF Bijection, Injection, Surjection, IsInjective
<1>6. ExistsBijection(AllSettings, AllFills)
  BY <1>5 DEF ExistsBijection
<1> QED
  BY <1>6, FS_Bijection

(* The odometer goes through the fills of a sketch without leaving one out *)
(* or showing one twice: a search that ends without an answer has tried or *)
(* pruned as many candidates as there are fills, if no alphabet lists an   *)
(* instruction twice (SketchSynthesizer::synthesize, distribute).          *)
THEOREM FillsAreShownOnce == Spec => [](Distinct => EveryFillOnce)
<1>1. EnumInv => (Distinct => EveryFillOnce)
  <2> SUFFICES ASSUME EnumInv, Distinct, phase = "done", ~exhausted, found = {}
               PROVE  candidates + pruned = Cardinality(AllFills)
    BY DEF EveryFillOnce
  <2>1. Searched(AllSettings) /\ SketchInv
    BY DEF EnumInv
  <2>2. Ready
    BY <2>1, SketchFacts
  <2> QED
    BY <2>1, <2>2, AsManySettings DEF Searched
<1> QED
  BY <1>1, LoopInit, LoopStep, EnumInit, EnumStep, PTL DEF Spec
-----------------------------------------------------------------------------
(* Dead writes.                                                            *)

\* The instructions that write a register, and nothing else but flags.
Writer == {"movi", "mov", "addi", "neg", "not", "ld", "ldb"} \cup ThreeRegs

\* The flags that no instruction sets anew.
Kept(flags) == flags \ {"Z", "N", "C", "V"}

\* What a writer leaves of a state.
Wrote(s, ins, f, w) == Advance(Write(FlagsOnly(s, f), ins.a, w))

\* Two states that a writer cannot tell apart: pc, flags it sets, and the register it writes without
\* reading it may differ.
Agree(s, t, ins) ==
  /\ t.mem = s.mem /\ t.sp = s.sp /\ t.halted = s.halted
  /\ \A r \in 0 .. Registers - 1 : r # ins.a \/ r \in Reads(ins) => t.regs[r] = s.regs[r]
  /\ IF SetsFlags(ins) THEN Kept(t.flags) = Kept(s.flags) ELSE t.flags = s.flags

LEMMA SameWritten ==
  ASSUME NEW s \in State, NEW t \in State, NEW ins \in Instruction, Agree(s, t, ins), NEW f, NEW w
  PROVE  Wrote(t, ins, f, w) = At(Wrote(s, ins, f, w), (t.pc + 1) % IndexSize)
<1>1. /\ s = [pc |-> s.pc, sp |-> s.sp, flags |-> s.flags, halted |-> s.halted, regs |-> s.regs, mem |-> s.mem]
      /\ t = [pc |-> t.pc, sp |-> t.sp, flags |-> t.flags, halted |-> t.halted, regs |-> t.regs, mem |-> t.mem]
      /\ s.regs \in [0 .. Registers - 1 -> Word] /\ t.regs \in [0 .. Registers - 1 -> Word]
  BY DEF State
<1>2. [t.regs EXCEPT ![ins.a] = w] = [s.regs EXCEPT ![ins.a] = w]
  <2>1. PICK D : D = 0 .. Registers - 1
    OBVIOUS
  <2>2. PICK x : x = [s.regs EXCEPT ![ins.a] = w]
    OBVIOUS
  <2>3. PICK y : y = [t.regs EXCEPT ![ins.a] = w]
    OBVIOUS
  <2>4. x = [r \in D |-> IF r = ins.a THEN w ELSE s.regs[r]]
    BY <1>1, <2>1, <2>2
  <2>5. y = [r \in D |-> IF r = ins.a THEN w ELSE t.regs[r]]
    BY <1>1, <2>1, <2>3
  <2>6. \A r \in D : (IF r = ins.a THEN w ELSE s.regs[r]) = (IF r = ins.a THEN w ELSE t.regs[r])
    BY <2>1 DEF Agree
  <2> QED
    BY <2>2, <2>3, <2>4, <2>5, <2>6
<1>3. \A u \in {s, t} : Wrote(u, ins, f, w) = [pc |-> (u.pc + 1) % IndexSize, sp |-> u.sp, flags |-> f, halted |-> u.halted,
                                               regs |-> [u.regs EXCEPT ![ins.a] = w], mem |-> u.mem]
  <2> TAKE u \in {s, t}
  <2>1. FlagsOnly(u, f) = [pc |-> u.pc, sp |-> u.sp, flags |-> f, halted |-> u.halted, regs |-> u.regs, mem |-> u.mem]
    BY <1>1 DEF FlagsOnly
  <2>2. Write(FlagsOnly(u, f), ins.a, w) = [pc |-> u.pc, sp |-> u.sp, flags |-> f, halted |-> u.halted,
                                            regs |-> [u.regs EXCEPT ![ins.a] = w], mem |-> u.mem]
    BY <2>1 DEF Write
  <2> QED
    BY <2>2 DEF Wrote, Advance
<1>5. t.mem = s.mem /\ t.sp = s.sp /\ t.halted = s.halted
  BY DEF Agree
<1> QED
  BY <1>2, <1>3, <1>5 DEF At

\* A writer writes the same into both, or faults.
LEMMA WritersAgree ==
  ASSUME NEW s \in State, NEW t \in State, s.halted = "Running", NEW ins \in Instruction, ins.op \in Writer,
         Agree(s, t, ins)
  PROVE  \/ Execute(t, ins).halted = "Fault"
         \/ \E f, w : /\ Execute(s, ins) = Wrote(s, ins, f, w) /\ Execute(t, ins) = Wrote(t, ins, f, w)
                      /\ IF SetsFlags(ins) THEN Kept(f) = Kept(s.flags) ELSE f = s.flags
<1>1. t.halted = "Running" /\ t.mem = s.mem /\ Fault(t).halted = "Fault"
  BY DEF Agree, Fault, State
<1>2. CASE ~WellFormed(ins)
  BY <1>1, <1>2 DEF Execute
<1>3. CASE WellFormed(ins)
  <2>1. ins.op \in Opcode
    BY <1>3 DEF WellFormed
  <2>2. CASE ins.op \in {"movi", "mov"}
    <3>1. Execute(s, ins) = Move(s, ins) /\ Execute(t, ins) = Move(t, ins)
      BY <1>1, <1>3, <2>2, ExecuteIs
    <3>2. \A u \in State : \A w : Advance(Write(u, ins.a, w)) = Wrote(u, ins, u.flags, w)
      BY DEF Wrote, FlagsOnly, State
    <3>3. ~SetsFlags(ins) /\ t.flags = s.flags
      BY <2>2 DEF SetsFlags, Agree, ThreeRegs
    <3>4. (IF ins.op = "movi" THEN Wrap(ins.imm) ELSE s.regs[ins.b]) = (IF ins.op = "movi" THEN Wrap(ins.imm) ELSE t.regs[ins.b])
      <4>1. CASE ins.op = "movi"
        BY <4>1
      <4>2. CASE ins.op = "mov"
        <5>1. ins.b \in 0 .. Registers - 1 /\ ins.b \in Reads(ins)
          BY <1>3, <4>2, OperandsAreRegisters DEF Reads, TwoRegs
        <5> QED
          BY <4>2, <5>1 DEF Agree
      <4> QED
        BY <2>2, <4>1, <4>2
    <3> QED
      BY <3>1, <3>2, <3>3, <3>4 DEF Move
  <2>3. CASE ins.op \in {"add", "sub"}
    <3>1. /\ Execute(s, ins) = AddSub(s, ins) /\ Execute(t, ins) = AddSub(t, ins)
      BY <1>1, <1>3, <2>3, ExecuteIs
    <3>2. s.regs[ins.b] = t.regs[ins.b] /\ s.regs[ins.c] = t.regs[ins.c]
      <4>1. ins.b \in 0 .. Registers - 1 /\ ins.c \in 0 .. Registers - 1 /\ ins.b \in Reads(ins) /\ ins.c \in Reads(ins)
        BY <1>3, <2>3, OperandsAreRegisters DEF Reads, ThreeRegs
      <4> QED
        BY <4>1 DEF Agree
    <3> DEFINE r == Result(ins.op, s.regs[ins.b], s.regs[ins.c])
               more == If("C", Carry(ins.op, s.regs[ins.b], s.regs[ins.c], r)) \cup If("V", Overflow(ins.op, s.regs[ins.b], s.regs[ins.c], r))
               f == SetZN(s.flags, r) \cup If("C", Carry(ins.op, s.regs[ins.b], s.regs[ins.c], r)) \cup If("V", Overflow(ins.op, s.regs[ins.b], s.regs[ins.c], r))
    <3>3. SetsFlags(ins) /\ Kept(t.flags) = Kept(s.flags)
      BY <2>3 DEF SetsFlags, Agree, ThreeRegs
    <3>4. SetZN(t.flags, r) = SetZN(s.flags, r)
      BY <3>3 DEF SetZN, Kept
    <3>5. Execute(s, ins) = Wrote(s, ins, f, r)
      BY <2>3, <3>1 DEF AddSub, Wrote, FlagsOnly
    <3>6. Execute(t, ins) = Wrote(t, ins, f, r)
      BY <2>3, <3>1, <3>2, <3>4 DEF AddSub, Wrote, FlagsOnly
    <3>7. Kept(f) = Kept(s.flags)
      BY DEF Kept, SetZN, If
    <3> HIDE DEF f, r
    <3> QED
      BY <3>3, <3>5, <3>6, <3>7
  <2>4. CASE ins.op \in {"mul", "div", "mod", "and", "or", "xor", "shl", "shr", "addi", "neg", "not"}
    <3>1. /\ Execute(s, ins) = Compute(s, ins) /\ Execute(t, ins) = Compute(t, ins)
      BY <1>1, <1>3, <2>4, ExecuteIs
    <3>2. s.regs[ins.b] = t.regs[ins.b] /\ (ins.op \in ThreeRegs => s.regs[ins.c] = t.regs[ins.c])
      <4>1. ins.b \in 0 .. Registers - 1 /\ ins.b \in Reads(ins) /\ (ins.op \in ThreeRegs => ins.c \in 0 .. Registers - 1 /\ ins.c \in Reads(ins))
        BY <1>3, <2>4, OperandsAreRegisters DEF Reads, ThreeRegs, TwoRegs
      <4> QED
        BY <4>1 DEF Agree
    <3> DEFINE val(u) == CASE ins.op = "addi" -> Wrap(u.regs[ins.b] + ins.imm)
                           [] ins.op = "neg"  -> Wrap(-(u.regs[ins.b]))
                           [] ins.op = "not"  -> WordSize - 1 - u.regs[ins.b]
                           [] OTHER           -> Result(ins.op, u.regs[ins.b], u.regs[ins.c])
               zero(u) == ins.op \in {"div", "mod"} /\ u.regs[ins.c] = 0
    <3>3. val(t) = val(s) /\ zero(t) = zero(s)
      <4>1. CASE ins.op \in {"addi", "neg", "not"}
        BY <3>2, <4>1
      <4>2. CASE ins.op \notin {"addi", "neg", "not"}
        <5>1. ins.op \in ThreeRegs
          BY <2>4, <4>2 DEF ThreeRegs
        <5> QED
          BY <3>2, <4>2, <5>1
      <4> QED
        BY <4>1, <4>2
    <3>4. SetsFlags(ins) /\ Kept(t.flags) = Kept(s.flags)
      BY <2>4 DEF SetsFlags, Agree, ThreeRegs
    <3>5. \A u : Compute(u, ins) = IF zero(u) THEN Fault(u) ELSE Wrote(u, ins, SetZN(u.flags, val(u)), val(u))
      BY DEF Compute, Wrote, FlagsOnly
    <3> HIDE DEF val, zero
    <3>6. SetZN(t.flags, val(s)) = SetZN(s.flags, val(s))
      BY <3>4 DEF SetZN, Kept
    <3>7. Kept(SetZN(s.flags, val(s))) = Kept(s.flags)
      BY DEF Kept, SetZN, If
    <3>8. CASE zero(t)
      <4>1. Execute(t, ins) = Fault(t)
        BY <3>1, <3>5, <3>8
      <4> QED
        BY <1>1, <4>1
    <3>9. CASE ~zero(t)
      <4>1. Execute(s, ins) = Wrote(s, ins, SetZN(s.flags, val(s)), val(s))
        BY <3>1, <3>3, <3>5, <3>9
      <4>2. Execute(t, ins) = Wrote(t, ins, SetZN(s.flags, val(s)), val(s))
        BY <3>1, <3>3, <3>5, <3>6, <3>9
      <4> QED
        BY <3>4, <3>7, <4>1, <4>2
    <3> QED
      BY <3>8, <3>9
  <2>5. CASE ins.op \in {"ld", "ldb"}
    <3>1. Execute(s, ins) = Transfer(s, ins) /\ Execute(t, ins) = Transfer(t, ins)
      BY <1>1, <1>3, <2>5, ExecuteIs
    <3>2. s.regs[ins.b] = t.regs[ins.b]
      <4>1. ins.b \in 0 .. Registers - 1 /\ ins.b \in Reads(ins)
        BY <1>3, <2>5, OperandsAreRegisters DEF Reads, TwoRegs
      <4> QED
        BY <4>1 DEF Agree
    <3>3. ~SetsFlags(ins) /\ t.flags = s.flags
      BY <2>5 DEF SetsFlags, Agree, ThreeRegs
    <3> DEFINE addr == Wrap(s.regs[ins.b] + ins.imm)
               width == IF ins.op \in {"ld", "st"} THEN WordCells ELSE 1
               w == IF ins.op = "ld" THEN LoadWord(s.mem, addr) ELSE s.mem[addr]
    <3>4. \A u \in State : \A x : Advance(Write(u, ins.a, x)) = Wrote(u, ins, u.flags, x)
      BY DEF Wrote, FlagsOnly, State
    <3>5. Transfer(s, ins) = IF ~InMemory(addr, width) THEN Fault(s) ELSE Advance(Write(s, ins.a, w))
      BY <2>5 DEF Transfer
    <3>6. Transfer(t, ins) = IF ~InMemory(addr, width) THEN Fault(t) ELSE Advance(Write(t, ins.a, w))
      BY <1>1, <2>5, <3>2 DEF Transfer
    <3> HIDE DEF addr, width, w
    <3>7. CASE ~InMemory(addr, width)
      BY <1>1, <3>1, <3>6, <3>7
    <3>8. CASE InMemory(addr, width)
      BY <3>1, <3>3, <3>4, <3>5, <3>6, <3>8
    <3> QED
      BY <3>7, <3>8
  <2> QED
    BY <2>2, <2>3, <2>4, <2>5 DEF Writer, ThreeRegs
<1> QED
  BY <1>2, <1>3

\* After an instruction whose write is dead the next one does what it does without it, or faults.
LEMMA DeadPair ==
  ASSUME NEW s \in State, s.halted = "Running", NEW first \in Instruction, NEW second \in Instruction,
         DeadWritePair(first, second), NEW t, t = Execute(s, first)
  PROVE  \/ t.halted = "Fault"
         \/ /\ t.halted = "Running" /\ t.pc = (s.pc + 1) % IndexSize
            /\ \/ Execute(t, second).halted = "Fault"
               \/ Execute(t, second) = At(Execute(s, second), (t.pc + 1) % IndexSize)
<1>1. first.op \in Writer /\ second.op \in Writer /\ second.a = first.a /\ second.a \notin Reads(second)
  BY DEF DeadWritePair, Writes, Writer
<1>2. SetsFlags(first) => SetsFlags(second)
  BY DEF DeadWritePair
<1>3. Agree(s, s, first) /\ t \in State
  BY InstructionsKeepStates DEF Agree
<1>4. SUFFICES ASSUME t.halted # "Fault"
      PROVE  /\ t.halted = "Running" /\ t.pc = (s.pc + 1) % IndexSize
             /\ \/ Execute(t, second).halted = "Fault"
                \/ Execute(t, second) = At(Execute(s, second), (t.pc + 1) % IndexSize)
  OBVIOUS
<1>5. \E f, w : t = Wrote(s, first, f, w) /\ IF SetsFlags(first) THEN Kept(f) = Kept(s.flags) ELSE f = s.flags
  BY <1>1, <1>3, <1>4, WritersAgree
<1>6. PICK f, w : t = Wrote(s, first, f, w) /\ IF SetsFlags(first) THEN Kept(f) = Kept(s.flags) ELSE f = s.flags
  BY <1>5
<1>7. /\ t.pc = (s.pc + 1) % IndexSize /\ t.halted = s.halted /\ t.sp = s.sp /\ t.mem = s.mem /\ t.flags = f
      /\ \A r \in 0 .. Registers - 1 : r # first.a => t.regs[r] = s.regs[r]
  BY <1>6 DEF Wrote, Advance, Write, FlagsOnly, State
<1>8. Agree(s, t, second)
  <2>1. IF SetsFlags(second) THEN Kept(t.flags) = Kept(s.flags) ELSE t.flags = s.flags
    BY <1>2, <1>6, <1>7
  <2>2. \A r \in 0 .. Registers - 1 : r # second.a \/ r \in Reads(second) => t.regs[r] = s.regs[r]
    BY <1>1, <1>7
  <2> QED
    BY <1>7, <2>1, <2>2 DEF Agree
<1>9. \/ Execute(t, second).halted = "Fault"
      \/ \E g, x : Execute(s, second) = Wrote(s, second, g, x) /\ Execute(t, second) = Wrote(t, second, g, x)
  BY <1>1, <1>3, <1>8, WritersAgree
<1>10. \A g, x : Wrote(t, second, g, x) = At(Wrote(s, second, g, x), (t.pc + 1) % IndexSize)
  BY <1>3, <1>8, SameWritten
<1>11. \/ Execute(t, second).halted = "Fault"
       \/ Execute(t, second) = At(Execute(s, second), (t.pc + 1) % IndexSize)
  BY <1>9, <1>10
<1> QED
  BY <1>7, <1>11
-----------------------------------------------------------------------------
(* Runs without a dead write.                                              *)

\* A run goes on by one turn.
LEMMA RunsGoOn ==
  ASSUME NEW s, NEW program, NEW n \in Nat
  PROVE  RunFor(s, program, 0) = s /\ RunFor(s, program, n + 1) = OneTurn(RunFor(s, program, n), program)
<1> DEFINE T == Turns(s, program, n)
           U == Turns(s, program, n + 1)
           S == {k \in Nat : k <= n => T[k] = U[k] /\ \E t : T[k] = {t}}
<1>1. /\ T[0] = {s} /\ U[0] = {s}
      /\ \A k \in 1 .. n : T[k] = {OneTurn(t, program) : t \in T[k - 1]}
      /\ \A k \in 1 .. n + 1 : U[k] = {OneTurn(t, program) : t \in U[k - 1]}
  BY TurnsFacts
<1>2. Turns(s, program, 0)[0] = {s}
  BY TurnsFacts
<1>3. RunFor(s, program, 0) = s
  BY <1>2 DEF RunFor
<1> HIDE DEF T, U
<1>4. 0 \in S
  BY <1>1
<1>5. ASSUME NEW k \in Nat, k \in S PROVE k + 1 \in S
  <2>1. k + 1 \in Nat
    OBVIOUS
  <2>2. SUFFICES ASSUME k + 1 <= n PROVE T[k + 1] = U[k + 1] /\ \E t : T[k + 1] = {t}
    BY <2>1, Zenon
  <2>3. k + 1 \in 1 .. n /\ k + 1 \in 1 .. n + 1 /\ (k + 1) - 1 = k
    BY <2>2
  <2>4. PICK t : T[k] = {t} /\ U[k] = {t}
    BY <1>5, <2>2
  <2>5. T[k + 1] = {OneTurn(t, program)} /\ U[k + 1] = {OneTurn(t, program)}
    BY <1>1, <2>3, <2>4
  <2> QED
    BY <2>5
<1>6. n \in S
  <2> HIDE DEF S
  <2> QED
    BY <1>4, <1>5, NumberInduction
<1>7. PICK t : T[n] = {t} /\ U[n] = {t}
  BY <1>6
<1>8. n + 1 \in 1 .. n + 1 /\ (n + 1) - 1 = n
  OBVIOUS
<1>9. U[n + 1] = {OneTurn(t, program)}
  BY <1>1, <1>7, <1>8
<1>10. RunFor(s, program, n) = t
  BY <1>7 DEF RunFor, T
<1>11. RunFor(s, program, n + 1) = OneTurn(t, program)
  BY <1>9 DEF RunFor, U
<1> QED
  BY <1>3, <1>10, <1>11

\* A run keeps to states.
LEMMA RunIsState ==
  ASSUME NEW s \in State, NEW p \in Seq(Instruction), NEW n \in Nat
  PROVE  RunFor(s, p, n) \in State
<1> DEFINE S == {k \in Nat : RunFor(s, p, k) \in State}
<1>1. 0 \in S
  BY RunsGoOn
<1>2. ASSUME NEW k \in Nat, k \in S PROVE k + 1 \in S
  <2>1. RunFor(s, p, k + 1) = OneTurn(RunFor(s, p, k), p)
    BY RunsGoOn
  <2> QED
    BY <1>2, <2>1, StepIsState DEF OneTurn
<1>3. n \in S
  <2> HIDE DEF S
  <2> QED
    BY <1>1, <1>2, NumberInduction
<1> QED
  BY <1>3

\* Where an index moves to when the instruction at index i is left out.
Shifted(x, i) == IF x <= i THEN x ELSE x - 1

Branching == {"jmp", "jz", "jnz", "jn"}

\* What becomes of an instruction: a jump goes to where its target has moved.
Follow(ins, i) == IF ins.op \in Branching THEN [ins EXCEPT !.imm = Shifted(ins.imm, i)] ELSE ins

\* The program q is p without the dead write at index i, which nothing skips or jumps behind.
Shorter(p, q, i) ==
  /\ p \in Seq(Instruction) /\ q \in Seq(Instruction) /\ i \in Nat
  /\ i + 1 < Len(p) /\ Len(p) < IndexSize /\ Len(q) = Len(p) - 1
  /\ DeadWritePair(p[i + 1], p[i + 2])
  /\ \A x \in 0 .. Len(p) - 1 :
       /\ x # i => q[Shifted(x, i) + 1] = Follow(p[x + 1], i)
       /\ p[x + 1].op \notin {"call", "ret"}
       /\ p[x + 1].op \in Branching => p[x + 1].imm \in 0 .. Len(p) /\ p[x + 1].imm # i + 1

\* A state t of a run of p and one of a run of q: q is where p is, or is to do what p does next
\* and p has just executed the dead write.
Abreast(t, u, p, i) ==
  \/ t.halted = "Fault"
  \/ /\ t \in State /\ t.pc \in 0 .. Len(p) /\ t.pc # i + 1
     /\ u = At(t, Shifted(t.pc, i))
  \/ /\ u \in State /\ u.pc = i /\ u.halted = "Running"
     /\ t = Execute(u, p[i + 1]) /\ t.halted = "Running" /\ t.pc = i + 1

LEMMA SmallModulo == ASSUME NEW x \in Nat, NEW n \in Nat, x < n PROVE x % n = x
OBVIOUS

\* A branch goes to where its target has moved, or on.
LEMMA BranchMoves ==
  ASSUME NEW t \in State, NEW ins \in Instruction, ins.op \in Branching, NEW i \in Nat, NEW n \in Nat, n < IndexSize,
         t.pc < n, t.pc # i, t.pc # i + 1, ins.imm \in 0 .. n, ins.imm # i + 1
  PROVE  /\ Branch(t, ins) \in State /\ Branch(t, ins).pc \in 0 .. n /\ Branch(t, ins).pc # i + 1
         /\ Branch(At(t, Shifted(t.pc, i)), Follow(ins, i)) = At(Branch(t, ins), Shifted(Branch(t, ins).pc, i))
<1> DEFINE m == Shifted(t.pc, i)
           taken == \/ ins.op = "jmp"
                    \/ ins.op = "jz"  /\ "Z" \in t.flags
                    \/ ins.op = "jnz" /\ "Z" \notin t.flags
                    \/ ins.op = "jn"  /\ "N" \in t.flags
<1>1. /\ t.pc \in Nat /\ IndexSize \in Nat \ {0} /\ Index = 0 .. IndexSize - 1
      /\ m \in Nat /\ m < n /\ Shifted(t.pc + 1, i) = m + 1
      /\ Shifted(ins.imm, i) \in Nat /\ Shifted(ins.imm, i) < IndexSize
  BY SizesArePositive, Contents DEF Index, Shifted
<1> HIDE DEF m
<1>2. (t.pc + 1) % IndexSize = t.pc + 1 /\ (m + 1) % IndexSize = m + 1
  <2>1. t.pc + 1 \in Nat /\ t.pc + 1 < IndexSize /\ m + 1 \in Nat /\ m + 1 < IndexSize /\ IndexSize \in Nat
    BY <1>1
  <2> QED
    BY <2>1, SmallModulo
<1>3. /\ ins.imm % IndexSize = ins.imm /\ Shifted(ins.imm, i) % IndexSize = Shifted(ins.imm, i)
      /\ ins.imm \in Nat /\ ins.imm < IndexSize
  <2>1. ins.imm \in Nat /\ ins.imm < IndexSize /\ IndexSize \in Nat
    BY <1>1
  <2> QED
    BY <1>1, <2>1, SmallModulo
<1>4. At(t, m).flags = t.flags /\ At(t, m) = [t EXCEPT !.pc = m]
  BY DEF At, State
<1>5. Follow(ins, i).op = ins.op /\ Follow(ins, i).imm = Shifted(ins.imm, i)
  BY DEF Follow, Instruction
<1>6. /\ Branch(t, ins) = IF taken THEN Jump(t, ins.imm) ELSE Advance(t)
      /\ Branch(At(t, m), Follow(ins, i)) = IF taken THEN Jump(At(t, m), Shifted(ins.imm, i)) ELSE Advance(At(t, m))
  BY <1>4, <1>5 DEF Branch
<1> HIDE DEF taken
<1>7. CASE taken
  <2>1. Branch(t, ins) = At(t, ins.imm) /\ Branch(At(t, m), Follow(ins, i)) = At(At(t, m), Shifted(ins.imm, i))
    BY <1>3, <1>6, <1>7 DEF Jump, At
  <2>2. At(t, ins.imm).pc = ins.imm /\ At(t, ins.imm) \in State
    <3>1. ins.imm \in 0 .. IndexSize - 1
      BY <1>1, <1>3
    <3>2. ins.imm \in Index
      BY <1>1, <3>1
    <3> QED
      BY <3>2, AtFacts
  <2>3. At(At(t, m), Shifted(ins.imm, i)) = At(At(t, ins.imm), Shifted(ins.imm, i))
    BY DEF At, State
  <2> QED
    BY <2>1, <2>2, <2>3 DEF m
<1>8. CASE ~taken
  <2>1. Branch(t, ins) = At(t, t.pc + 1) /\ Branch(At(t, m), Follow(ins, i)) = At(At(t, m), m + 1)
    <3>1. Advance(t) = At(t, t.pc + 1)
      BY <1>2 DEF Advance, At, State
    <3>2. At(t, m).pc = m
      BY DEF At, State
    <3>3. Advance(At(t, m)) = At(At(t, m), m + 1)
      BY <1>2, <3>2 DEF Advance, At
    <3> QED
      BY <1>6, <1>8, <3>1, <3>3
  <2>2. At(t, t.pc + 1).pc = t.pc + 1 /\ At(t, t.pc + 1) \in State
    <3>1. t.pc + 1 \in 0 .. IndexSize - 1
      BY <1>1
    <3>2. t.pc + 1 \in Index
      BY <1>1, <3>1
    <3> QED
      BY <3>2, AtFacts
  <2>3. At(At(t, m), m + 1) = At(At(t, t.pc + 1), m + 1)
    BY DEF At, State
  <2>4. t.pc + 1 \in 0 .. n /\ t.pc + 1 # i + 1
    BY <1>1
  <2> QED
    BY <1>1, <2>1, <2>2, <2>3, <2>4 DEF m
<1> QED
  BY <1>7, <1>8

\* Any other instruction does the same at the index it has moved to.
LEMMA MoveTogether ==
  ASSUME NEW t \in State, t.halted = "Running", NEW ins \in Instruction, ins.op \notin {"call", "ret"},
         NEW i \in Nat, NEW n \in Nat, n < IndexSize, t.pc < n, t.pc # i, t.pc # i + 1,
         ins.op \in Branching => ins.imm \in 0 .. n /\ ins.imm # i + 1
  PROVE  LET s == Execute(t, ins)
         IN \/ s.halted = "Fault"
            \/ /\ s \in State /\ s.pc \in 0 .. n /\ s.pc # i + 1
               /\ Execute(At(t, Shifted(t.pc, i)), Follow(ins, i)) = At(s, Shifted(s.pc, i))
<1> DEFINE m == Shifted(t.pc, i)
           s == Execute(t, ins)
           u == At(t, m)
<1>1. /\ t.pc \in Nat /\ IndexSize \in Nat \ {0} /\ Index = 0 .. IndexSize - 1
      /\ m \in Nat /\ m < n /\ m \in Index /\ m + 1 = Shifted(t.pc + 1, i) /\ t.pc + 1 \in 0 .. n /\ t.pc + 1 # i + 1
  BY SizesArePositive, Contents DEF Index, Shifted
<1> HIDE DEF m
<1>2. (t.pc + 1) % IndexSize = t.pc + 1 /\ (m + 1) % IndexSize = m + 1
  <2>1. t.pc + 1 \in Nat /\ t.pc + 1 < IndexSize /\ m + 1 \in Nat /\ m + 1 < IndexSize /\ IndexSize \in Nat
    BY <1>1
  <2> QED
    BY <2>1, SmallModulo
<1>3. u \in State /\ u.pc = m /\ u.halted = "Running" /\ s \in State
  BY <1>1, AtFacts, InstructionsKeepStates
<1>4. CASE ins.op \in Branching
  <2>1. WellFormed(ins) /\ WellFormed(Follow(ins, i)) /\ Follow(ins, i).op = ins.op
    BY <1>4 DEF WellFormed, Operands, Follow, Branching, Opcode, Jumps, OneReg, TwoRegs, ThreeRegs, Instruction
  <2>2. s = Branch(t, ins) /\ Execute(u, Follow(ins, i)) = Branch(u, Follow(ins, i))
    BY <1>3, <1>4, <2>1, ExecuteIs DEF Branching
  <2> QED
    BY <1>4, <2>2, BranchMoves DEF m
<1>5. CASE ins.op = "halt"
  <2>1. WellFormed(ins) /\ Follow(ins, i) = ins
    BY <1>5 DEF WellFormed, Operands, Follow, Branching, Opcode, Plain, OneReg, TwoRegs, ThreeRegs
  <2>2. s = [t EXCEPT !.halted = "Halt"] /\ Execute(u, ins) = [u EXCEPT !.halted = "Halt"]
    BY <1>3, <1>5, <2>1, ExecuteIs
  <2>3. s.pc = t.pc /\ [u EXCEPT !.halted = "Halt"] = At(s, m)
    BY <2>2 DEF At, State
  <2> QED
    BY <1>1, <1>3, <2>1, <2>2, <2>3 DEF m
<1>6. CASE ins.op \notin Branching /\ ins.op # "halt"
  <2>1. ins.op \notin IsControl /\ Follow(ins, i) = ins
    BY <1>6 DEF IsControl, Branching, Follow
  <2>2. CASE s.halted = "Fault"
    BY <2>2
  <2>3. CASE s.halted # "Fault"
    <3>1. s.halted = "Running" /\ s.pc = t.pc + 1
      BY <1>1, <1>2, <2>1, <2>3, ExecuteAt
    <3>2. PICK x \in Index : Execute(u, ins) = At(s, x)
      BY <1>1, <2>1, ExecuteAt
    <3>3. Execute(u, ins).halted = "Running" /\ Execute(u, ins).pc = x
      BY <1>3, <3>1, <3>2, AtFacts
    <3>4. Execute(u, ins).pc = m + 1
      BY <1>2, <1>3, <2>1, <3>3, ExecuteAt
    <3> QED
      BY <1>1, <1>3, <2>1, <3>1, <3>2, <3>3, <3>4 DEF m
  <2> QED
    BY <2>2, <2>3
<1> QED
  BY <1>4, <1>5, <1>6

\* One turn of the run of p is one of the run of q, or none.
LEMMA TurnAbreast ==
  ASSUME NEW p, NEW q, NEW i, Shorter(p, q, i), NEW t, NEW u, Abreast(t, u, p, i)
  PROVE  Abreast(OneTurn(t, p), u, p, i) \/ Abreast(OneTurn(t, p), OneTurn(u, q), p, i)
<1> DEFINE n == Len(p)
<1>1. /\ n \in Nat /\ i \in Nat /\ i + 1 < n /\ n < IndexSize /\ Len(q) = n - 1
      /\ \A x \in 0 .. n - 1 : p[x + 1] \in Instruction
      /\ \A x \in 0 .. n - 2 : q[x + 1] \in Instruction
      /\ IndexSize \in Nat \ {0}
  <2>1. p \in Seq(Instruction) /\ q \in Seq(Instruction)
    BY DEF Shorter
  <2>2. \A x \in 1 .. Len(p) : p[x] \in Instruction
    BY <2>1, ElementOfSeq
  <2>3. \A x \in 1 .. Len(q) : q[x] \in Instruction
    BY <2>1, ElementOfSeq
  <2>4. /\ n \in Nat /\ Len(q) \in Nat /\ i \in Nat /\ i + 1 < n /\ n < IndexSize /\ Len(q) = n - 1
    BY <2>1, LenProperties DEF Shorter
  <2>5. \A x \in 0 .. n - 1 : x + 1 \in 1 .. n
    BY <2>4
  <2>6. \A x \in 0 .. n - 2 : x + 1 \in 1 .. Len(q)
    BY <2>4
  <2> QED
    BY <2>2, <2>3, <2>4, <2>5, <2>6, SizesArePositive
<1> HIDE DEF n
<1>2. (i + 1) % IndexSize = i + 1 /\ (i + 2) % IndexSize = i + 2
  <2>1. i + 1 \in Nat /\ i + 2 \in Nat /\ i + 1 < IndexSize /\ i + 2 < IndexSize
    BY <1>1
  <2> QED
    BY <1>1, <2>1, SmallModulo
<1>3. CASE t.halted = "Fault"
  BY <1>3 DEF OneTurn, Abreast
<1>4. CASE t.halted # "Fault" /\ t \in State /\ t.pc \in 0 .. n /\ t.pc # i + 1 /\ u = At(t, Shifted(t.pc, i))
  <2>1. Shifted(t.pc, i) \in Nat /\ Shifted(t.pc, i) \in Index /\ t.pc \in Nat
    BY <1>1, <1>4 DEF Shifted, Index
  <2>2. u \in State /\ u.pc = Shifted(t.pc, i) /\ u.halted = t.halted
    BY <1>4, <2>1, AtFacts
  <2>3. CASE t.halted # "Running"
    BY <1>4, <2>3 DEF OneTurn, Abreast, n
  <2>4. CASE t.halted = "Running" /\ t.pc = n
    <3>1. u.pc = n - 1
      BY <1>1, <2>2, <2>4 DEF Shifted
    <3>2. OneTurn(t, p) = [t EXCEPT !.halted = "EndOfProgram"] /\ OneTurn(u, q) = [u EXCEPT !.halted = "EndOfProgram"]
      BY <1>1, <2>2, <2>4, <3>1 DEF OneTurn, StepOf, Ended, n
    <3>3. /\ OneTurn(t, p) \in State /\ OneTurn(t, p).pc = t.pc
          /\ OneTurn(u, q) = At(OneTurn(t, p), Shifted(t.pc, i))
      BY <1>4, <3>2 DEF At, State, Reason
    <3> QED
      BY <1>4, <3>3 DEF Abreast, n
  <2>5. CASE t.halted = "Running" /\ t.pc = i
    <3>1. u = t
      BY <1>4, <2>5, AtFacts DEF Shifted, At, State
    <3>2. OneTurn(t, p) = Execute(t, p[i + 1])
      BY <1>1, <2>5 DEF OneTurn, StepOf, Ended, n
    <3>3. p[i + 1] \in Instruction /\ p[i + 1].op \notin IsControl
      <4>1. Writes(p[i + 1]) # {} /\ p[i + 1] \in Instruction
        BY <1>1 DEF Shorter, DeadWritePair
      <4> QED
        BY <4>1 DEF Writes, IsControl, ThreeRegs
    <3>4. /\ OneTurn(t, p).halted \in {"Running", "Fault"}
          /\ OneTurn(t, p).halted = "Running" => OneTurn(t, p).pc = i + 1
      <4>1. t.halted = "Running"
        BY <2>5
      <4>2. /\ Execute(t, p[i + 1]).halted \in {"Running", "Fault"}
            /\ Execute(t, p[i + 1]).halted = "Running" => Execute(t, p[i + 1]).pc = (t.pc + 1) % IndexSize
        <5>1. t.pc \in Index
          BY <1>4, Contents
        <5> QED
          BY <1>4, <3>3, <4>1, <5>1, ExecuteAt
      <4> QED
        BY <1>2, <2>5, <3>2, <4>2
    <3> QED
      BY <1>4, <2>5, <3>1, <3>2, <3>4 DEF Abreast
  <2>6. CASE t.halted = "Running" /\ t.pc # n /\ t.pc # i
    <3> DEFINE ins == p[t.pc + 1]
               s == Execute(t, ins)
    <3>1. t.pc \in 0 .. n - 1 /\ t.pc < n
      BY <1>1, <1>4, <2>6
    <3>2. /\ q[Shifted(t.pc, i) + 1] = Follow(ins, i) /\ ins.op \notin {"call", "ret"} /\ ins \in Instruction
          /\ ins.op \in Branching => ins.imm \in 0 .. n /\ ins.imm # i + 1
      BY <1>1, <2>6, <3>1 DEF Shorter, n
    <3>3. Shifted(t.pc, i) < n - 1
      BY <1>1, <1>4, <2>6, <3>1 DEF Shifted
    <3>4. OneTurn(t, p) = s
      BY <1>1, <2>1, <2>6, <3>1 DEF OneTurn, StepOf, Ended, n
    <3>5. OneTurn(u, q) = Execute(u, q[Shifted(t.pc, i) + 1])
      BY <1>1, <2>1, <2>2, <2>6, <3>3 DEF OneTurn, StepOf, Ended
    <3>6. OneTurn(u, q) = Execute(At(t, Shifted(t.pc, i)), Follow(ins, i))
      BY <1>4, <3>2, <3>5
    <3> HIDE DEF ins
    <3>7. \/ s.halted = "Fault"
          \/ /\ s \in State /\ s.pc \in 0 .. n /\ s.pc # i + 1
             /\ Execute(At(t, Shifted(t.pc, i)), Follow(ins, i)) = At(s, Shifted(s.pc, i))
      BY <1>1, <1>4, <2>6, <3>1, <3>2, MoveTogether
    <3> QED
      BY <3>4, <3>6, <3>7 DEF Abreast, n
  <2> QED
    BY <1>4, <2>3, <2>4, <2>5, <2>6
<1>5. CASE /\ u \in State /\ u.pc = i /\ u.halted = "Running"
           /\ t = Execute(u, p[i + 1]) /\ t.halted = "Running" /\ t.pc = i + 1
  <2> DEFINE first == p[i + 1]
             second == p[i + 2]
             v == Execute(u, second)
  <2>1. first \in Instruction /\ second \in Instruction /\ q[i + 1] = second /\ DeadWritePair(first, second)
    <3>1. i + 1 \in 0 .. n - 1 /\ i \in 0 .. n - 1 /\ (i + 1) + 1 = i + 2 /\ Shifted(i + 1, i) = i /\ i + 1 # i
      BY <1>1 DEF Shifted
    <3>2. q[i + 1] = Follow(second, i) /\ DeadWritePair(first, second)
      BY <3>1 DEF Shorter, n
    <3>3. Follow(second, i) = second
      BY <3>2 DEF Follow, Branching, DeadWritePair, Writes, ThreeRegs
    <3> QED
      BY <1>1, <3>1, <3>2, <3>3
  <2>2. OneTurn(t, p) = Execute(t, second) /\ OneTurn(u, q) = v
    <3>1. ~(i + 1 >= n) /\ ~(i >= n - 1) /\ (i + 1) + 1 = i + 2
      BY <1>1
    <3> QED
      BY <1>1, <1>5, <2>1, <3>1 DEF OneTurn, StepOf, Ended, n
  <2> HIDE DEF first, second
  <2>3. Execute(t, second).halted = "Fault" \/ Execute(t, second) = At(v, i + 2)
    <3>1. (t.pc + 1) % IndexSize = i + 2
      <4>1. t.pc + 1 = i + 2
        BY <1>1, <1>5
      <4> QED
        BY <1>2, <4>1
    <3>2. t = Execute(u, first)
      BY <1>5 DEF first
    <3> QED
      BY <1>5, <2>1, <3>1, <3>2, DeadPair
  <2>4. CASE Execute(t, second).halted = "Fault"
    BY <2>2, <2>4 DEF Abreast
  <2>5. CASE Execute(t, second).halted # "Fault"
    <3>1. Execute(t, second) = At(v, i + 2) /\ v \in State /\ i + 2 \in Index
      BY <1>1, <1>5, <2>1, <2>3, <2>5, InstructionsKeepStates DEF Index
    <3>2. v.halted # "Fault" /\ At(v, i + 2) \in State /\ At(v, i + 2).pc = i + 2
      BY <2>5, <3>1, AtFacts
    <3>3. second.op \notin IsControl
      BY <2>1 DEF DeadWritePair, Writes, IsControl, ThreeRegs
    <3>4. v.pc = i + 1
      <4>1. u.pc \in Index /\ v.halted \in {"Running", "Fault"} /\ (v.halted = "Running" => v.pc = (u.pc + 1) % IndexSize)
        <5>1. u.pc \in Index
          BY <1>5, Contents
        <5> QED
          BY <1>5, <2>1, <3>3, <5>1, ExecuteAt
      <4> QED
        BY <1>2, <1>5, <3>2, <4>1
    <3>5. Shifted(i + 2, i) = i + 1 /\ i + 2 \in 0 .. n /\ i + 2 # i + 1
      BY <1>1 DEF Shifted
    <3>6. At(At(v, i + 2), i + 1) = v
      BY <3>1, <3>4 DEF At, State
    <3> QED
      BY <2>2, <3>1, <3>2, <3>5, <3>6 DEF Abreast, n
  <2> QED
    BY <2>4, <2>5
<1> QED
  BY <1>3, <1>4, <1>5 DEF Abreast, n

\* So a run that ends well ends in the same state without the dead write, but for pc, and is no longer.
LEMMA ShorterRuns ==
  ASSUME NEW p, NEW q, NEW i, Shorter(p, q, i), NEW s \in State, s.pc = 0, NEW n \in Nat,
         RunFor(s, p, n).halted \notin {"Running", "Fault"}
  PROVE  \E x \in Index : RunFor(s, q, n) = At(RunFor(s, p, n), x)
<1> DEFINE S == {k \in Nat : \E m \in 0 .. k : Abreast(RunFor(s, p, k), RunFor(s, q, m), p, i)}
<1>1. 0 \in S
  <2>1. RunFor(s, p, 0) = s /\ RunFor(s, q, 0) = s
    BY RunsGoOn
  <2>2. i \in Nat /\ Len(p) \in Nat /\ Shifted(0, i) = 0 /\ 0 \in 0 .. Len(p) /\ 0 # i + 1
    BY LenProperties DEF Shorter, Shifted
  <2>3. At(s, 0) = s
    BY DEF At, State
  <2>4. Abreast(s, s, p, i)
    BY <2>2, <2>3 DEF Abreast
  <2> QED
    BY <2>1, <2>4
<1>2. ASSUME NEW k \in Nat, k \in S PROVE k + 1 \in S
  <2>1. PICK m \in 0 .. k : Abreast(RunFor(s, p, k), RunFor(s, q, m), p, i)
    BY <1>2
  <2>2. m \in Nat /\ m \in 0 .. k + 1 /\ m + 1 \in 0 .. k + 1 /\ k + 1 \in Nat
    OBVIOUS
  <2>3. /\ RunFor(s, p, k + 1) = OneTurn(RunFor(s, p, k), p)
        /\ RunFor(s, q, m + 1) = OneTurn(RunFor(s, q, m), q)
    BY <2>2, RunsGoOn
  <2>4. \/ Abreast(RunFor(s, p, k + 1), RunFor(s, q, m), p, i)
        \/ Abreast(RunFor(s, p, k + 1), RunFor(s, q, m + 1), p, i)
    BY <2>1, <2>3, TurnAbreast
  <2> QED
    BY <2>2, <2>4
<1>3. n \in S
  <2> HIDE DEF S
  <2> QED
    BY <1>1, <1>2, NumberInduction
<1>4. PICK m \in 0 .. n : Abreast(RunFor(s, p, n), RunFor(s, q, m), p, i)
  BY <1>3
<1>5. PICK t : t = RunFor(s, p, n)
  OBVIOUS
<1>6. t \in State /\ t.pc \in 0 .. Len(p) /\ RunFor(s, q, m) = At(t, Shifted(t.pc, i)) /\ t.halted # "Running"
  BY <1>4, <1>5 DEF Abreast
<1>7. Shifted(t.pc, i) \in Index
  <2>1. Len(p) \in Nat /\ Len(p) < IndexSize /\ i \in Nat /\ IndexSize \in Nat
    BY LenProperties, SizesArePositive DEF Shorter
  <2> QED
    BY <1>6, <2>1 DEF Shifted, Index
<1>8. RunFor(s, q, m).halted # "Running"
  BY <1>6, <1>7, AtFacts
<1>9. RunFor(s, q, n) = RunFor(s, q, m)
  <2>1. m \in Nat /\ m <= n
    OBVIOUS
  <2> QED
    BY <1>8, <2>1, HaltedRunsStay
<1> QED
  BY <1>5, <1>6, <1>7, <1>9
-----------------------------------------------------------------------------
(* The program of a fill.                                                  *)

\* The lengths and the code of the items when the holes have the fills fs.
SizesOf(fs)   == [j \in DOMAIN sketch.items |-> IF IsHole(sketch.items[j]) THEN Len(fs[HoleAt(sketch, j)]) ELSE 1]
TargetOf(ref) == (CHOOSE label \in ToSet(sketch.labels) : label.name = ref).at
CodeOf(fs, j) ==
  LET item == sketch.items[j]
  IN CASE IsHole(item) -> fs[HoleAt(sketch, j)]
       [] ~IsHole(item) /\ item.ref = NoRef -> <<item.ins>>
       [] OTHER -> <<[item.ins EXCEPT !.imm = Sums(SizesOf(fs))[TargetOf(item.ref) - 1]]>>
CodeRows(fs) == [j \in DOMAIN sketch.items |-> CodeOf(fs, j)]

\* The items of a sketch that has been accepted.
Items ==
  /\ Ready /\ Len(sketch.items) \in Nat /\ DOMAIN sketch.items = 1 .. Len(sketch.items)
  /\ \A j \in 1 .. Len(sketch.items) :
       /\ sketch.items[j] \in ToSet(prob.lines)
       /\ IsHole(sketch.items[j]) => HoleAt(sketch, j) \in 1 .. HoleCount
       /\ ~IsHole(sketch.items[j]) => /\ sketch.items[j].kind = "ins" /\ sketch.items[j].ins \in Instruction
                                      /\ sketch.items[j].ref # NoRef =>
                                           TargetOf(sketch.items[j].ref) \in 1 .. Len(sketch.items) + 1
  /\ \A i, j \in 1 .. Len(sketch.items) :
       IsHole(sketch.items[i]) /\ IsHole(sketch.items[j]) /\ HoleAt(sketch, i) = HoleAt(sketch, j) => i = j
  /\ \A h \in 1 .. HoleCount : \E j \in 1 .. Len(sketch.items) : IsHole(sketch.items[j]) /\ HoleAt(sketch, j) = h

LEMMA ItemsAre == ASSUME SketchInv, phase # "rejected" PROVE Items
<1>1. PICK L, items, labels : L = ToSet(prob.lines) /\ items = sketch.items /\ labels = sketch.labels
  OBVIOUS
<1>2. IsSketch(sketch, L) /\ Ready /\ \A line \in L : IsLine(line)
  BY <1>1, SketchFacts
<1>3. Parses(sketch)
  BY DEF SketchInv, Accepts
<1>4. PICK n : n = Len(items)
  OBVIOUS
<1>5. /\ n \in Nat /\ DOMAIN items = 1 .. n /\ \A j \in 1 .. n : items[j] \in L /\ items[j].kind # "blank" /\ items[j] \in ToSet(items)
  <2>1. items \in Seq(L) /\ NoBlanks(items)
    BY <1>1, <1>2 DEF IsSketch
  <2>2. n \in Nat /\ DOMAIN items = 1 .. n /\ \A j \in 1 .. n : items[j] \in L
    BY <1>4, <2>1, LenProperties, ElementOfSeq
  <2> QED
    BY <2>1, <2>2 DEF NoBlanks, ToSet
<1>6. ASSUME NEW ref \in Names(sketch) PROVE TargetOf(ref) \in 1 .. n + 1
  <2>1. \E label \in ToSet(labels) : label.name = ref
    BY <1>1 DEF Names
  <2>2. PICK label : label = CHOOSE lb \in ToSet(labels) : lb.name = ref
    OBVIOUS
  <2>3. label \in ToSet(labels)
    BY <2>1, <2>2
  <2>4. \A i \in DOMAIN labels : labels[i].at \in 1 .. n + 1
    BY <1>1, <1>2, <1>4 DEF IsSketch
  <2>5. label.at \in 1 .. n + 1
    BY <2>3, <2>4 DEF ToSet
  <2> QED
    BY <1>1, <2>2, <2>5 DEF TargetOf
<1>7. ASSUME NEW j \in 1 .. n, ~IsHole(items[j])
      PROVE  items[j].kind = "ins" /\ items[j].ins \in Instruction /\ (items[j].ref # NoRef => items[j].ref \in Names(sketch))
  <2>1. items[j].kind = "ins" /\ items[j].ins \in Instruction
    BY <1>2, <1>5, <1>7 DEF IsLine, IsHole
  <2>2. items[j].ref # NoRef => items[j].ref \in Refs(sketch)
    BY <1>1, <1>5, <2>1 DEF Refs
  <2> QED
    BY <1>3, <2>1, <2>2 DEF Parses
<1>8. /\ \A i \in 1 .. n : IsHole(items[i]) => HoleAt(sketch, i) \in 1 .. HoleCount
      /\ \A h \in 1 .. HoleCount : \E i \in 1 .. n : IsHole(items[i]) /\ HoleAt(sketch, i) = h
      /\ \A i, j \in 1 .. n : IsHole(items[i]) /\ IsHole(items[j]) /\ HoleAt(sketch, i) = HoleAt(sketch, j) => i = j
  <2>1. Numbered(sketch)
    BY <1>2, HolesAre
  <2>2. n = Len(sketch.items) /\ items = sketch.items /\ HoleCount = Len(Holes(sketch))
    BY <1>1, <1>4 DEF HoleCount
  <2> QED
    BY <2>1, <2>2 DEF Numbered
<1>9. \A j \in 1 .. n : ~IsHole(items[j]) /\ items[j].ref # NoRef => TargetOf(items[j].ref) \in 1 .. n + 1
  BY <1>6, <1>7
<1> QED
  BY <1>1, <1>2, <1>4, <1>5, <1>7, <1>8, <1>9 DEF Items

\* The code of the items is laid end to end.
Built(fs, P) ==
  /\ SizesOf(fs) \in [1 .. Len(sketch.items) -> Nat]
  /\ P \in Seq(Instruction) /\ Len(P) = SumOf(SizesOf(fs))
  /\ \A j \in 1 .. Len(sketch.items) : \A k \in 1 .. SizesOf(fs)[j] :
       P[Sums(SizesOf(fs))[j - 1] + k] = CodeOf(fs, j)[k]

LEMMA CodeIs ==
  ASSUME Items, NEW fs \in AllFills
  PROVE  Built(fs, Instantiate(sketch, fs))
<1>1. PICK n, items : n = Len(sketch.items) /\ items = sketch.items
  OBVIOUS
<1>2. n \in Nat /\ DOMAIN items = 1 .. n /\ Ready
  BY <1>1 DEF Items
<1>3. \A h \in 1 .. HoleCount : fs[h] \in Seq(Fillers) /\ Len(fs[h]) \in Nat
  <2>1. ASSUME NEW h \in 1 .. HoleCount PROVE fs[h] \in Seq(Fillers) /\ Len(fs[h]) \in Nat
    <3>1. PICK m \in 0 .. MaxOf(h) : fs[h] \in [1 .. m -> ToSet(AlphabetOf(h))]
      BY <1>2, AllFillsAre
    <3>2. MaxOf(h) \in Nat /\ AlphabetOf(h) \in Seq(Fillers)
      BY <1>2 DEF Ready
    <3>3. ToSet(AlphabetOf(h)) \subseteq Fillers
      BY <3>2, LenProperties, ElementOfSeq DEF ToSet
    <3>4. m \in Nat /\ fs[h] \in [1 .. m -> Fillers]
      BY <3>1, <3>2, <3>3
    <3> QED
      BY <3>4, SeqIs
  <2> QED
    BY <2>1
<1>4. SizesOf(fs) \in [1 .. n -> Nat]
  <2>1. ASSUME NEW j \in 1 .. n PROVE (IF IsHole(items[j]) THEN Len(fs[HoleAt(sketch, j)]) ELSE 1) \in Nat
    BY <1>1, <1>3 DEF Items
  <2> QED
    BY <1>1, <1>2, <2>1 DEF SizesOf
<1>5. PICK sums : sums = Sums(SizesOf(fs))
  OBVIOUS
<1>6. sums \in [0 .. n -> Nat]
  BY <1>2, <1>4, <1>5, SumsGrow
<1>7. ASSUME NEW j \in 1 .. n PROVE CodeOf(fs, j) \in Seq(Instruction) /\ Len(CodeOf(fs, j)) = SizesOf(fs)[j]
  <2>1. SizesOf(fs)[j] = IF IsHole(items[j]) THEN Len(fs[HoleAt(sketch, j)]) ELSE 1
    BY <1>1, <1>2 DEF SizesOf
  <2>2. CASE IsHole(items[j])
    <3>1. CodeOf(fs, j) = fs[HoleAt(sketch, j)] /\ HoleAt(sketch, j) \in 1 .. HoleCount
      BY <1>1, <2>2 DEF CodeOf, Items
    <3>2. CodeOf(fs, j) \in Seq(Fillers)
      BY <1>3, <3>1
    <3>3. CodeOf(fs, j) \in Seq(Instruction)
      BY <3>2, SeqMonotonic DEF Fillers
    <3> QED
      BY <2>1, <2>2, <3>1, <3>3
  <2>3. CASE ~IsHole(items[j])
    <3>1. items[j].ins \in Instruction /\ (items[j].ref # NoRef => TargetOf(items[j].ref) \in 1 .. n + 1)
      BY <1>1, <2>3 DEF Items
    <3>2. PICK ins : ins = IF items[j].ref = NoRef THEN items[j].ins
                           ELSE [items[j].ins EXCEPT !.imm = sums[TargetOf(items[j].ref) - 1]]
      OBVIOUS
    <3>3. CodeOf(fs, j) = <<ins>>
      BY <1>1, <1>5, <2>3, <3>2 DEF CodeOf
    <3>4. ins \in Instruction
      <4>1. CASE items[j].ref = NoRef
        BY <3>1, <3>2, <4>1
      <4>2. CASE items[j].ref # NoRef
        <5>1. TargetOf(items[j].ref) - 1 \in 0 .. n
          BY <1>2, <3>1, <4>2
        <5>2. PICK x \in Int : x = sums[TargetOf(items[j].ref) - 1]
          BY <1>6, <5>1
        <5>3. ins = [items[j].ins EXCEPT !.imm = x]
          BY <3>2, <4>2, <5>2
        <5> QED
          BY <3>1, <5>3 DEF Instruction
      <4> QED
        BY <4>1, <4>2
    <3> QED
      BY <2>1, <2>3, <3>3, <3>4
  <2> QED
    BY <2>2, <2>3
<1>8. Rows(CodeRows(fs), n, Instruction) /\ Lens(CodeRows(fs)) = SizesOf(fs) /\ \A j \in 1 .. n : CodeRows(fs)[j] = CodeOf(fs, j)
  <2>1. DOMAIN sketch.items = 1 .. n
    BY <1>1, <1>2
  <2>2. CodeRows(fs) = [j \in 1 .. n |-> CodeOf(fs, j)]
    BY <2>1 DEF CodeRows
  <2>3. PICK rows : rows = CodeRows(fs)
    OBVIOUS
  <2>4. rows \in [1 .. n -> Seq(Instruction)] /\ \A j \in 1 .. n : rows[j] = CodeOf(fs, j)
    BY <1>7, <2>2, <2>3
  <2>5. Lens(rows) = [j \in 1 .. n |-> SizesOf(fs)[j]]
    BY <1>7, <2>4 DEF Lens
  <2>6. Lens(rows) = SizesOf(fs)
    BY <1>4, <2>5
  <2> QED
    BY <1>2, <2>3, <2>4, <2>6 DEF Rows
<1>9. Laid(FlattenSeq(CodeRows(fs)), CodeRows(fs), n, Instruction)
  BY <1>8, FlatIs
<1>10. Instantiate(sketch, fs) = FlattenSeq(CodeRows(fs))
  <2> DEFINE start == Starts(sketch, fs)
             code(i) == LET item == items[i]
                 IN CASE IsHole(item) -> fs[HoleAt(sketch, i)]
                      [] ~IsHole(item) /\ item.ref = NoRef -> <<item.ins>>
                      [] OTHER -> <<[item.ins EXCEPT !.imm = start[TargetOf(item.ref)]]>>
  <2>1. start = [i \in 1 .. n + 1 |-> sums[i - 1]]
    BY <1>1, <1>5 DEF Starts, SizesOf
  <2>2. Instantiate(sketch, fs) = FlattenSeq([i \in 1 .. n |-> code(i)])
    BY <1>1, <1>2 DEF Instantiate, TargetOf
  <2> HIDE DEF start
  <2>3. ASSUME NEW j \in 1 .. n PROVE code(j) = CodeOf(fs, j)
    <3>1. CASE IsHole(items[j]) \/ items[j].ref = NoRef
      BY <1>1, <3>1 DEF CodeOf
    <3>2. CASE ~IsHole(items[j]) /\ items[j].ref # NoRef
      <4>1. TargetOf(items[j].ref) \in 1 .. n + 1
        BY <1>1, <3>2 DEF Items
      <4>2. start[TargetOf(items[j].ref)] = sums[TargetOf(items[j].ref) - 1]
        BY <2>1, <4>1
      <4> QED
        BY <1>1, <1>5, <3>2, <4>2 DEF CodeOf
    <3> QED
      BY <3>1, <3>2
  <2> HIDE DEF code
  <2>4. DOMAIN sketch.items = 1 .. n
    BY <1>1, <1>2
  <2>5. [i \in 1 .. n |-> code(i)] = CodeRows(fs)
    BY <2>3, <2>4 DEF CodeRows
  <2> QED
    BY <2>2, <2>5
<1>11. PICK P, S : P = Instantiate(sketch, fs) /\ S = SizesOf(fs)
  OBVIOUS
<1>12. P \in Seq(Instruction) /\ Len(P) = SumOf(S) /\ \A j \in 1 .. n : \A k \in 1 .. S[j] : P[Sums(S)[j - 1] + k] = CodeOf(fs, j)[k]
  <2>1. /\ P \in Seq(Instruction) /\ Len(P) = SumOf(S)
        /\ \A j \in 1 .. n : \A k \in 1 .. Len(CodeRows(fs)[j]) : P[Sums(S)[j - 1] + k] = CodeRows(fs)[j][k]
    BY <1>8, <1>9, <1>10, <1>11 DEF Laid
  <2> QED
    BY <1>7, <1>8, <1>11, <2>1
<1> QED
  BY <1>1, <1>4, <1>11, <1>12 DEF Built
-----------------------------------------------------------------------------
(* A fill without a dead write.                                            *)

\* Where things stand when one part has one position less: k of part c.
Less(n, l, m, c, k, i) ==
  /\ n \in Nat /\ l \in [1 .. n -> Nat] /\ m \in [1 .. n -> Nat]
  /\ c \in 1 .. n /\ k \in Nat /\ 1 <= k /\ k < l[c]
  /\ m[c] = l[c] - 1 /\ \A j \in 1 .. n : j # c => m[j] = l[j]
  /\ i = Sums(l)[c - 1] + k - 1

PlacesShift(n, l, m, c, k, i) ==
  /\ i \in Nat /\ i + 1 < SumOf(l) /\ SumOf(m) = SumOf(l) - 1 /\ SumOf(l) \in Nat
  /\ \A a \in 0 .. n : Sums(l)[a] # i + 1 /\ Shifted(Sums(l)[a], i) = Sums(m)[a]
  /\ \A j \in 1 .. n : \A q \in 1 .. l[j] : j # c =>
       q \in 1 .. m[j] /\ Shifted(Sums(l)[j - 1] + q - 1, i) + 1 = Sums(m)[j - 1] + q
  /\ \A q \in 1 .. l[c] : /\ q < k => q \in 1 .. m[c] /\ Shifted(Sums(l)[c - 1] + q - 1, i) + 1 = Sums(m)[c - 1] + q
                          /\ q > k => q - 1 \in 1 .. m[c] /\ Shifted(Sums(l)[c - 1] + q - 1, i) + 1 = Sums(m)[c - 1] + (q - 1)
                          /\ q = k => Sums(l)[c - 1] + q - 1 = i

LEMMA PlacesAre ==
  ASSUME NEW n, NEW l, NEW m, NEW c, NEW k, NEW i, Less(n, l, m, c, k, i)
  PROVE  PlacesShift(n, l, m, c, k, i)
<1>1. /\ n \in Nat /\ l \in [1 .. n -> Nat] /\ m \in [1 .. n -> Nat] /\ c \in 1 .. n /\ k \in Nat /\ 1 <= k /\ k < l[c]
      /\ m[c] = l[c] - 1 /\ \A j \in 1 .. n : j # c => m[j] = l[j]
  BY DEF Less
<1>2. PICK s, r : s = Sums(l) /\ r = Sums(m)
  OBVIOUS
<1>3. i = s[c - 1] + k - 1
  BY <1>2 DEF Less
<1>4. /\ s \in [0 .. n -> Nat] /\ \A a, b \in 0 .. n : a <= b => s[a] <= s[b]
      /\ r \in [0 .. n -> Nat] /\ SumOf(l) \in Nat
  BY <1>1, <1>2, SumsGrow
<1>5. \A j \in 1 .. n : s[j] = s[j - 1] + l[j] /\ SumOf(l) = s[n]
  <2>1. l \in [1 .. n -> Int]
    BY <1>1
  <2> QED
    BY <1>1, <1>2, <2>1, SumsAre
<1>6. (\A a \in 0 .. n : r[a] = IF a < c THEN s[a] ELSE s[a] - 1) /\ SumOf(m) = SumOf(l) - 1
  <2>1. l \in [1 .. n -> Int] /\ m \in [1 .. n -> Int] /\ m[c] = l[c] + (-1) /\ -1 \in Int
    BY <1>1
  <2>2. (\A a \in 0 .. n : Sums(m)[a] = IF a < c THEN Sums(l)[a] ELSE Sums(l)[a] + (-1)) /\ SumOf(m) = SumOf(l) + (-1)
    <3>1. n \in Nat /\ c \in 1 .. n /\ \A g \in 1 .. n : g # c => m[g] = l[g]
      BY <1>1
    <3> QED
      BY <2>1, <3>1, SumsWithout
  <2> QED
    BY <1>2, <1>4, <2>2
<1>7. c \in 0 .. n /\ c - 1 \in 0 .. n /\ s[c] = s[c - 1] + l[c] /\ s[c - 1] \in Nat /\ s[c] \in Nat /\ l[c] \in Nat
  BY <1>1, <1>4, <1>5
<1>8. i \in Nat /\ s[c - 1] <= i /\ i + 2 <= s[c]
  <2>1. PICK a, b, d : a = s[c - 1] /\ b = s[c] /\ d = l[c]
    OBVIOUS
  <2>2. a \in Nat /\ d \in Nat /\ b = a + d /\ k \in Nat /\ 1 <= k /\ k < d /\ i = a + k - 1
    BY <1>1, <1>3, <1>7, <2>1
  <2>3. i \in Nat /\ a <= i /\ i + 2 <= b
    BY <2>2
  <2> QED
    BY <2>1, <2>3
<1>9. i + 1 < SumOf(l)
  <2>1. s[c] <= s[n] /\ s[n] = SumOf(l)
    BY <1>1, <1>4, <1>5, <1>7
  <2> QED
    BY <1>4, <1>7, <1>8, <2>1
<1>10. ASSUME NEW a \in 0 .. n PROVE s[a] # i + 1 /\ Shifted(s[a], i) = r[a]
  <2>1. s[a] \in Nat /\ a \in Nat
    BY <1>4
  <2>2. CASE a < c
    <3>1. s[a] <= s[c - 1]
      BY <1>1, <1>4, <1>7, <2>1, <2>2
    <3> QED
      BY <1>6, <1>7, <1>8, <2>1, <2>2, <3>1 DEF Shifted
  <2>3. CASE ~(a < c)
    <3>1. s[c] <= s[a]
      BY <1>1, <1>4, <1>7, <2>1, <2>3
    <3> QED
      BY <1>6, <1>7, <1>8, <2>1, <2>3, <3>1 DEF Shifted
  <2> QED
    BY <2>2, <2>3
<1>11. ASSUME NEW j \in 1 .. n, NEW q \in 1 .. l[j], j # c
       PROVE  q \in 1 .. m[j] /\ Shifted(s[j - 1] + q - 1, i) + 1 = r[j - 1] + q
  <2>1. j - 1 \in 0 .. n /\ j \in 0 .. n /\ s[j - 1] \in Nat /\ s[j] \in Nat /\ s[j] = s[j - 1] + l[j] /\ l[j] \in Nat /\ m[j] = l[j]
    BY <1>1, <1>4, <1>5, <1>11
  <2>2. CASE j < c
    <3>1. s[j] <= s[c - 1] /\ r[j - 1] = s[j - 1]
      BY <1>1, <1>4, <1>6, <1>7, <2>1, <2>2
    <3>2. s[j - 1] + q - 1 <= i
      BY <1>7, <1>8, <2>1, <3>1
    <3> QED
      BY <2>1, <3>1, <3>2 DEF Shifted
  <2>3. CASE ~(j < c)
    <3>1. s[c] <= s[j - 1] /\ r[j - 1] = s[j - 1] - 1
      BY <1>1, <1>4, <1>6, <1>7, <1>11, <2>1, <2>3
    <3>2. ~(s[j - 1] + q - 1 <= i)
      BY <1>7, <1>8, <2>1, <3>1
    <3> QED
      BY <2>1, <3>1, <3>2 DEF Shifted
  <2> QED
    BY <2>2, <2>3
<1>12. ASSUME NEW q \in 1 .. l[c] PROVE r[c - 1] = s[c - 1] /\ q \in Nat
  BY <1>1, <1>6, <1>7
<1>13. ASSUME NEW q \in 1 .. l[c], q < k
       PROVE  q \in 1 .. m[c] /\ Shifted(s[c - 1] + q - 1, i) + 1 = r[c - 1] + q
  <2>1. q \in Nat /\ 1 <= q /\ r[c - 1] = s[c - 1] /\ s[c - 1] \in Nat /\ k \in Nat /\ l[c] \in Nat /\ k < l[c] /\ m[c] = l[c] - 1
    BY <1>1, <1>7, <1>12
  <2>2. s[c - 1] + q - 1 <= i /\ q \in 1 .. m[c]
    BY <1>3, <1>13, <2>1
  <2> QED
    BY <2>1, <2>2 DEF Shifted
<1>14. ASSUME NEW q \in 1 .. l[c], q > k
       PROVE  q - 1 \in 1 .. m[c] /\ Shifted(s[c - 1] + q - 1, i) + 1 = r[c - 1] + (q - 1)
  <2>1. q \in Nat /\ q <= l[c] /\ r[c - 1] = s[c - 1] /\ s[c - 1] \in Nat /\ k \in Nat /\ 1 <= k /\ l[c] \in Nat /\ m[c] = l[c] - 1
    BY <1>1, <1>7, <1>12
  <2>2. ~(s[c - 1] + q - 1 <= i) /\ q - 1 \in 1 .. m[c]
    BY <1>3, <1>14, <2>1
  <2> QED
    BY <2>1, <2>2 DEF Shifted
<1>15. ASSUME NEW q \in 1 .. l[c], q = k PROVE s[c - 1] + q - 1 = i
  BY <1>1, <1>3, <1>15
<1> QED
  BY <1>2, <1>4, <1>6, <1>8, <1>9, <1>10, <1>11, <1>13, <1>14, <1>15 DEF PlacesShift

\* A fill without instruction k of hole h.
Without(fs, h, k) ==
  [g \in DOMAIN fs |-> IF g = h THEN [j \in 1 .. Len(fs[h]) - 1 |-> IF j < k THEN fs[h][j] ELSE fs[h][j + 1]] ELSE fs[g]]

\* What a fill has in a hole.
LEMMA FillFacts ==
  ASSUME Ready, NEW fs \in AllFills
  PROVE  /\ HoleCount \in Nat /\ DOMAIN fs = 1 .. HoleCount
         /\ \A h \in 1 .. HoleCount : /\ Len(fs[h]) \in Nat /\ MaxOf(h) \in Nat /\ Len(fs[h]) <= MaxOf(h)
                                      /\ fs[h] \in [1 .. Len(fs[h]) -> ToSet(AlphabetOf(h))]
                                      /\ \A k \in 1 .. Len(fs[h]) : fs[h][k] \in Fillers
<1>1. fs = [h \in 1 .. HoleCount |-> fs[h]]
  BY AllFillsAre
<1>2. ASSUME NEW h \in 1 .. HoleCount
      PROVE  /\ Len(fs[h]) \in Nat /\ MaxOf(h) \in Nat /\ Len(fs[h]) <= MaxOf(h)
             /\ fs[h] \in [1 .. Len(fs[h]) -> ToSet(AlphabetOf(h))]
             /\ \A k \in 1 .. Len(fs[h]) : fs[h][k] \in Fillers
  <2>1. PICK m \in 0 .. MaxOf(h) : fs[h] \in [1 .. m -> ToSet(AlphabetOf(h))]
    BY AllFillsAre
  <2>2. MaxOf(h) \in Nat /\ AlphabetOf(h) \in Seq(Fillers) /\ m \in Nat
    BY DEF Ready
  <2>3. ToSet(AlphabetOf(h)) \subseteq Fillers
    BY <2>2, LenProperties, ElementOfSeq DEF ToSet
  <2>4. Len(fs[h]) = m
    BY <2>1, <2>2, SeqIs
  <2> QED
    BY <2>1, <2>2, <2>3, <2>4
<1> QED
  BY <1>1, <1>2 DEF Ready

LEMMA WithoutIsFill ==
  ASSUME Ready, NEW fs \in AllFills, NEW h \in 1 .. HoleCount, NEW k \in 1 .. Len(fs[h])
  PROVE  /\ Without(fs, h, k) \in AllFills
         /\ LengthOf(Without(fs, h, k)) = LengthOf(fs) - 1 /\ LengthOf(fs) \in Nat
         /\ \A g \in 1 .. HoleCount : g # h => Without(fs, h, k)[g] = fs[g]
         /\ Len(Without(fs, h, k)[h]) = Len(fs[h]) - 1
         /\ \A j \in 1 .. Len(fs[h]) - 1 : Without(fs, h, k)[h][j] = IF j < k THEN fs[h][j] ELSE fs[h][j + 1]
<1>1. PICK c, gs, n, A : c = HoleCount /\ gs = Without(fs, h, k) /\ n = Len(fs[h]) /\ A = ToSet(AlphabetOf(h))
  OBVIOUS
<1>2. /\ c \in Nat /\ DOMAIN fs = 1 .. c /\ h \in 1 .. c /\ n \in Nat /\ k \in 1 .. n /\ n <= MaxOf(h) /\ MaxOf(h) \in Nat
      /\ fs[h] \in [1 .. n -> A]
  BY <1>1, FillFacts
<1>3. gs = [g \in 1 .. c |-> IF g = h THEN [j \in 1 .. n - 1 |-> IF j < k THEN fs[h][j] ELSE fs[h][j + 1]] ELSE fs[g]]
  BY <1>1, <1>2 DEF Without
<1>4. /\ gs[h] = [j \in 1 .. n - 1 |-> IF j < k THEN fs[h][j] ELSE fs[h][j + 1]] /\ n - 1 \in Nat
      /\ \A g \in 1 .. c : g # h => gs[g] = fs[g]
      /\ gs = [g \in 1 .. c |-> gs[g]]
  BY <1>2, <1>3
<1>5. gs[h] \in [1 .. n - 1 -> A] /\ n - 1 \in 0 .. MaxOf(h)
  <2>1. ASSUME NEW j \in 1 .. n - 1 PROVE (IF j < k THEN fs[h][j] ELSE fs[h][j + 1]) \in A
    <3>1. j \in 1 .. n /\ j + 1 \in 1 .. n
      BY <1>2
    <3> QED
      BY <1>2, <3>1
  <2> QED
    BY <1>2, <1>4, <2>1
<1>6. Len(gs[h]) = n - 1
  BY <1>4, <1>5, SeqIs
<1>7. gs \in AllFills
  <2>1. ASSUME NEW g \in 1 .. c PROVE \E m \in 0 .. MaxOf(g) : gs[g] \in [1 .. m -> ToSet(AlphabetOf(g))]
    <3>1. CASE g = h
      BY <1>1, <1>5, <3>1
    <3>2. CASE g # h
      BY <1>1, <1>4, <3>2, AllFillsAre
    <3> QED
      BY <3>1, <3>2
  <2> QED
    BY <1>1, <1>4, <2>1, AllFillsAre
<1>8. LengthOf(gs) = LengthOf(fs) - 1 /\ LengthOf(fs) \in Nat
  <2> DEFINE l == [g \in 1 .. c |-> Len(fs[g])]
             m == [g \in 1 .. c |-> Len(gs[g])]
  <2>1. l \in [1 .. c -> Nat] /\ \A g \in 1 .. c : l[g] = Len(fs[g])
    BY <1>1, FillFacts
  <2>2. m \in [1 .. c -> Int] /\ m[h] = l[h] + (-1) /\ \A g \in 1 .. c : g # h => m[g] = l[g]
    <3>1. \A g \in 1 .. c : Len(gs[g]) \in Int
      BY <1>2, <1>4, <1>6, <2>1
    <3> QED
      BY <1>1, <1>2, <1>4, <1>6, <3>1
  <2>3. LengthOf(fs) = SumOf(l) /\ LengthOf(gs) = SumOf(m)
    BY <1>2, <1>4 DEF LengthOf
  <2> HIDE DEF l, m
  <2>4. SumOf(m) = SumOf(l) + (-1)
    <3>1. l \in [1 .. c -> Int] /\ -1 \in Int
      BY <2>1
    <3> QED
      BY <1>2, <2>2, <3>1, SumsWithout
  <2>5. SumOf(l) \in Nat
    BY <1>2, <2>1, SumsGrow
  <2> QED
    BY <2>3, <2>4, <2>5
<1>9. \A j \in 1 .. n - 1 : gs[h][j] = IF j < k THEN fs[h][j] ELSE fs[h][j + 1]
  BY <1>4
<1> QED
  BY <1>1, <1>4, <1>6, <1>7, <1>8, <1>9
-----------------------------------------------------------------------------
(* A program without a dead write.                                         *)

\* Lines that jump to labels, have no other use for a label, and make no calls.
JumpToLabels(lines) ==
  \A line \in ToSet(lines) : line.kind = "ins" =>
    line.ins.op \notin {"call", "ret"} /\ (line.ins.op \in Branching <=> line.ref # NoRef)

\* What becomes of the instruction at q of item j.
Moves(fs, gs, c, k, i, j, q) ==
  LET x == Sums(SizesOf(fs))[j - 1] + q - 1
      p == CodeOf(fs, j)[q]
  IN /\ p.op \notin {"call", "ret"}
     /\ p.op \in Branching => p.imm \in 0 .. SumOf(SizesOf(fs)) /\ p.imm # i + 1
     /\ ~(j = c /\ q = k) =>
          \E r \in 1 .. SizesOf(gs)[j] : /\ Shifted(x, i) + 1 = Sums(SizesOf(gs))[j - 1] + r
                                         /\ CodeOf(gs, j)[r] = Follow(p, i)

\* Parts begin at numbers.
LEMMA PartsBegin ==
  ASSUME NEW n \in Nat, NEW l \in [1 .. n -> Nat], NEW c \in 1 .. n
  PROVE  Sums(l)[c - 1] \in Nat
<1>1. Sums(l) \in [0 .. n -> Nat] /\ c - 1 \in 0 .. n
  BY SumsGrow
<1> QED
  BY <1>1

\* Every index is a place of some part.
LEMMA PlaceOf ==
  ASSUME NEW n \in Nat, NEW l \in [1 .. n -> Nat], NEW x \in Nat, x < SumOf(l)
  PROVE  \E j \in 1 .. n : \E q \in 1 .. l[j] : x + 1 = Sums(l)[j - 1] + q /\ x = Sums(l)[j - 1] + q - 1
<1>1. PICK m, f : m = SumOf(l) /\ f = Sums(l)
  OBVIOUS
<1>2. f \in [0 .. n -> Nat] /\ m \in Nat
  BY <1>1, SumsGrow
<1>3. x + 1 \in 1 .. m
  BY <1>1, <1>2
<1>4. \A p \in 1 .. m : \E h \in 1 .. n : \E k \in 1 .. l[h] : p = f[h - 1] + k
  <2>1. \A p \in 1 .. m : \E h \in 1 .. n : \E k \in 1 .. l[h] : p = Sums(l)[h - 1] + k
    <3>1. m = SumOf(l) /\ n \in Nat /\ l \in [1 .. n -> Nat]
      BY <1>1
    <3> QED
      BY <3>1, PartsTile
  <2> QED
    BY <1>1, <2>1, Zenon
<1>5. PICK h \in 1 .. n : \E k \in 1 .. l[h] : x + 1 = f[h - 1] + k
  BY <1>3, <1>4
<1>6. PICK k \in 1 .. l[h] : x + 1 = f[h - 1] + k
  BY <1>5
<1>7. f[h - 1] \in Nat /\ k \in Nat
  <2>1. h - 1 \in 0 .. n /\ l[h] \in Nat
    OBVIOUS
  <2> QED
    BY <1>2, <2>1
<1>8. x = f[h - 1] + k - 1
  <2>1. PICK y : y = f[h - 1]
    OBVIOUS
  <2>2. y \in Nat /\ x + 1 = y + k /\ k \in Nat
    BY <1>6, <1>7, <2>1
  <2>3. x = y + k - 1
    BY <2>2
  <2> QED
    BY <2>1, <2>3
<1> QED
  BY <1>1, <1>6, <1>8

LEMMA FilledMove ==
  ASSUME Items, NEW fs \in AllFills, NEW h \in 1 .. HoleCount, NEW k \in 1 .. Len(fs[h]) - 1,
         NEW gs, gs = Without(fs, h, k),
         NEW c \in 1 .. Len(sketch.items), IsHole(sketch.items[c]), HoleAt(sketch, c) = h, NEW i,
         PlacesShift(Len(sketch.items), SizesOf(fs), SizesOf(gs), c, k, i),
         NEW j \in 1 .. Len(sketch.items), IsHole(sketch.items[j]), NEW q \in 1 .. SizesOf(fs)[j]
  PROVE  Moves(fs, gs, c, k, i, j, q)
<1>1. PICK n, g, S, T : n = Len(sketch.items) /\ g = HoleAt(sketch, j) /\ S = SizesOf(fs) /\ T = SizesOf(gs)
  OBVIOUS
<1>2. Ready /\ n \in Nat /\ DOMAIN sketch.items = 1 .. n /\ g \in 1 .. HoleCount /\ (g = h => j = c)
  BY <1>1 DEF Items
<1>3. S[j] = Len(fs[g]) /\ S[j] \in Nat /\ q \in 1 .. S[j] /\ q \in Nat
  <2>1. S[j] = Len(fs[g]) /\ q \in 1 .. S[j]
    BY <1>1, <1>2 DEF SizesOf
  <2> QED
    BY <1>2, <2>1, FillFacts
<1>4. k \in 1 .. Len(fs[h]) /\ k \in Nat /\ Len(fs[h]) \in Nat
  <2>1. Len(fs[h]) \in Nat
    BY <1>2, FillFacts
  <2> QED
    BY <2>1
<1>5. CodeOf(fs, j) = fs[g] /\ CodeOf(gs, j) = gs[g]
  BY <1>1 DEF CodeOf
<1>6. PICK p : p = fs[g][q]
  OBVIOUS
<1>7. p \in Fillers
  BY <1>2, <1>3, <1>6, FillFacts
<1>8. p.op \notin {"call", "ret"} /\ p.op \notin Branching /\ Follow(p, i) = p
  BY <1>7 DEF Fillers, IsControl, Branching, Follow
<1>9. PICK x : x = Sums(S)[j - 1] + q - 1
  OBVIOUS
<1>10. ASSUME j # c PROVE q \in 1 .. T[j] /\ Shifted(x, i) + 1 = Sums(T)[j - 1] + q /\ gs[g][q] = p
  <2>1. q \in 1 .. T[j] /\ Shifted(x, i) + 1 = Sums(T)[j - 1] + q
    BY <1>1, <1>3, <1>9, <1>10 DEF PlacesShift
  <2>2. gs[g] = fs[g]
    BY <1>2, <1>4, <1>10, WithoutIsFill
  <2> QED
    BY <1>6, <2>1, <2>2
<1>11. ASSUME j = c, q # k
       PROVE  \E r \in 1 .. T[j] : Shifted(x, i) + 1 = Sums(T)[j - 1] + r /\ gs[g][r] = p
  <2>1. g = h /\ q \in 1 .. S[c] /\ x = Sums(S)[c - 1] + q - 1
    BY <1>1, <1>3, <1>9, <1>11
  <2>2. \A m \in 1 .. Len(fs[h]) - 1 : gs[h][m] = IF m < k THEN fs[h][m] ELSE fs[h][m + 1]
    <3>1. \A m \in 1 .. Len(fs[h]) - 1 : Without(fs, h, k)[h][m] = IF m < k THEN fs[h][m] ELSE fs[h][m + 1]
      <4>1. k \in 1 .. Len(fs[h]) /\ Ready
        BY <1>2, <1>4
      <4> QED
        BY <4>1, WithoutIsFill
    <3> QED
      BY <3>1
  <2>3. CASE q < k
    <3>1. q \in 1 .. T[c] /\ Shifted(x, i) + 1 = Sums(T)[c - 1] + q
      BY <1>1, <2>1, <2>3 DEF PlacesShift
    <3>2. q \in 1 .. Len(fs[h]) - 1
      BY <1>3, <1>4, <2>3
    <3>3. gs[h][q] = fs[h][q]
      BY <2>2, <2>3, <3>2
    <3> QED
      BY <1>6, <1>11, <2>1, <3>1, <3>3
  <2>4. CASE q > k
    <3>1. q - 1 \in 1 .. T[c] /\ Shifted(x, i) + 1 = Sums(T)[c - 1] + (q - 1)
      BY <1>1, <2>1, <2>4 DEF PlacesShift
    <3>2. q - 1 \in 1 .. Len(fs[h]) - 1 /\ ~(q - 1 < k) /\ (q - 1) + 1 = q
      <4>1. q \in Nat /\ k \in Nat /\ 1 <= k /\ Len(fs[h]) \in Nat /\ q <= Len(fs[h])
        BY <1>3, <1>4, <2>1
      <4> QED
        BY <2>4, <4>1
    <3>3. gs[h][q - 1] = fs[h][q]
      BY <2>2, <3>2
    <3> QED
      BY <1>6, <1>11, <2>1, <3>1, <3>3
  <2> QED
    BY <1>3, <1>4, <1>11, <2>3, <2>4
<1>12. ~(j = c /\ q = k) => \E r \in 1 .. T[j] : Shifted(x, i) + 1 = Sums(T)[j - 1] + r /\ gs[g][r] = p
  BY <1>10, <1>11
<1> QED
  BY <1>1, <1>5, <1>6, <1>8, <1>9, <1>12 DEF Moves

LEMMA WrittenMove ==
  ASSUME Items, JumpToLabels(prob.lines), NEW fs \in AllFills, NEW gs, NEW c, NEW k, NEW i,
         SizesOf(fs) \in [1 .. Len(sketch.items) -> Nat],
         PlacesShift(Len(sketch.items), SizesOf(fs), SizesOf(gs), c, k, i),
         NEW j \in 1 .. Len(sketch.items), ~IsHole(sketch.items[j]), j # c, NEW q \in 1 .. SizesOf(fs)[j]
  PROVE  Moves(fs, gs, c, k, i, j, q)
<1>1. PICK n, item, S, T : n = Len(sketch.items) /\ item = sketch.items[j] /\ S = SizesOf(fs) /\ T = SizesOf(gs)
  OBVIOUS
<1>2. /\ n \in Nat /\ DOMAIN sketch.items = 1 .. n /\ item \in ToSet(prob.lines) /\ item.kind = "ins" /\ item.ins \in Instruction
      /\ item.ref # NoRef => TargetOf(item.ref) \in 1 .. n + 1
  BY <1>1 DEF Items
<1>3. S[j] = 1 /\ T[j] = 1 /\ q = 1
  BY <1>1, <1>2 DEF SizesOf
<1>4. item.ins.op \notin {"call", "ret"} /\ (item.ins.op \in Branching <=> item.ref # NoRef)
  BY <1>2 DEF JumpToLabels
<1>5. 1 \in 1 .. T[j] /\ Shifted(Sums(S)[j - 1] + 1 - 1, i) + 1 = Sums(T)[j - 1] + 1
  BY <1>1, <1>3 DEF PlacesShift
<1>6. CASE item.ref = NoRef
  <2>1. CodeOf(fs, j) = <<item.ins>> /\ CodeOf(gs, j) = <<item.ins>>
    BY <1>1, <1>6 DEF CodeOf
  <2>2. Follow(item.ins, i) = item.ins
    BY <1>4, <1>6 DEF Follow
  <2> QED
    BY <1>1, <1>3, <1>4, <1>5, <1>6, <2>1, <2>2 DEF Moves
<1>7. CASE item.ref # NoRef
  <2>1. PICK a, x, y : a = TargetOf(item.ref) - 1 /\ x = Sums(S)[a] /\ y = Sums(T)[a]
    OBVIOUS
  <2>2. a \in 0 .. n
    BY <1>2, <1>7, <2>1
  <2>3. x # i + 1 /\ Shifted(x, i) = y
    BY <1>1, <2>1, <2>2 DEF PlacesShift
  <2>4. x \in 0 .. SumOf(S)
    <3>1. S \in [1 .. n -> Nat] /\ n \in 0 .. n
      BY <1>1, <1>2
    <3>2. Sums(S) \in [0 .. n -> Nat] /\ SumOf(S) \in Nat /\ \A b, d \in 0 .. n : b <= d => Sums(S)[b] <= Sums(S)[d]
      BY <1>2, <3>1, SumsGrow
    <3>3. SumOf(S) = Sums(S)[n]
      <4>1. S \in [1 .. n -> Int]
        BY <3>1
      <4> QED
        BY <1>2, <4>1, SumsAre
    <3>4. x <= Sums(S)[n] /\ x \in Nat
      BY <2>1, <2>2, <3>1, <3>2
    <3> QED
      BY <3>2, <3>3, <3>4
  <2>5. CodeOf(fs, j) = <<[item.ins EXCEPT !.imm = x]>> /\ CodeOf(gs, j) = <<[item.ins EXCEPT !.imm = y]>>
    BY <1>1, <1>2, <1>7, <2>1 DEF CodeOf, IsHole
  <2>6. PICK p : p = [item.ins EXCEPT !.imm = x]
    OBVIOUS
  <2>7. p.op = item.ins.op /\ p.imm = x /\ [p EXCEPT !.imm = y] = [item.ins EXCEPT !.imm = y]
    BY <1>2, <2>6 DEF Instruction
  <2>8. Follow(p, i) = [item.ins EXCEPT !.imm = y]
    BY <1>4, <1>7, <2>3, <2>7 DEF Follow
  <2>9. CodeOf(fs, j)[q] = p /\ CodeOf(gs, j)[1] = Follow(p, i)
    BY <1>3, <2>5, <2>6, <2>8
  <2> QED
    BY <1>1, <1>3, <1>4, <1>5, <2>3, <2>4, <2>7, <2>9 DEF Moves
<1> QED
  BY <1>6, <1>7

\* Of a fill with a dead write the one without it is the shorter program.
LEMMA FillIsShorter ==
  ASSUME Items, JumpToLabels(prob.lines), NEW fs \in AllFills, NEW h \in 1 .. HoleCount, NEW k \in 1 .. Len(fs[h]) - 1,
         DeadWritePair(fs[h][k], fs[h][k + 1]), Len(Instantiate(sketch, fs)) < IndexSize
  PROVE  \E i : Shorter(Instantiate(sketch, fs), Instantiate(sketch, Without(fs, h, k)), i)
<1>1. PICK n, S, T, P, Q, gs : /\ gs = Without(fs, h, k) /\ n = Len(sketch.items) /\ S = SizesOf(fs) /\ T = SizesOf(gs)
                               /\ P = Instantiate(sketch, fs) /\ Q = Instantiate(sketch, gs)
  OBVIOUS
<1>2. Ready /\ n \in Nat /\ DOMAIN sketch.items = 1 .. n
  BY <1>1 DEF Items
<1>3. k \in 1 .. Len(fs[h]) /\ k \in Nat /\ 1 <= k /\ k < Len(fs[h]) /\ Len(fs[h]) \in Nat
  <2>1. Len(fs[h]) \in Nat
    BY <1>2, FillFacts
  <2> QED
    BY <2>1
<1>4. /\ gs \in AllFills /\ Len(gs[h]) = Len(fs[h]) - 1
      /\ \A g \in 1 .. HoleCount : g # h => gs[g] = fs[g]
  BY <1>1, <1>2, <1>3, WithoutIsFill
<1>5. PICK c \in 1 .. n : IsHole(sketch.items[c]) /\ HoleAt(sketch, c) = h
  BY <1>1 DEF Items
<1>6. PICK i : i = Sums(S)[c - 1] + k - 1
  OBVIOUS
<1>7. Built(fs, P) /\ Built(gs, Q)
  BY <1>1, <1>4, CodeIs
<1>8. S \in [1 .. n -> Nat] /\ T \in [1 .. n -> Nat]
  BY <1>1, <1>7 DEF Built
<1>9. Less(n, S, T, c, k, i)
  <2>1. S[c] = Len(fs[h]) /\ T[c] = Len(gs[h])
    BY <1>1, <1>2, <1>5 DEF SizesOf
  <2>2. ASSUME NEW j \in 1 .. n, j # c PROVE T[j] = S[j]
    <3>1. CASE IsHole(sketch.items[j])
      <4>1. HoleAt(sketch, j) \in 1 .. HoleCount /\ HoleAt(sketch, j) # h
        BY <1>1, <1>5, <2>2, <3>1 DEF Items
      <4> QED
        BY <1>1, <1>2, <1>4, <4>1 DEF SizesOf
    <3>2. CASE ~IsHole(sketch.items[j])
      BY <1>1, <1>2, <3>2 DEF SizesOf
    <3> QED
      BY <3>1, <3>2
  <2> QED
    BY <1>2, <1>3, <1>4, <1>5, <1>6, <1>8, <2>1, <2>2 DEF Less
<1>10. PlacesShift(n, S, T, c, k, i)
  BY <1>9, PlacesAre
<1>11. ASSUME NEW j \in 1 .. n, NEW q \in 1 .. S[j] PROVE Moves(fs, gs, c, k, i, j, q)
  <2>1. CASE IsHole(sketch.items[j])
    BY <1>1, <1>5, <1>10, <2>1, FilledMove
  <2>2. CASE ~IsHole(sketch.items[j])
    BY <1>1, <1>5, <1>8, <1>10, <2>2, WrittenMove
  <2> QED
    BY <2>1, <2>2
<1>12. /\ P \in Seq(Instruction) /\ Len(P) = SumOf(S) /\ Q \in Seq(Instruction) /\ Len(Q) = SumOf(T)
       /\ \A j \in 1 .. n : \A q \in 1 .. S[j] : P[Sums(S)[j - 1] + q] = CodeOf(fs, j)[q]
       /\ \A j \in 1 .. n : \A q \in 1 .. T[j] : Q[Sums(T)[j - 1] + q] = CodeOf(gs, j)[q]
  BY <1>1, <1>7 DEF Built
<1>13. i \in Nat /\ i + 1 < Len(P) /\ Len(Q) = Len(P) - 1 /\ SumOf(S) \in Nat
  BY <1>10, <1>12 DEF PlacesShift
<1>14. ASSUME NEW x \in 0 .. Len(P) - 1
       PROVE  /\ x # i => Q[Shifted(x, i) + 1] = Follow(P[x + 1], i)
              /\ P[x + 1].op \notin {"call", "ret"}
              /\ P[x + 1].op \in Branching => P[x + 1].imm \in 0 .. Len(P) /\ P[x + 1].imm # i + 1
  <2>1. x \in Nat /\ x < SumOf(S)
    BY <1>12, <1>13
  <2>2. \E j \in 1 .. n : \E q \in 1 .. S[j] : x + 1 = Sums(S)[j - 1] + q /\ x = Sums(S)[j - 1] + q - 1
    BY <1>2, <1>8, <2>1, PlaceOf
  <2>3. PICK j \in 1 .. n : \E q \in 1 .. S[j] : x + 1 = Sums(S)[j - 1] + q /\ x = Sums(S)[j - 1] + q - 1
    BY <2>2
  <2>4. PICK q \in 1 .. S[j] : x + 1 = Sums(S)[j - 1] + q /\ x = Sums(S)[j - 1] + q - 1
    BY <2>3
  <2>5. PICK p : p = CodeOf(fs, j)[q]
    OBVIOUS
  <2>6. P[x + 1] = p
    <3>1. P[Sums(S)[j - 1] + q] = CodeOf(fs, j)[q]
      BY <1>12
    <3> QED
      BY <2>4, <2>5, <3>1
  <2>7. /\ p.op \notin {"call", "ret"}
        /\ p.op \in Branching => p.imm \in 0 .. SumOf(S) /\ p.imm # i + 1
        /\ ~(j = c /\ q = k) => \E r \in 1 .. T[j] : Shifted(x, i) + 1 = Sums(T)[j - 1] + r /\ CodeOf(gs, j)[r] = Follow(p, i)
    <3>1. Moves(fs, gs, c, k, i, j, q)
      BY <1>11
    <3>2. SizesOf(fs) = S /\ SizesOf(gs) = T
      BY <1>1
    <3>3. Shifted(Sums(S)[j - 1] + q - 1, i) = Shifted(x, i)
      BY <2>4
    <3> QED
      BY <2>5, <3>1, <3>2, <3>3 DEF Moves
  <2>8. ASSUME x # i PROVE Q[Shifted(x, i) + 1] = Follow(p, i)
    <3>1. ~(j = c /\ q = k)
      BY <1>6, <2>4, <2>8
    <3>2. PICK r \in 1 .. T[j] : Shifted(x, i) + 1 = Sums(T)[j - 1] + r /\ CodeOf(gs, j)[r] = Follow(p, i)
      BY <2>7, <3>1
    <3>3. Q[Sums(T)[j - 1] + r] = CodeOf(gs, j)[r]
      BY <1>12
    <3> QED
      BY <3>2, <3>3
  <2>9. Len(P) = SumOf(S)
    BY <1>12
  <2> QED
    BY <2>6, <2>7, <2>8, <2>9
<1>15. DeadWritePair(P[i + 1], P[i + 2])
  <2>1. CodeOf(fs, c) = fs[h] /\ S[c] = Len(fs[h])
    <3>1. CodeOf(fs, c) = fs[h]
      BY <1>5 DEF CodeOf
    <3>2. SizesOf(fs)[c] = Len(fs[h])
      BY <1>2, <1>5 DEF SizesOf
    <3> QED
      BY <1>1, <3>1, <3>2
  <2>2. PICK a : a = Sums(S)[c - 1]
    OBVIOUS
  <2>3. k \in 1 .. S[c] /\ k + 1 \in 1 .. S[c] /\ a \in Nat
    <3>1. a \in Nat
      BY <1>2, <1>8, <2>2, PartsBegin
    <3> QED
      BY <1>3, <2>1, <3>1
  <2>4. i + 1 = a + k /\ i + 2 = a + (k + 1)
    <3>1. i = a + k - 1 /\ k \in Nat
      BY <1>3, <1>6, <2>2
    <3> QED
      BY <2>3, <3>1
  <2>5. P[Sums(S)[c - 1] + k] = fs[h][k]
    BY <1>12, <2>1, <2>3
  <2>6. P[Sums(S)[c - 1] + (k + 1)] = fs[h][k + 1]
    BY <1>12, <2>1, <2>3
  <2> QED
    BY <2>2, <2>4, <2>5, <2>6
<1>16. Len(P) < IndexSize
  BY <1>1
<1>17. Shorter(P, Q, i)
  BY <1>12, <1>13, <1>14, <1>15, <1>16 DEF Shorter
<1> QED
  BY <1>1, <1>17
-----------------------------------------------------------------------------
(* Pruning loses nothing.                                                  *)

\* What the examples of a loop come from.
Known == ToSet(prob.examples) \cup ToSet(prob.edges) \cup prob.inputs

\* A goal that does not ask where a run has ended.
Blind(goal) == \A s \in State : \A x \in Index : GoalHolds(goal, At(s, x)) <=> GoalHolds(goal, s)

\* When a dead write may be left out: runs start at the first instruction, goals do not ask for pc,
\* jumps and only jumps have labels for operands, nothing is called, and no program is too long.
Shrinkable ==
  prob.prune =>
    /\ \A e \in Known : e.input.pc = 0 /\ Blind(e.goal)
    /\ JumpToLabels(prob.lines)
    /\ \A fs \in AllFills : Len(Instantiate(sketch, fs)) < IndexSize

KnownInv == drawn \in Nat /\ ToSet(ex) \subseteq Known

\* Every example comes from the problem or its generator.
LEMMA KnownInit == Init => KnownInv
BY DEF Init, KnownInv, Known

LEMMA KnownStep == LoopInv /\ KnownInv /\ [Next]_vars => KnownInv'
<1> SUFFICES ASSUME LoopInv, KnownInv, [Next]_vars PROVE KnownInv'
  OBVIOUS
<1>1. prob \in SketchProblems /\ ex \in Seq(ToSet(ex)) /\ drawn \in Nat /\ ToSet(ex) \subseteq Known
  BY DEF LoopInv, ExamplesInv, KnownInv
<1>2. UNCHANGED prob
  BY DEF Next, Search, SearchNext, PruneFill, GiveUp, Try, Throw, NoFill, StartProbe, ProbePasses, Counterexample,
         NoCounterexample, Validate, Record, vars, searchVars
<1>3. Known' = Known
  BY <1>2 DEF Known
<1>4. drawn' \in Nat
  BY <1>1 DEF Next, Search, Throw, NoFill, StartProbe, ProbePasses, Counterexample, NoCounterexample, Validate, Record,
              vars, loopVars
<1>5. CASE UNCHANGED ex
  BY <1>1, <1>3, <1>4, <1>5 DEF KnownInv
<1>6. CASE Counterexample
  <2>1. PICK e \in Drawn(drawn) : ex' = Append(ex, e)
    BY <1>6 DEF Counterexample
  <2>2. e \in Known
    <3>1. CASE drawn < Len(prob.edges)
      <4>1. prob.edges \in Seq(ToSet(prob.edges))
        BY <1>1, LoopAssumption
      <4>2. drawn + 1 \in DOMAIN prob.edges /\ e = prob.edges[drawn + 1]
        BY <1>1, <2>1, <3>1, <4>1, LenProperties DEF Drawn
      <4> QED
        BY <4>2 DEF Known, ToSet
    <3>2. CASE ~(drawn < Len(prob.edges))
      BY <2>1, <3>2 DEF Drawn, Known
    <3> QED
      BY <3>1, <3>2
  <2>3. ToSet(ex') \subseteq Known
    <3>1. ASSUME NEW i \in DOMAIN ex' PROVE ex'[i] \in Known
      <4>1. /\ Len(ex) \in Nat /\ DOMAIN ex = 1 .. Len(ex) /\ DOMAIN ex' = 1 .. Len(ex) + 1
            /\ \A j \in DOMAIN ex : ex'[j] = ex[j]
            /\ ex'[Len(ex) + 1] = e
        BY <1>1, <2>1, Joining
      <4>2. CASE i \in DOMAIN ex
        BY <1>1, <4>1, <4>2 DEF ToSet
      <4>3. CASE i = Len(ex) + 1
        BY <2>2, <4>1, <4>3
      <4> QED
        BY <4>1, <4>2, <4>3
    <3> QED
      BY <3>1 DEF ToSet
  <2> QED
    BY <1>3, <1>4, <2>3 DEF KnownInv
<1>7. UNCHANGED ex \/ Counterexample
  BY DEF Next, Search, Throw, NoFill, StartProbe, ProbePasses, NoCounterexample, Validate, Record, vars, loopVars
<1> QED
  BY <1>5, <1>6, <1>7

\* What a synthesizer is given runs from a state, and is known.
LEMMA ExamplesAreKnown ==
  ASSUME LoopInv, KnownInv, NEW i \in DOMAIN examples
  PROVE  examples[i] \in Known /\ examples[i].input \in State /\ prob.maxSteps \in Nat
<1>1. prob \in SketchProblems /\ ToSet(ex) \subseteq Known /\ examples \in Seq(ToSet(examples))
  BY DEF LoopInv, SynthesizerInv, KnownInv
<1>2. IsSketchProblem(prob)
  BY <1>1, SketchProblemsAssumption
<1>3. examples[i] \in ToSet(ex)
  <2>1. CASE ex = examples
    BY <2>1 DEF ToSet
  <2>2. CASE \E e \in ToSet(ex) : ex = Append(examples, e)
    <3>1. PICK e : ex = Append(examples, e)
      BY <2>2
    <3>2. /\ Len(examples) \in Nat /\ DOMAIN examples = 1 .. Len(examples) /\ DOMAIN ex = 1 .. Len(examples) + 1
          /\ ex[i] = examples[i]
      BY <1>1, <3>1, Joining
    <3>3. i \in DOMAIN ex
      BY <3>2
    <3> QED
      BY <3>2, <3>3 DEF ToSet
  <2> QED
    BY <2>1, <2>2 DEF LoopInv, ExamplesInv
<1>4. examples[i] \in Known
  BY <1>1, <1>3
<1>5. \A e \in Known : e.input \in State
  BY <1>1, <1>2, LoopAssumption DEF Known, IsSketchProblem
<1> QED
  BY <1>2, <1>4, <1>5 DEF IsSketchProblem

\* What passes every example is verified, and what is verified passes every example.
LEMMA VerifiedIsPassing ==
  ASSUME LoopInv, KnownInv, NEW program \in Seq(Instruction)
  PROVE  Verify(program) <=> \A i \in DOMAIN examples : Passes(examples[i], program)
<1>1. ASSUME NEW i \in DOMAIN examples
      PROVE  RunFor(examples[i].input, program, prob.maxSteps).halted \in Reason
  <2>1. examples[i].input \in State /\ prob.maxSteps \in Nat
    BY ExamplesAreKnown
  <2>2. RunFor(examples[i].input, program, prob.maxSteps) \in State
    BY <2>1, RunIsState
  <2> QED
    BY <2>2 DEF State
<1> QED
  BY <1>1 DEF Verify, Passes, Reason

\* Without a dead write a program does the same.
LEMMA ShorterIsVerified ==
  ASSUME LoopInv, KnownInv, Shrinkable, prob.prune, NEW p, NEW q, NEW i, Shorter(p, q, i), Verify(p)
  PROVE  Verify(q)
<1>1. SUFFICES ASSUME NEW j \in DOMAIN examples
               PROVE  /\ RunFor(examples[j].input, q, prob.maxSteps).halted \notin {"Fault", "Running"}
                      /\ GoalHolds(examples[j].goal, RunFor(examples[j].input, q, prob.maxSteps))
  BY DEF Verify
<1>2. PICK e, n, s : e = examples[j] /\ n = prob.maxSteps /\ s = RunFor(e.input, p, n)
  OBVIOUS
<1>3. e \in Known /\ e.input \in State /\ n \in Nat
  BY <1>2, ExamplesAreKnown
<1>4. s.halted \notin {"Fault", "Running"} /\ GoalHolds(e.goal, s)
  BY <1>2 DEF Verify
<1>5. e.input.pc = 0 /\ Blind(e.goal)
  BY <1>3 DEF Shrinkable
<1>6. PICK x \in Index : RunFor(e.input, q, n) = At(s, x)
  BY <1>2, <1>3, <1>4, <1>5, ShorterRuns
<1>7. s \in State
  <2>1. p \in Seq(Instruction)
    BY DEF Shorter
  <2> QED
    BY <1>2, <1>3, <2>1, RunIsState
<1>8. At(s, x).halted = s.halted /\ GoalHolds(e.goal, At(s, x))
  BY <1>4, <1>5, <1>7, AtFacts DEF Blind
<1> QED
  BY <1>2, <1>4, <1>6, <1>8

\* A fill with a dead write is not the only one of its length or less.
LEMMA DeadIsNotShortest ==
  ASSUME LoopInv, KnownInv, Items, Shrinkable, prob.prune, NEW fs \in AllFills, Dead(fs), Verify(Instantiate(sketch, fs))
  PROVE  \E gs \in AllFills : LengthOf(gs) = LengthOf(fs) - 1 /\ Verify(Instantiate(sketch, gs))
<1>1. Ready
  BY DEF Items
<1>2. DOMAIN fs = 1 .. HoleCount
  BY <1>1, FillFacts
<1>3. PICK h \in 1 .. HoleCount : \E k \in 1 .. Len(fs[h]) - 1 : DeadWritePair(fs[h][k], fs[h][k + 1])
  BY <1>2 DEF Dead
<1>4. PICK k \in 1 .. Len(fs[h]) - 1 : DeadWritePair(fs[h][k], fs[h][k + 1])
  BY <1>3
<1>5. k \in 1 .. Len(fs[h])
  <2>1. Len(fs[h]) \in Nat
    BY <1>1, FillFacts
  <2> QED
    BY <2>1
<1>6. Without(fs, h, k) \in AllFills /\ LengthOf(Without(fs, h, k)) = LengthOf(fs) - 1
  BY <1>1, <1>5, WithoutIsFill
<1>7. JumpToLabels(prob.lines) /\ Len(Instantiate(sketch, fs)) < IndexSize
  BY DEF Shrinkable
<1>8. PICK i : Shorter(Instantiate(sketch, fs), Instantiate(sketch, Without(fs, h, k)), i)
  BY <1>4, <1>7, FillIsShorter
<1>9. Verify(Instantiate(sketch, Without(fs, h, k)))
  BY <1>8, ShorterIsVerified
<1> QED
  BY <1>6, <1>9

\* If all settings that come before a length have been tried, no fill of a smaller length is verified.
LEMMA NoShorterFill ==
  ASSUME LoopInv, KnownInv, Items, Shrinkable, NEW bound,
         \A s \in AllSettings : SumOf(s[1]) < bound => Tried(s[1], s[2]), NEW fs \in AllFills, LengthOf(fs) < bound, bound \in Nat
  PROVE  ~Verify(Instantiate(sketch, fs))
<1> DEFINE good(n) == n < bound /\ \E gs \in AllFills : LengthOf(gs) = n /\ Verify(Instantiate(sketch, gs))
           S == {n \in Nat : good(n)}
<1>1. Ready
  BY DEF Items
<1>2. SUFFICES ASSUME Verify(Instantiate(sketch, fs)) PROVE FALSE
  OBVIOUS
<1>3. ASSUME NEW gs \in AllFills PROVE LengthOf(gs) \in Nat
  <2>1. PICK l \in Widths : \E d \in Settings(l) : FillsAt(l, d) = gs /\ LengthOf(gs) = SumOf(l)
    BY <1>1, FillIsShown
  <2>2. SumOf(l) \in Nat
    BY <1>1, <2>1, SizesAre
  <2> QED
    BY <2>1, <2>2
<1>4. LengthOf(fs) \in S
  BY <1>2, <1>3
<1>5. PICK n \in S : \A m \in S : n <= m
  <2>1. S \in SUBSET Nat /\ S # {}
    BY <1>4
  <2> HIDE DEF S
  <2> QED
    BY <2>1, LeastNumber
<1>6. n \in Nat /\ n < bound
  BY <1>5
<1>7. PICK gs \in AllFills : LengthOf(gs) = n /\ Verify(Instantiate(sketch, gs))
  BY <1>5
<1>8. PICK l \in Widths : \E d \in Settings(l) : FillsAt(l, d) = gs /\ LengthOf(gs) = SumOf(l)
  BY <1>1, <1>7, FillIsShown
<1>9. PICK d \in Settings(l) : FillsAt(l, d) = gs /\ LengthOf(gs) = SumOf(l)
  BY <1>8
<1>10. Tried(l, d)
  <2>1. PICK s : s = <<l, d>>
    OBVIOUS
  <2>2. s \in AllSettings /\ s[1] = l /\ s[2] = d
    BY <2>1, SettingsAre
  <2> QED
    BY <1>6, <1>7, <1>9, <2>2
<1>11. CASE \E i \in DOMAIN examples : ~Passes(examples[i], Instantiate(sketch, gs))
  <2>1. Instantiate(sketch, gs) \in Seq(Instruction)
    <3>1. Built(gs, Instantiate(sketch, gs))
      BY <1>7, CodeIs
    <3> QED
      BY <3>1 DEF Built
  <2> QED
    BY <1>7, <1>11, <2>1, VerifiedIsPassing
<1>12. CASE prob.prune /\ Dead(gs)
  <2>1. PICK es \in AllFills : LengthOf(es) = LengthOf(gs) - 1 /\ Verify(Instantiate(sketch, es))
    BY <1>7, <1>12, DeadIsNotShortest
  <2>2. LengthOf(es) = n - 1 /\ LengthOf(es) \in Nat
    BY <1>3, <1>7, <2>1
  <2>3. LengthOf(es) \in S /\ LengthOf(es) < n
    BY <1>6, <2>1, <2>2
  <2> HIDE DEF S
  <2> QED
    BY <1>5, <1>6, <2>2, <2>3
<1> QED
  BY <1>9, <1>10, <1>11, <1>12 DEF Tried

(* A search within its budget finds a program exactly if some fill of the  *)
(* sketch satisfies every example, and none with fewer instructions does,  *)
(* fills with dead writes included: pruning them loses no shortest         *)
(* program where a dead write may be left out at all (Sketch.hpp; in       *)
(* Sketch.cpp is_dead_write_pair and SketchSynthesizer::synthesize).  Of a *)
(* sketch that is searched without pruning nothing is asked.               *)
THEOREM ShortestFillIsAlwaysFound == Spec => [](Shrinkable => ShortestFillIsFound)
<1>1. LoopInv /\ KnownInv /\ EnumInv => (Shrinkable => ShortestFillIsFound)
  <2> SUFFICES ASSUME LoopInv, KnownInv, EnumInv, Shrinkable, phase = "done", ~exhausted
               PROVE  IF found = {} THEN \A fs \in AllFills : ~Verify(Instantiate(sketch, fs))
                      ELSE /\ \A program \in found : Verify(program) /\ program = Instantiate(sketch, fills)
                           /\ \A fs \in AllFills : LengthOf(fs) < total => ~Verify(Instantiate(sketch, fs))
    BY DEF ShortestFillIsFound
  <2>1. SketchInv /\ len \in Widths /\ digits \in Settings(len) /\ total = SumOf(len)
    BY DEF EnumInv
  <2>2. Items /\ Ready
    <3>1. Items
      BY <2>1, ItemsAre
    <3> QED
      BY <3>1 DEF Items
  <2>3. \A l \in Widths : SumOf(l) \in Nat
    BY <2>2, SizesAre
  <2>4. ASSUME found = {}, NEW fs \in AllFills PROVE ~Verify(Instantiate(sketch, fs))
    <3>1. \A s \in AllSettings : Tried(s[1], s[2])
      BY <2>4 DEF EnumInv, Searched
    <3>2. PICK l \in Widths : \E d \in Settings(l) : FillsAt(l, d) = fs /\ LengthOf(fs) = SumOf(l)
      BY <2>2, FillIsShown
    <3>3. LengthOf(fs) < SumOf(l) + 1 /\ SumOf(l) + 1 \in Nat
      BY <2>3, <3>2
    <3> QED
      BY <2>2, <3>1, <3>3, NoShorterFill
  <2>5. ASSUME found # {}
        PROVE  /\ \A program \in found : Verify(program) /\ program = Instantiate(sketch, fills)
               /\ \A fs \in AllFills : LengthOf(fs) < total => ~Verify(Instantiate(sketch, fs))
    <3>1. found = {Instantiate(sketch, fills)} /\ fills = Shown /\ \A s \in Earlier(len, digits) : Tried(s[1], s[2])
      BY <2>5 DEF EnumInv
    <3>2. fills \in AllFills
      BY <2>1, <2>2, <3>1, SettingIsFill DEF Shown
    <3>3. PICK P : P = Instantiate(sketch, fills)
      OBVIOUS
    <3>4. P \in Seq(Instruction)
      BY <2>2, <3>2, <3>3, CodeIs DEF Built
    <3>5. \A i \in DOMAIN examples : Passes(examples[i], P)
      BY <3>1, <3>3 DEF LoopInv, SynthesizerInv
    <3>6. Verify(P)
      BY <3>4, <3>5, VerifiedIsPassing
    <3>7. \A s \in AllSettings : SumOf(s[1]) < total => Tried(s[1], s[2])
      BY <2>1, <3>1 DEF Earlier, Comes
    <3>8. total \in Nat
      BY <2>1, <2>3
    <3>9. ASSUME NEW fs \in AllFills, LengthOf(fs) < total PROVE ~Verify(Instantiate(sketch, fs))
      BY <2>2, <3>7, <3>8, <3>9, NoShorterFill
    <3> QED
      BY <3>1, <3>3, <3>6, <3>9
  <2> QED
    BY <2>4, <2>5
<1> QED
  BY <1>1, LoopInit, LoopStep, EnumInit, EnumStep, KnownInit, KnownStep, PTL DEF Spec
=============================================================================
