-------------------------- MODULE CounterexampleLoop --------------------------
(***************************************************************************)
(* Synthesis guided by counterexamples (Tier2.cpp: run_sketch, with        *)
(* validate_program and record_validation of Experiment.cpp): the sketch   *)
(* is filled for the training examples, the program is probed on other     *)
(* inputs, an input it fails on becomes an example, and at last it is      *)
(* validated on held-out inputs.  The probes come from one generator for   *)
(* all rounds: first its edge cases, then any inputs.                      *)
(***************************************************************************)
EXTENDS SketchSearch

CONSTANTS
  MaxRounds,     \* kMaxRounds
  Probes,        \* kProbe: inputs drawn in a round
  Cases          \* held-out inputs drawn

\* Both problems that run the loop allow a probe more steps than an example.
ASSUME LoopAssumption ==
  /\ MaxRounds \in Nat \ {0} /\ Probes \in Nat /\ Cases \in Nat
  /\ \A p \in SketchProblems :
       /\ p.examples \in Seq(ToSet(p.examples)) /\ p.edges \in Seq(ToSet(p.edges))
       /\ \A e \in ToSet(p.edges) \cup p.inputs : e.input \in State
       /\ p.maxSteps <= p.testSteps /\ p.testSteps \in Nat

VARIABLES
  ex,        \* the training examples, those of the next synthesizer
  stage,     \* "synthesize", "probe", "validate" or "finished"
  rounds,    \* rounds that added a counterexample
  drawn,     \* edge cases that the generator of probes has returned
  tried,     \* probes of this round, or test_cases
  passed,    \* test_passed
  outcome    \* solved and verified; train_examples is the length of ex

loopVars == <<ex, stage, rounds, drawn, tried, passed, outcome>>
vars == <<searchVars, loopVars>>

Init ==
  /\ SearchInit
  /\ ex = prob.examples
  /\ stage = "synthesize"
  /\ rounds = 0 /\ drawn = 0 /\ tried = 0 /\ passed = 0
  /\ outcome = [solved |-> FALSE, verified |-> FALSE]

\* One more step of the synthesizer of this round.
Search ==
  /\ stage = "synthesize" /\ SearchNext
  /\ UNCHANGED loopVars

\* parse or the constructor throws: so does run_sketch.
Throw ==
  /\ stage = "synthesize" /\ phase = "rejected"
  /\ stage' = "finished"
  /\ UNCHANGED <<searchVars, ex, rounds, drawn, tried, passed, outcome>>

NoFill ==
  /\ stage = "synthesize" /\ phase = "done" /\ found = {}
  /\ stage' = "finished"
  /\ UNCHANGED <<searchVars, ex, rounds, drawn, tried, passed, outcome>>

StartProbe ==
  /\ stage = "synthesize" /\ found # {}
  /\ stage' = "probe" /\ tried' = 0
  /\ UNCHANGED <<searchVars, ex, rounds, drawn, passed, outcome>>

\* What a generator that has returned n edge cases returns next.
Drawn(n) == IF n < Len(prob.edges) THEN {prob.edges[n + 1]} ELSE prob.inputs

Meets(e, program) ==
  LET s == RunFor(e.input, program, prob.testSteps)
  IN s.halted \in {"Halt", "EndOfProgram"} /\ GoalHolds(e.goal, s)

\* Leaving the loop, with or without a counterexample in the last round.
Leave == stage' = "validate" /\ tried' = 0 /\ outcome' = [outcome EXCEPT !.solved = TRUE]

\* Mutant: the probes are not counted.
ProbePassesUncounted ==
  /\ stage = "probe" /\ tried < Probes
  /\ \E e \in Drawn(drawn) : \A program \in found : Meets(e, program)
  /\ drawn' = drawn + (IF drawn < Len(prob.edges) THEN 1 ELSE 0)
  /\ UNCHANGED <<searchVars, ex, stage, rounds, tried, passed, outcome>>

ProbePasses ==
  /\ stage = "probe" /\ tried < Probes
  /\ \E e \in Drawn(drawn) : \A program \in found : Meets(e, program)
  /\ drawn' = drawn + (IF drawn < Len(prob.edges) THEN 1 ELSE 0)
  /\ tried' = tried + 1
  /\ UNCHANGED <<searchVars, ex, stage, rounds, passed, outcome>>

\* The next round has a synthesizer of its own; after the last one the candidate stays.
Counterexample ==
  /\ stage = "probe" /\ tried < Probes
  /\ rounds' = rounds + 1
  /\ drawn' = drawn + (IF drawn < Len(prob.edges) THEN 1 ELSE 0)
  /\ \E e \in Drawn(drawn) :
       /\ \E program \in found : ~Meets(e, program)
       /\ ex' = Append(ex, e)
  /\ IF rounds + 1 < MaxRounds
     THEN Construct(ex') /\ stage' = "synthesize" /\ UNCHANGED <<prob, sketch, tried, outcome>>
     ELSE Leave /\ UNCHANGED searchVars
  /\ UNCHANGED passed

NoCounterexample ==
  /\ stage = "probe" /\ tried = Probes
  /\ Leave
  /\ UNCHANGED <<searchVars, ex, rounds, drawn, passed>>

\* Mutant: the validation goes on with the generator of the probes.
HeldOutUsed == Drawn(drawn + tried)

\* The held-out inputs come from a generator of their own.
HeldOut == Drawn(tried)

Validate ==
  /\ stage = "validate" /\ tried < Cases
  /\ \E e \in HeldOut, program \in found : passed' = passed + (IF Meets(e, program) THEN 1 ELSE 0)
  /\ tried' = tried + 1
  /\ UNCHANGED <<searchVars, ex, stage, rounds, drawn, outcome>>

Record ==
  /\ stage = "validate" /\ tried = Cases
  /\ outcome' = [outcome EXCEPT !.verified = outcome.solved /\ tried > 0 /\ passed = tried]
  /\ stage' = "finished"
  /\ UNCHANGED <<searchVars, ex, rounds, drawn, tried, passed>>

Next ==
  \/ Search \/ Throw \/ NoFill \/ StartProbe \/ ProbePasses \/ Counterexample \/ NoCounterexample
  \/ Validate \/ Record

Spec     == Init /\ [][Next]_vars
FairSpec == Spec /\ WF_vars(Next)
-----------------------------------------------------------------------------
(* Properties.                                                             *)

(* A counterexample is never one of the examples already: the synthesizer  *)
(* has satisfied those, and the probes allow as many steps as it did.      *)
CounterexamplesAreNew ==
  \A i, j \in DOMAIN ex :
    i < j /\ j > Len(prob.examples) => ex[i] # ex[j]

(* A verified program, whatever the probes of the rounds had used up, is   *)
(* right on every edge case of the held-out inputs and on every training   *)
(* example but the one the last round may have added.                      *)
VerifiedIsCorrect ==
  outcome.verified => \A program \in found :
    /\ \A i \in 1 .. Len(prob.edges) : i <= Cases => Meets(prob.edges[i], program)
    /\ \A i \in DOMAIN ex : ~(rounds = MaxRounds /\ i = Len(ex)) => Passes(ex[i], program)

(* The loop ends: after MaxRounds rounds at the latest.                    *)
LoopReturns == <>(stage = "finished")
=============================================================================
