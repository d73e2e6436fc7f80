--------------------------- MODULE SolutionStream ---------------------------
(***************************************************************************)
(* What enumerate promises its callers (ConstrainedSpace, the experiments  *)
(* and the command line), however it searches: a call produces solutions,  *)
(* each at most once, in some order; it may stop early; when it says it is *)
(* complete it has produced them all.                                      *)
(***************************************************************************)
CONSTANT Assignment   \* whatever a solution may be

VARIABLES
  solutions,   \* the solution set, fixed
  running,     \* is a call in progress?
  found,       \* the solutions the last call has produced so far
  complete     \* has the last call said that it explored everything?

vars == <<solutions, running, found, complete>>

Init ==
  /\ solutions \in SUBSET Assignment
  /\ running = FALSE
  /\ found = {}
  /\ complete = FALSE

\* A call starts; one that can tell at once that there is nothing is over.
Ask ==
  /\ ~running
  /\ found' = {}
  /\ \/ running' = TRUE  /\ complete' = FALSE
     \/ running' = FALSE /\ complete' \in {FALSE, solutions = {}}
  /\ UNCHANGED solutions

\* One more solution, perhaps the last of this call.
Emit ==
  /\ running
  /\ \E s \in solutions \ found : found' = found \cup {s}
  /\ \/ running' = TRUE  /\ complete' = FALSE
     \/ running' = FALSE /\ complete' \in {FALSE, solutions = found'}
  /\ UNCHANGED solutions

Finish ==
  /\ running
  /\ running' = FALSE
  /\ complete' \in {FALSE, solutions = found}
  /\ UNCHANGED <<solutions, found>>

Next == Ask \/ Emit \/ Finish

Spec == Init /\ [][Next]_vars /\ WF_vars(Emit \/ Finish)
=============================================================================
