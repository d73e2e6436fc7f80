------------------------------ MODULE MCSketches ------------------------------
(***************************************************************************)
(* Sketches over the widths of MCMachine: loops whose body is a hole, two  *)
(* holes with alphabets of their own, labels at holes and at the end,      *)
(* budgets, and sketches that are rejected.                                *)
(***************************************************************************)
EXTENDS CounterexampleLoop, Bitwise

MCAnd(u, v) == u & v
MCOr(u, v)  == u | v
MCXor(u, v) == u ^^ v

MCGoalHolds(goal, s) == \A g \in goal : IF g.kind = "reg" THEN s.regs[g.at] = g.value ELSE g.at \in s.flags
Reg(r, v)   == [kind |-> "reg", at |-> r, value |-> v]
FlagSet(f)  == [kind |-> "flag", at |-> f]
Input(u, v) == [InitialState EXCEPT !.regs = [r \in 0 .. 2 |-> CASE r = 0 -> u [] r = 1 -> v [] r = 2 -> 0]]
Example(u, v, goal) == [input |-> Input(u, v), goal |-> goal]

Line(labels, op, a, b, c, imm, ref) ==
  [kind |-> "ins", labels |-> labels, ins |-> Ins(op, a, b, c, imm), ref |-> ref]
Hole(labels, max, name) == [kind |-> "hole", labels |-> labels, max |-> max, alphabet |-> name]
End(labels) == [kind |-> "blank", labels |-> labels]

\* while (r1 # 0) { hole }
Loop(max) ==
  << Line(<<"top">>, "addi", 1, 1, 0, 0, NoRef), Line(<<>>, "jz", 0, 0, 0, 0, "done"), Hole(<<>>, max, "body"),
     Line(<<>>, "jmp", 0, 0, 0, 0, "top"), End(<<"done">>) >>
\* if (r0 = r1) { hole }, else { hole }, with labels on the holes.
Branches ==
  << Line(<<>>, "cmp", 0, 1, 0, 0, NoRef), Line(<<>>, "jz", 0, 0, 0, 0, "same"), Hole(<<>>, 1, "body"),
     Line(<<>>, "jmp", 0, 0, 0, 0, "out"), End(<<"unused">>), Hole(<<"same">>, 1, "other"), End(<<"out">>) >>
Straight(max) == << Hole(<<>>, max, "body") >>
NoHole  == << Line(<<>>, "movi", 0, 0, 0, 0, "here"), Line(<<"here">>, "halt", 0, 0, 0, 0, NoRef) >>
Twice   == << End(<<"top">>), Line(<<"top">>, "nop", 0, 0, 0, 0, NoRef) >>
Unknown == << Line(<<>>, "jmp", 0, 0, 0, 0, "top") >>
\* A jump to an index, right only when the hole has two instructions.
Indexed == << Line(<<>>, "jmp", 0, 0, 0, 3, NoRef), Hole(<<>>, 2, "other"), Line(<<>>, "movi", 0, 0, 0, 1, NoRef) >>

Sum     == << Ins("addi", 1, 1, 0, -1), Ins("add", 0, 0, 1, 0), Ins("mov", 0, 1, 0, 0), Ins("addi", 0, 0, 0, 1) >>
Euclid  == << Ins("mov", 0, 1, 0, 0), Ins("mov", 1, 2, 0, 0), Ins("mod", 2, 0, 1, 0), Ins("sub", 0, 0, 1, 0) >>
Flags   == << Ins("add", 2, 0, 0, 0), Ins("movi", 2, 0, 0, 5), Ins("div", 2, 0, 1, 0) >>
Moves   == << Ins("movi", 2, 0, 0, 5), Ins("movi", 2, 0, 0, 6) >>

Bits    == << Ins("mov", 2, 0, 0, 0), Ins("mov", 2, 1, 0, 0), Ins("or", 2, 0, 1, 0), Ins("xor", 2, 0, 1, 0) >>

Task(lines, train, edges, body, maxCandidates, prune) ==
  [lines |-> lines, examples |-> train, edges |-> edges, inputs |-> ToSet(edges) \cup ToSet(train),
   alphabets |-> [body |-> body, other |-> Moves],
   maxCandidates |-> maxCandidates, maxSteps |-> 24, testSteps |-> 30, prune |-> prune]

\* r0 + r1: two different bodies fit the first example.
Adds(u, v)  == Example(u, v, {Reg(0, u + v), Reg(1, 0)})
Gcd(u, v, d) == Example(u, v, {Reg(0, d)})
Differ(u, v) == Example(u, v, {Reg(2, u ^^ v)})
Five(u, v)  == Example(u, v, {Reg(2, IF u = v THEN 6 ELSE 5)})

MCSketchProblems ==
  {Task(Loop(2), <<Adds(0, 1), Adds(2, 2)>>, <<Adds(3, 0), Adds(1, 3)>>, Sum, m, b) : m \in {8, 500}, b \in BOOLEAN}
    \cup {Task(Loop(2), <<Adds(3, 0)>>, <<Adds(3, 0), Adds(0, 1), Adds(1, 3)>>, Sum, 500, TRUE)}
    \cup {Task(Loop(3), <<Gcd(4, 2, 2)>>, <<Gcd(3, 3, 3), Gcd(3, 2, 1), Gcd(6, 4, 2)>>, Euclid, 500, TRUE)}
    \cup {Task(Straight(n), <<Differ(0, 0)>>, edges, Bits, 500, TRUE) :
            n \in {1, 2}, edges \in {<<Differ(0, 1)>>} \cup
              {<<Differ(1, 1), Differ(1, 0), Differ(0, 1)>>, <<Differ(1, 0), Differ(0, 1), Differ(1, 1)>>, <<Differ(2, 0), Differ(3, 1)>>}}
    \cup {Task(Branches, <<Five(1, 1)>>, <<Five(2, 1)>>, Moves, 500, TRUE)}
    \cup {Task(Straight(2), <<Example(9, v, {FlagSet("C"), Reg(2, 5)})>>, <<>>, Flags, 500, TRUE) : v \in {0, 1}}
    \cup {Task(Straight(3), <<Example(9, 0, {Reg(0, 1)}), Example(1, 1, {Reg(2, 1)})>>, <<>>, Flags, 500, TRUE)}
    \cup {Task(lines, <<Example(1, 1, {Reg(0, 1)})>>, <<>>, <<>>, 500, TRUE) : lines \in {NoHole, Twice, Unknown, Straight(1)}}

\* Both fills of two instructions are dead.
MCIndexedProblems == {Task(Indexed, <<Example(0, 0, {Reg(0, 1)})>>, <<>>, Sum, 500, TRUE)}
=============================================================================
