------------------------- MODULE Synthesizer_proofs -------------------------
(***************************************************************************)
(* Proofs about the interval arithmetic on all integers, and about the     *)
(* synthesizer for any number of leaves, any problems and any calls.       *)
(***************************************************************************)
EXTENDS Synthesizer, Induction

(***************************************************************************)
(* Every bound is sound: the value an operator computes from values inside *)
(* the operand intervals lies inside the result interval, and a decided    *)
(* comparison of intervals agrees with the comparison of any two values    *)
(* inside them.                                                            *)
(***************************************************************************)
\* The sum of two members is a member of iv_add's interval, which is one.
THEOREM AddSound ==
  ASSUME NEW a \in Interval, NEW b \in Interval, NEW x \in Int, NEW y \in Int,
         Within(x, a), Within(y, b)
  PROVE  Add(a, b) \in Interval /\ Within(x + y, Add(a, b))
  BY DEF Interval, Within, Add, Between

\* The negation of a member is a member of iv_neg's interval.
THEOREM MinusSound ==
  ASSUME NEW a \in Interval, NEW x \in Int, Within(x, a)
  PROVE  Minus(a) \in Interval /\ Within(-x, Minus(a))
  BY DEF Interval, Within, Minus, Between

\* The absolute value of a member is a member of iv_abs's interval.
THEOREM AbsSound ==
  ASSUME NEW a \in Interval, NEW x \in Int, Within(x, a)
  PROVE  Abs(a) \in Interval /\ Within(Magnitude(x), Abs(a))
  BY DEF Interval, Within, Abs, Minus, Between, Magnitude, Greater

\* std::min and std::max of members are members of iv_min's and iv_max's.
THEOREM MinMaxSound ==
  ASSUME NEW a \in Interval, NEW b \in Interval, NEW x \in Int, NEW y \in Int,
         Within(x, a), Within(y, b)
  PROVE  /\ MinOf(a, b) \in Interval /\ Within(Lesser(x, y), MinOf(a, b))
         /\ MaxOf(a, b) \in Interval /\ Within(Greater(x, y), MaxOf(a, b))
  BY DEF Interval, Within, MinOf, MaxOf, Between, Lesser, Greater

\* A product of two integers is monotone or antitone in each factor.
LEMMA ProductMonotone ==
  ASSUME NEW c \in Int, NEW x \in Int, NEW y \in Int, x <= y
  PROVE  (c >= 0 => c * x <= c * y) /\ (c <= 0 => c * y <= c * x)
  OBVIOUS

\* The product of two members is a member of iv_mul's interval: it lies
\* between two of the products of the end points.
THEOREM MulSound ==
  ASSUME NEW a \in Interval, NEW b \in Interval, NEW x \in Int, NEW y \in Int,
         Within(x, a), Within(y, b)
  PROVE  Mul(a, b) \in Interval /\ Within(x * y, Mul(a, b))
<1> DEFINE p == a.lo * b.lo
           q == a.lo * b.hi
           r == a.hi * b.lo
           s == a.hi * b.hi
<1>1. /\ a.lo \in Int /\ a.hi \in Int /\ b.lo \in Int /\ b.hi \in Int
      /\ a.lo <= x /\ x <= a.hi /\ b.lo <= y /\ y <= b.hi
  BY DEF Interval, Within
<1>2. x * y \in Int /\ p \in Int /\ q \in Int /\ r \in Int /\ s \in Int
  BY <1>1
<1>3. \* on the edges x = a.lo and x = a.hi
      /\ (a.lo >= 0 => p <= a.lo * y /\ a.lo * y <= q) /\ (a.lo <= 0 => q <= a.lo * y /\ a.lo * y <= p)
      /\ (a.hi >= 0 => r <= a.hi * y /\ a.hi * y <= s) /\ (a.hi <= 0 => s <= a.hi * y /\ a.hi * y <= r)
  BY <1>1, ProductMonotone
<1>4. (y >= 0 => y * a.lo <= y * x /\ y * x <= y * a.hi) /\ (y <= 0 => y * a.hi <= y * x /\ y * x <= y * a.lo)
  BY <1>1, ProductMonotone
<1>5. y * a.lo = a.lo * y /\ y * a.hi = a.hi * y /\ y * x = x * y
  BY <1>1
<1>6. a.lo * y \in Int /\ a.hi * y \in Int
  BY <1>1
<1> HIDE DEF p, q, r, s
<1>7. /\ p <= x * y \/ q <= x * y \/ r <= x * y \/ s <= x * y
      /\ x * y <= p \/ x * y <= q \/ x * y <= r \/ x * y <= s
  <2> DEFINE u == a.lo * y
             w == a.hi * y
             z == x * y
  <2>1. u \in Int /\ w \in Int /\ z \in Int
    BY <1>2, <1>6
  <2>2. (u <= z /\ z <= w) \/ (w <= z /\ z <= u)
    BY <1>1, <1>4, <1>5
  <2>3. ((p <= u /\ u <= q) \/ (q <= u /\ u <= p)) /\ ((r <= w /\ w <= s) \/ (s <= w /\ w <= r))
    BY <1>1, <1>3
  <2> HIDE DEF u, w, z
  <2>4. /\ p <= z \/ q <= z \/ r <= z \/ s <= z
        /\ z <= p \/ z <= q \/ z <= r \/ z <= s
    BY <2>1, <2>2, <2>3, <1>2
  <2> QED
    BY <2>4 DEF z
<1> DEFINE L == Lesser(Lesser(p, q), Lesser(r, s))
           G == Greater(Greater(p, q), Greater(r, s))
<1>8. /\ L \in Int /\ G \in Int /\ L <= G
      /\ L <= p /\ L <= q /\ L <= r /\ L <= s
      /\ p <= G /\ q <= G /\ r <= G /\ s <= G
  BY <1>2 DEF Lesser, Greater
<1>9. Mul(a, b) = [lo |-> L, hi |-> G]
  BY DEF Mul, Between, p, q, r, s
<1> HIDE DEF L, G
<1>10. L <= x * y /\ x * y <= G
  BY <1>2, <1>7, <1>8
<1> QED
  BY <1>8, <1>9, <1>10 DEF Interval, Within

\* compare_intervals never contradicts compare_values: a verdict True (False)
\* on two intervals makes the comparison true (false) of all their members.
THEOREM CompareSound ==
  ASSUME NEW op \in Comparison, NEW a \in Interval, NEW b \in Interval,
         NEW x \in Int, NEW y \in Int, Within(x, a), Within(y, b)
  PROVE  /\ CompareIntervals(op, a, b) = True  => CompareValues(op, x, y)
         /\ CompareIntervals(op, a, b) = False => ~CompareValues(op, x, y)
<1> USE DEF Interval, Within, CompareIntervals, CompareValues, Decide, True, False, Unknown
<1>1. CASE op = "lt" BY <1>1 DEF LessThan
<1>2. CASE op = "le" BY <1>2 DEF AtMost
<1>3. CASE op = "gt" BY <1>3 DEF LessThan
<1>4. CASE op = "ge" BY <1>4 DEF AtMost
<1>5. CASE op = "eq" BY <1>5 DEF SameValue, IsPoint
<1>6. CASE op = "ne" BY <1>6 DEF SameValue, IsPoint, TriNot
<1> QED
  BY <1>1, <1>2, <1>3, <1>4, <1>5, <1>6 DEF Comparison

\* On points the verdict is always decided, so a formula whose leaves are
\* all assigned is never Unknown (the Synthesizer then only reads `holds').
THEOREM PointsAreDecided ==
  ASSUME NEW op \in Comparison, NEW x \in Int, NEW y \in Int
  PROVE  CompareIntervals(op, Point(x), Point(y)) =
           IF CompareValues(op, x, y) THEN True ELSE False
<1> USE DEF CompareIntervals, CompareValues, Decide, Point, Between, True, False, Unknown
<1>1. CASE op = "lt" BY <1>1 DEF LessThan
<1>2. CASE op = "le" BY <1>2 DEF AtMost
<1>3. CASE op = "gt" BY <1>3 DEF LessThan
<1>4. CASE op = "ge" BY <1>4 DEF AtMost
<1>5. CASE op = "eq" BY <1>5 DEF SameValue, IsPoint
<1>6. CASE op = "ne" BY <1>6 DEF SameValue, IsPoint, TriNot
<1> QED
  BY <1>1, <1>2, <1>3, <1>4, <1>5, <1>6 DEF Comparison

(***************************************************************************)
(* The synthesizer.                                                        *)
(***************************************************************************)

\* Facts about the constants, one leaf and one call at a time.
LEMMA ProblemFacts ==
  ASSUME NEW p \in Problems, NEW l \in Leaf
  PROVE  /\ p.domain[l] \subseteq Int
         /\ p.prim[l].lo \in Int /\ p.prim[l].hi \in Int
         /\ p.base \in [Leaf -> Int]
         /\ p.maxNodes \in Nat
  BY ConstantsAssumption DEF IsProblem, Interval

LEMMA StoredIsInt ==
  ASSUME NEW p \in Problems, NEW l \in Leaf, NEW v \in Int
  PROVE  Stored(p, l, v) \in Int
  BY ProblemFacts DEF Stored, Lesser, Greater

LEMMA SquareIsNat ==
  ASSUME NEW d \in Int
  PROVE  d * d \in Nat
  OBVIOUS

LEMMA AccumulateIsNat ==
  ASSUME NEW norm \in Norm, NEW cost \in Nat, NEW diff \in Int
  PROVE  Accumulate(norm, cost, diff) \in Nat
<1>1. Magnitude(diff) \in Nat
  BY DEF Magnitude
<1>2. diff * diff \in Nat
  BY SquareIsNat
<1>3. CASE norm = "L1" BY <1>1, <1>3 DEF Accumulate
<1>4. CASE norm = "L2" BY <1>2, <1>4 DEF Accumulate
<1>5. CASE norm = "LInf" BY <1>1, <1>5 DEF Accumulate, Greater
<1>6. CASE norm = "Hamming" BY <1>6 DEF Accumulate
<1> QED
  BY <1>3, <1>4, <1>5, <1>6 DEF Norm

LEMMA NearestFacts ==
  ASSUME NEW c \in Calls, c.op = "nearest"
  PROVE  c.target \in [Leaf -> Int] /\ c.norm \in Norm /\ c.fixed \in Nat
<1>1. IsCall(c)
  BY ConstantsAssumption
<1> QED
  BY <1>1 DEF IsCall

\* The leaf at a position.
LEMMA OrderFacts ==
  ASSUME NEW o \in Bijection(Position, Leaf)
  PROVE  /\ \A k \in Position : o[k] \in Leaf
         /\ \A j, k \in Position : o[j] = o[k] => j = k
         /\ \A l \in Leaf : \E k \in Position : o[k] = l
  BY DEF Bijection, Injection, Surjection, IsInjective, Position, Leaf

-----------------------------------------------------------------------------
LEMMA TypeInit == Init => TypeOK
<1> SUFFICES ASSUME Init PROVE TypeOK
  OBVIOUS
<1>1. order \in Bijection(Position, Leaf)
  BY DEF Init, SearchOrders
<1>2. work \in [Leaf -> Int]
  BY ConstantsAssumption DEF Init, IsProblem
<1> QED
  BY <1>1, <1>2, ConstantsAssumption DEF Init, TypeOK, NoStats, NoCost, Position

\* What a loop that tries v knows of it.
LEMMA TriedFacts ==
  ASSUME TypeOK, pc = "search", pos <= N, NEW v \in todo[pos]
  PROVE  /\ pos \in Position /\ Here \in Leaf /\ v \in Int
         /\ Written(v) \in [Leaf -> Int]
         /\ NextCost(v) \in Nat
<1>1. pos \in Position /\ v \in Int /\ prob \in Problems /\ order \in Bijection(Position, Leaf)
  BY ConstantsAssumption DEF TypeOK, Position
<1>2. Here \in Leaf
  BY <1>1, OrderFacts DEF Here
<1>3. Written(v) \in [Leaf -> Int]
  BY <1>1, <1>2, StoredIsInt DEF TypeOK, Written
<1>4. CASE call.op # "nearest"
  BY <1>1, <1>2, <1>3, <1>4 DEF NextCost
<1>5. CASE call.op = "nearest"
  <2>1. call \in Calls
    BY <1>5 DEF TypeOK
  <2>2. call.target[Here] \in Int /\ call.norm \in Norm /\ acc[pos] \in Nat
    BY <1>1, <1>2, <1>5, <2>1, NearestFacts, ConstantsAssumption DEF TypeOK, Position
  <2>3. v - call.target[Here] \in Int
    BY <1>1, <2>2
  <2>4. Accumulate(call.norm, acc[pos], v - call.target[Here]) \in Nat
    BY <2>2, <2>3, AccumulateIsNat
  <2>5. NextCost(v) \in Nat
    BY <1>5, <2>4 DEF NextCost
  <2> QED
    BY <1>1, <1>2, <1>3, <2>5
<1> QED
  BY <1>4, <1>5

Stats == [nodes : Nat, prunes : Nat, backtracks : Nat, solutions : Nat, exhausted : BOOLEAN]

\* The updates of the statistics the actions make keep them of their type.
LEMMA StatsFacts ==
  ASSUME NEW st \in Stats
  PROVE  /\ NoStats \in Stats /\ [NoStats EXCEPT !.exhausted = TRUE] \in Stats
         /\ [st EXCEPT !.exhausted = TRUE] \in Stats /\ [st EXCEPT !.exhausted = FALSE] \in Stats
         /\ [st EXCEPT !.nodes = @ + 1] \in Stats
         /\ [st EXCEPT !.backtracks = @ + 1] \in Stats
         /\ [st EXCEPT !.solutions = @ + 1] \in Stats
<1>1. NoStats \in Stats /\ [NoStats EXCEPT !.exhausted = TRUE] \in Stats
  BY DEF Stats, NoStats
<1>2. [st EXCEPT !.exhausted = TRUE] \in Stats /\ [st EXCEPT !.exhausted = FALSE] \in Stats
  BY DEF Stats
<1>3. [st EXCEPT !.nodes = @ + 1] \in Stats
  BY DEF Stats
<1>4. [st EXCEPT !.backtracks = @ + 1] \in Stats
  BY DEF Stats
<1>5. [st EXCEPT !.solutions = @ + 1] \in Stats
  BY DEF Stats
<1> QED
  BY <1>1, <1>2, <1>3, <1>4, <1>5

LEMMA PruneStats ==
  ASSUME NEW st \in Stats
  PROVE  [st EXCEPT !.prunes = @ + 1, !.backtracks = @ + 1] \in Stats
<1> DEFINE u == [st EXCEPT !.prunes = @ + 1]
<1>1. u \in Stats
  BY DEF Stats
<1>2. [st EXCEPT !.prunes = @ + 1, !.backtracks = @ + 1] = [u EXCEPT !.backtracks = @ + 1]
  OBVIOUS
<1> HIDE DEF u
<1> QED
  BY <1>1, <1>2, StatsFacts

LEMMA TryStats ==
  ASSUME NEW st \in Stats, NEW n \in Nat
  PROVE  [st EXCEPT !.nodes = @ + 1, !.prunes = @ + n] \in Stats
<1> DEFINE u == [st EXCEPT !.nodes = @ + 1]
<1>1. u \in Stats
  BY DEF Stats
<1>2. [st EXCEPT !.nodes = @ + 1, !.prunes = @ + n] = [u EXCEPT !.prunes = @ + n]
  OBVIOUS
<1> HIDE DEF u
<1>3. [u EXCEPT !.prunes = @ + n] \in Stats
  BY <1>1 DEF Stats
<1> QED
  BY <1>2, <1>3

\* Leaving a frame, or all of them, keeps the types of what it touches.
LEMMA ReturnType ==
  ASSUME TypeOK, NEW st \in Stats, Return(st)
  PROVE  assigned' \subseteq Leaf /\ stats' \in Stats /\ pc' \in {"idle", "search", "local"} /\ pos' \in 1 .. N + 1
<1>0. pos \in 1 .. N + 1 /\ assigned \subseteq Leaf /\ pc \in {"idle", "search", "local"}
  BY DEF TypeOK
<1>1. CASE pos = 1
  BY <1>0, <1>1, StatsFacts DEF Return
<1>2. CASE pos # 1
  <2>1. pos - 1 \in 1 .. N + 1
    BY <1>0, <1>2, ConstantsAssumption
  <2> QED
    BY <1>0, <1>2, <2>1 DEF Return
<1> QED
  BY <1>1, <1>2

LEMMA StopType ==
  ASSUME TypeOK, NEW st \in Stats, Stop(st)
  PROVE  assigned' \subseteq Leaf /\ stats' \in Stats /\ pc' \in {"idle", "search", "local"} /\ pos' \in 1 .. N + 1
<1>1. stats' \in Stats
  BY StatsFacts DEF Stop
<1>2. pos' \in 1 .. N + 1
  BY ConstantsAssumption DEF Stop
<1> QED
  BY <1>1, <1>2 DEF Stop, TypeOK

LEMMA TypeStep == TypeOK /\ [Next]_vars => TypeOK'
<1> SUFFICES ASSUME TypeOK, [Next]_vars PROVE TypeOK'
  OBVIOUS
<1> USE DEF problemVars, searchVars, resultVars
<1>a. prob \in Problems /\ order \in Bijection(Position, Leaf) /\ stats \in Stats
  BY DEF TypeOK, Stats
<1>0. CASE UNCHANGED vars
  BY <1>0 DEF vars, TypeOK
<1>1. ASSUME NEW c \in Calls, Begin(c) PROVE TypeOK'
  <2>1. todo' \in [Position -> SUBSET Int]
    <3>1. \A k \in Position : prob.domain[order[k]] \subseteq Int
      BY <1>a, OrderFacts, ProblemFacts
    <3> QED
      BY <1>1, <3>1 DEF Begin
  <2>2. acc' \in [1 .. N + 1 -> Nat]
    <3>1. c.op = "nearest" => c.fixed \in Nat
      BY NearestFacts
    <3> QED
      BY <1>1, <3>1 DEF Begin
  <2>3. stats' \in Stats
    BY <1>1, <1>a, StatsFacts DEF Begin
  <2>4. pc' \in {"idle", "search", "local"}
    BY <1>1 DEF Begin
  <2>5. /\ calls' \in 0 .. MaxCalls /\ call' \in Calls /\ assigned' = {} /\ pos' = 1
        /\ out' = <<>> /\ tally' = 0 /\ best' = {} /\ bestCost' = NoCost
        /\ UNCHANGED <<prob, order, work, steps>>
    BY <1>1, ConstantsAssumption DEF Begin, TypeOK
  <2>6. /\ prob' \in Problems /\ order' \in Bijection(Position, Leaf) /\ work' \in [Leaf -> Int]
        /\ assigned' \subseteq Leaf /\ call' \in Calls \cup {[op |-> "none"]} /\ steps' \in Nat
    BY <2>5 DEF TypeOK
  <2>7. /\ pos' \in 1 .. N + 1 /\ out' \in Seq([Leaf -> Int]) /\ tally' \in Nat
        /\ best' \subseteq [Leaf -> Int] /\ bestCost' \in Nat \cup {NoCost}
    BY <2>5, ConstantsAssumption
  <2> QED
    BY <2>1, <2>2, <2>3, <2>4, <2>5, <2>6, <2>7 DEF TypeOK, Stats
<1>2. ASSUME NEW c \in Calls, BeginLocal(c) PROVE TypeOK'
  <2>1. work' \in [Leaf -> Int]
    <3>1. PICK s \in Assignments(prob) : work' = [l \in Leaf |-> Stored(prob, l, s[l])]
      BY <1>2 DEF BeginLocal
    <3>2. \A l \in Leaf : s[l] \in Int
      BY <1>a, ProblemFacts DEF Assignments
    <3> QED
      BY <1>a, <3>1, <3>2, StoredIsInt
  <2>2. stats' \in Stats
    BY <1>2 DEF BeginLocal, NoStats, Stats
  <2> QED
    BY <1>2, <2>1, <2>2, ConstantsAssumption DEF BeginLocal, TypeOK, Stats
<1>3. ASSUME NEW v \in todo[pos], pos <= N, Descend(v) PROVE TypeOK'
  <2>1. /\ pos \in Position /\ Here \in Leaf /\ Written(v) \in [Leaf -> Int] /\ NextCost(v) \in Nat
    BY <1>3, TriedFacts DEF Descend, Tries
  <2>2. todo' \in [Position -> SUBSET Int]
    <3>1. \A k \in Position : prob.domain[order[k]] \subseteq Int /\ todo[k] \subseteq Int
      BY <1>a, OrderFacts, ProblemFacts DEF TypeOK
    <3> QED
      BY <1>3, <3>1 DEF Descend
  <2>3. pos + 1 \in 1 .. N + 1
    BY <2>1, ConstantsAssumption DEF Position
  <2>4. acc' \in [1 .. N + 1 -> Nat]
    BY <1>3, <2>1, <2>3 DEF Descend, TypeOK
  <2>5. stats' \in Stats
    BY <1>3, <1>a DEF Descend, Stats
  <2> QED
    BY <1>3, <2>1, <2>2, <2>3, <2>4, <2>5 DEF Descend, TypeOK, Stats
<1>4. ASSUME NEW v \in todo[pos], pos <= N, Reject(v) PROVE TypeOK'
  <2>1. /\ pos \in Position /\ Here \in Leaf /\ Written(v) \in [Leaf -> Int]
    BY <1>4, TriedFacts DEF Reject, Tries
  <2>2. todo' \in [Position -> SUBSET Int]
    BY <1>4, <2>1 DEF Reject, TypeOK
  <2>3. stats' \in Stats
    <3>1. (IF ChecksHold(v) THEN 1 ELSE 0) \in Nat
      OBVIOUS
    <3> QED
      BY <1>4, <1>a, <3>1, TryStats DEF Reject
  <2> QED
    BY <1>4, <2>1, <2>2, <2>3 DEF Reject, TypeOK, Stats
<1>5. CASE GiveUp
  BY <1>5, <1>a, StopType DEF GiveUp, TypeOK, Stats
<1>6. CASE Backtrack
  <2>1. [stats EXCEPT !.backtracks = @ + 1] \in Stats
    BY <1>a DEF Stats
  <2> QED
    BY <1>6, <2>1, ReturnType DEF Backtrack, TypeOK, Stats
<1>7. CASE BreakOff
  <2>1. [stats EXCEPT !.prunes = @ + 1, !.backtracks = @ + 1] \in Stats
    BY <1>a, PruneStats
  <2> QED
    BY <1>7, <2>1, ReturnType DEF BreakOff, TypeOK, Stats
<1>b. Visited \in Stats
  BY <1>a DEF Visited, Stats
<1>8. CASE EmitValue
  <2>1. out' \in Seq([Leaf -> Int])
    BY <1>8 DEF EmitValue, TypeOK
  <2>2. assigned' \subseteq Leaf /\ stats' \in Stats /\ pc' \in {"idle", "search", "local"} /\ pos' \in 1 .. N + 1
    BY <1>8, <1>b, ReturnType, StopType DEF EmitValue
  <2> QED
    BY <1>8, <2>1, <2>2 DEF EmitValue, TypeOK, Stats
<1>9. CASE CountValue
  <2>1. tally' \in Nat
    BY <1>9 DEF CountValue, TypeOK
  <2>2. assigned' \subseteq Leaf /\ stats' \in Stats /\ pc' \in {"idle", "search", "local"} /\ pos' \in 1 .. N + 1
    BY <1>9, <1>b, ReturnType, StopType DEF CountValue
  <2> QED
    BY <1>9, <2>1, <2>2 DEF CountValue, TypeOK, Stats
<1>10. CASE KeepNearest
  <2>1. best' \subseteq [Leaf -> Int] /\ bestCost' \in Nat \cup {NoCost}
    BY <1>10 DEF KeepNearest, TypeOK
  <2> QED
    BY <1>10, <1>b, <2>1, ReturnType DEF KeepNearest, TypeOK, Stats
<1>11. CASE LocalGiveUp
  BY <1>11 DEF LocalGiveUp, LocalReturn, TypeOK
<1>12. CASE LocalFound
  <2>1. [stats EXCEPT !.solutions = @ + 1] \in Stats
    BY <1>a DEF Stats
  <2> QED
    BY <1>12, <2>1 DEF LocalFound, LocalReturn, TypeOK, Stats
<1>13. CASE LocalStuck
  <2>1. [stats EXCEPT !.nodes = @ + (IF N = 0 THEN 0 ELSE 1)] \in Stats
    BY <1>a DEF Stats
  <2> QED
    BY <1>13, <2>1 DEF LocalStuck, LocalReturn, TypeOK, Stats
<1>14. ASSUME NEW l \in Leaf, LocalMove(l) PROVE TypeOK'
  <2>1. \A v \in Int : Repaired(l, v) \in [Leaf -> Int]
    BY <1>a, StoredIsInt DEF Repaired, TypeOK
  <2>2. prob.domain[l] \subseteq Int
    BY <1>a, ProblemFacts
  <2>3. \A values \in CandidateSets(l) : values \subseteq Int
    <3>1. work[l] \in Int
      BY DEF TypeOK
    <3> QED
      BY <2>2, <3>1 DEF CandidateSets
  <2>4. work' \in [Leaf -> Int]
    BY <1>14, <2>1, <2>2, <2>3 DEF LocalMove, LeastConflicts
  <2>5. stats' \in Stats
    BY <1>14, <1>a DEF LocalMove, Stats
  <2>6. /\ steps' \in Nat
        /\ UNCHANGED <<prob, order, assigned, calls, call, pc, pos, todo, acc, out, tally, best, bestCost>>
    BY <1>14 DEF LocalMove, TypeOK, problemVars, searchVars, resultVars
  <2> QED
    BY <2>4, <2>5, <2>6 DEF TypeOK, Stats
<1> QED
  BY <1>0, <1>1, <1>2, <1>3, <1>4, <1>5, <1>6, <1>7, <1>8, <1>9, <1>10, <1>11, <1>12, <1>13, <1>14
     DEF Next, Step

(* Every variable of the synthesizer keeps its type: in particular the     *)
(* recursion never leaves positions 1 .. N + 1 and costs are never         *)
(* negative, so NoCost is never taken for one.                             *)
THEOREM TypeCorrect == Spec => []TypeOK
<1>1. Init => TypeOK
  BY TypeInit
<1>2. TypeOK /\ [Next]_vars => TypeOK'
  BY TypeStep
<1> QED
  BY <1>1, <1>2, PTL DEF Spec
-----------------------------------------------------------------------------
(* The search: what holds of the current path, and what lies ahead of it.  *)

ASSUME ChecksAssumption == Representable /\ HonestChecks /\ SoundBounds

\* Local search works on domain values.
LocalInv == pc = "local" => call.op = "min_conflicts" /\ work \in Assignments(prob)

\* The path holds domain values that its loops have already taken, and every
\* check whose leaves are all on the path has been evaluated, and holds.
PathInv ==
  pc = "search" =>
    /\ call \in Calls /\ call.op \in {"enumerate", "count", "nearest"}
    /\ \A k \in Position : todo[k] \subseteq prob.domain[order[k]]
    /\ \A k \in 1 .. pos - 1 :
         work[order[k]] \in prob.domain[order[k]] /\ work[order[k]] \notin todo[k]
    /\ \A i \in DOMAIN prob.checks :
         CheckVars(prob.checks[i]) \subseteq Prefix(order, pos - 1) => Holds(prob.checks[i], work)

SearchInv == TypeOK /\ work \in Buffers(prob) /\ PathIsAssigned /\ PathInv /\ LocalInv

LEMMA AssignmentsAreBuffers ==
  ASSUME NEW p, NEW s \in Assignments(p)
  PROVE  s \in Buffers(p)
<1>1. s \in [Leaf -> UNION {p.domain[l] : l \in Leaf}] /\ \A l \in Leaf : s[l] \in p.domain[l]
  BY DEF Assignments
<1>2. \A l \in Leaf : s[l] \in UNION {p.domain[m] \cup {p.base[m]} : m \in Leaf}
  BY <1>1
<1> QED
  BY <1>1, <1>2 DEF Buffers

LEMMA PrefixFacts ==
  ASSUME NEW o \in Bijection(Position, Leaf)
  PROVE  /\ Prefix(o, 0) = {}
         /\ Prefix(o, N) = Leaf
         /\ \A k \in Position : /\ Prefix(o, k) = Prefix(o, k - 1) \cup {o[k]}
                                /\ o[k] \notin Prefix(o, k - 1)
                                /\ Prefix(o, k - 1) \subseteq Leaf
<1>1. /\ \A k \in Position : o[k] \in Leaf
      /\ \A j, k \in Position : o[j] = o[k] => j = k
      /\ \A l \in Leaf : \E k \in Position : o[k] = l
  BY OrderFacts
<1>2. Prefix(o, 0) = {}
  BY DEF Prefix
<1>3. Prefix(o, N) = Leaf
  BY <1>1 DEF Prefix, Position
<1>4. ASSUME NEW k \in Position
      PROVE  /\ Prefix(o, k) = Prefix(o, k - 1) \cup {o[k]}
             /\ o[k] \notin Prefix(o, k - 1)
             /\ Prefix(o, k - 1) \subseteq Leaf
  <2>1. k \in Int /\ 1 <= k /\ k <= N /\ N \in Int
    BY ConstantsAssumption DEF Position
  <2>2. 1 .. k = (1 .. k - 1) \cup {k}
    BY <2>1
  <2>3. 1 .. k - 1 \subseteq Position /\ k \notin 1 .. k - 1
    BY <2>1 DEF Position
  <2> QED
    BY <1>1, <2>2, <2>3 DEF Prefix
<1> QED
  BY <1>2, <1>3, <1>4

\* Writing the next value of a loop extends the path.
LEMMA WriteFacts ==
  ASSUME SearchInv, pc = "search", pos <= N, NEW v \in todo[pos]
  PROVE  /\ pos \in Position /\ Here \in Leaf /\ v \in prob.domain[Here]
         /\ Written(v) = [work EXCEPT ![Here] = v]
         /\ Written(v)[Here] = v
         /\ \A l \in Leaf : l # Here => Written(v)[l] = work[l]
         /\ \A k \in 1 .. pos - 1 : order[k] \in Leaf /\ order[k] # Here
         /\ Written(v) \in Buffers(prob)
<1>1. pos \in Position /\ Here \in Leaf /\ prob \in Problems /\ order \in Bijection(Position, Leaf)
  BY TriedFacts DEF SearchInv, TypeOK
<1>2. v \in prob.domain[Here]
  BY <1>1 DEF SearchInv, PathInv, Here
<1>3. Stored(prob, Here, v) = v
  <2>1. Within(v, prob.prim[Here])
    BY <1>1, <1>2, ChecksAssumption DEF Representable
  <2>2. v \in Int /\ prob.prim[Here].lo \in Int /\ prob.prim[Here].hi \in Int
    BY <1>1, <1>2, ProblemFacts
  <2> QED
    BY <2>1, <2>2 DEF Stored, Within, Lesser, Greater
<1>4. Written(v) = [work EXCEPT ![Here] = v] /\ work \in [Leaf -> Int]
  BY <1>3 DEF Written, SearchInv, TypeOK
<1>5. Written(v)[Here] = v /\ \A l \in Leaf : l # Here => Written(v)[l] = work[l]
  BY <1>1, <1>4
<1>6. \A k \in 1 .. pos - 1 : order[k] \in Leaf /\ order[k] # Here
  <2>1. \A k \in 1 .. pos - 1 : k \in Position /\ k # pos
    BY <1>1, ConstantsAssumption DEF Position
  <2> QED
    BY <1>1, <2>1, OrderFacts DEF Here
<1>7. Written(v) \in Buffers(prob)
  <2>1. work \in Buffers(prob)
    BY DEF SearchInv
  <2> QED
    BY <1>1, <1>2, <1>4, <1>5, <2>1 DEF Buffers
<1> QED
  BY <1>1, <1>2, <1>4, <1>5, <1>6, <1>7

\* A check whose leaves are all above pos is not disturbed by the write.
LEMMA ChecksAboveHold ==
  ASSUME SearchInv, pc = "search", pos <= N, NEW v \in todo[pos],
         NEW i \in DOMAIN prob.checks, CheckVars(prob.checks[i]) \subseteq Prefix(order, pos - 1)
  PROVE  Holds(prob.checks[i], Written(v))
<1>1. prob \in Problems /\ order \in Bijection(Position, Leaf) /\ work \in Buffers(prob)
  BY DEF SearchInv, TypeOK
<1>2. Here \notin Prefix(order, pos - 1) /\ Prefix(order, pos - 1) \subseteq Leaf
  BY <1>1, PrefixFacts, WriteFacts DEF Here
<1>3. \A l \in CheckVars(prob.checks[i]) : work[l] = Written(v)[l]
  BY <1>2, WriteFacts
<1>4. Holds(prob.checks[i], work)
  BY DEF SearchInv, PathInv
<1>5. Written(v) \in Buffers(prob)
  BY WriteFacts
<1> QED
  BY <1>1, <1>3, <1>4, <1>5, ChecksAssumption DEF HonestChecks

\* The checks consistent_at evaluates and those above it are all the checks
\* whose leaves are on the longer path.
LEMMA ChecksOnPathHold ==
  ASSUME SearchInv, pc = "search", pos <= N, NEW v \in todo[pos], ChecksHold(v),
         NEW i \in DOMAIN prob.checks, CheckVars(prob.checks[i]) \subseteq Prefix(order, pos)
  PROVE  Holds(prob.checks[i], Written(v))
<1>1. CASE order[pos] \in CheckVars(prob.checks[i])
  BY <1>1 DEF ChecksHold, ReadyHold, Ready
<1>2. CASE order[pos] \notin CheckVars(prob.checks[i])
  <2>1. pos \in Position /\ order \in Bijection(Position, Leaf)
    BY WriteFacts DEF SearchInv, TypeOK
  <2>2. CheckVars(prob.checks[i]) \subseteq Prefix(order, pos - 1)
    BY <1>2, <2>1, PrefixFacts
  <2> QED
    BY <2>2, ChecksAboveHold
<1> QED
  BY <1>1, <1>2

\* A rejected value leads to no solution: whoever agrees with the path and
\* takes v next fails a check that is ready, or one whose bound says False.
LEMMA RejectedIsDead ==
  ASSUME SearchInv, pc = "search", pos <= N, NEW v \in todo[pos],
         ~(ChecksHold(v) /\ ~BoundFails(v)),
         NEW s \in Assignments(prob),
         \A k \in 1 .. pos - 1 : s[order[k]] = work[order[k]],
         s[Here] = v
  PROVE  \E i \in DOMAIN prob.checks : ~Holds(prob.checks[i], s)
<1>1. /\ prob \in Problems /\ order \in Bijection(Position, Leaf) /\ pos \in Position
      /\ Written(v) \in Buffers(prob) /\ s \in Buffers(prob)
  BY WriteFacts, AssignmentsAreBuffers DEF SearchInv, TypeOK
<1>2. \A l \in Prefix(order, pos) : s[l] = Written(v)[l]
  <2>1. \A k \in 1 .. pos - 1 : Written(v)[order[k]] = work[order[k]]
    BY WriteFacts
  <2>2. \A l \in Prefix(order, pos - 1) : s[l] = Written(v)[l]
    BY <2>1 DEF Prefix
  <2>3. s[order[pos]] = Written(v)[order[pos]]
    BY WriteFacts DEF Here
  <2> QED
    BY <1>1, <2>2, <2>3, PrefixFacts
<1>3. CASE ~ChecksHold(v)
  <2>1. PICK i \in Ready(prob, order, pos) : ~Holds(prob.checks[i], Written(v))
    BY <1>3 DEF ChecksHold, ReadyHold
  <2>2. i \in DOMAIN prob.checks /\ CheckVars(prob.checks[i]) \subseteq Prefix(order, pos)
    BY <2>1 DEF Ready
  <2>3. \A l \in CheckVars(prob.checks[i]) : Written(v)[l] = s[l]
    BY <1>2, <2>2
  <2>4. ~Holds(prob.checks[i], s)
    BY <1>1, <2>1, <2>2, <2>3, ChecksAssumption DEF HonestChecks
  <2> QED
    BY <2>2, <2>4
<1>4. CASE BoundFails(v)
  <2> DEFINE done == assigned \cup {Here}
  <2>1. PICK i \in Touching(prob, order, pos) :
          Feasible(prob.checks[i], Ranges(prob, Written(v), done)) = False
    BY <1>4 DEF BoundFails, Pruned
  <2>2. i \in DOMAIN prob.checks /\ prob.checks[i].symbolic
    BY <2>1 DEF Touching
  <2>3. done = Prefix(order, pos) /\ done \in SUBSET Leaf
    <3>1. assigned = Prefix(order, pos - 1)
      BY DEF SearchInv, PathIsAssigned
    <3>2. Prefix(order, pos) = Prefix(order, pos - 1) \cup {order[pos]} /\ Prefix(order, pos - 1) \subseteq Leaf
      BY <1>1, PrefixFacts
    <3>3. order[pos] \in Leaf
      BY <1>1, OrderFacts
    <3> QED
      BY <3>1, <3>2, <3>3 DEF Here
  <2>4. \A l \in done : s[l] = Written(v)[l]
    BY <1>2, <2>3
  <2> HIDE DEF done
  <2>5. ~Holds(prob.checks[i], s)
    BY <1>1, <2>1, <2>2, <2>3, <2>4, ChecksAssumption DEF SoundBounds
  <2> QED
    BY <2>2, <2>5
<1> QED
  BY <1>3, <1>4

LEMMA SearchInit == Init => SearchInv
<1> SUFFICES ASSUME Init PROVE SearchInv
  OBVIOUS
<1>1. TypeOK
  BY TypeInit
<1>2. work \in Buffers(prob)
  <2>1. work = prob.base /\ work \in [Leaf -> Int]
    BY <1>1 DEF Init, TypeOK
  <2>2. \A l \in Leaf : work[l] \in UNION {prob.domain[m] \cup {prob.base[m]} : m \in Leaf}
    BY <2>1
  <2> QED
    BY <2>1, <2>2 DEF Buffers
<1> QED
  BY <1>1, <1>2 DEF Init, SearchInv, PathIsAssigned, PathInv, LocalInv

\* A frame that returns leaves the shorter path as it was.
LEMMA ReturnPath ==
  ASSUME SearchInv, pc = "search", NEW st, Return(st),
         UNCHANGED <<prob, order, work, call, todo>>
  PROVE  PathIsAssigned' /\ PathInv' /\ LocalInv'
<1>1. /\ order \in Bijection(Position, Leaf) /\ pos \in 1 .. N + 1
      /\ assigned = Prefix(order, pos - 1)
      /\ call.op \in {"enumerate", "count", "nearest"}
  BY DEF SearchInv, TypeOK, PathIsAssigned, PathInv
<1>2. CASE pos = 1
  <2>1. assigned = {}
    BY <1>1, <1>2, PrefixFacts
  <2> QED
    BY <1>1, <1>2, <2>1 DEF Return, PathIsAssigned, PathInv, LocalInv
<1>3. CASE pos # 1
  <2>1. pos - 1 \in Position /\ pos' = pos - 1 /\ pc' = "search"
        /\ assigned' = assigned \ {order[pos - 1]}
    BY <1>1, <1>3, ConstantsAssumption DEF Return, Position
  <2>2. /\ Prefix(order, pos - 1) = Prefix(order, pos - 1 - 1) \cup {order[pos - 1]}
        /\ order[pos - 1] \notin Prefix(order, pos - 1 - 1)
    BY <1>1, <2>1, PrefixFacts
  <2>3. PathIsAssigned'
    BY <1>1, <2>1, <2>2 DEF PathIsAssigned
  <2>4. 1 .. pos' - 1 \subseteq 1 .. pos - 1
    BY <1>1, <2>1, ConstantsAssumption
  <2>5. Prefix(order, pos' - 1) \subseteq Prefix(order, pos - 1)
    BY <2>1, <2>2
  <2>6. PathInv'
    BY <2>1, <2>4, <2>5 DEF SearchInv, PathInv
  <2> QED
    BY <2>1, <2>3, <2>6 DEF LocalInv
<1> QED
  BY <1>2, <1>3

\* Unwinding the whole recursion leaves no flag set.
LEMMA StopPath ==
  ASSUME SearchInv, pc = "search", NEW st, Stop(st),
         UNCHANGED <<prob, order, work, call, todo>>
  PROVE  PathIsAssigned' /\ PathInv' /\ LocalInv'
<1>1. assigned = Prefix(order, pos - 1) /\ call.op \in {"enumerate", "count", "nearest"}
  BY DEF SearchInv, PathIsAssigned, PathInv
<1> QED
  BY <1>1 DEF Stop, PathIsAssigned, PathInv, LocalInv

\* Storing domain values in every leaf, or in one, gives an assignment.
LEMMA StoreFacts ==
  ASSUME NEW p \in Problems, NEW l \in Leaf, NEW v \in p.domain[l]
  PROVE  Stored(p, l, v) = v
<1>1. Within(v, p.prim[l]) /\ v \in Int /\ p.prim[l].lo \in Int /\ p.prim[l].hi \in Int
  BY ProblemFacts, ChecksAssumption DEF Representable
<1> QED
  BY <1>1 DEF Stored, Within, Lesser, Greater

LEMMA SearchStep == SearchInv /\ [Next]_vars => SearchInv'
<1> SUFFICES ASSUME SearchInv, [Next]_vars PROVE SearchInv'
  OBVIOUS
<1> USE DEF problemVars, searchVars, resultVars
<1>a. /\ TypeOK /\ TypeOK' /\ work \in Buffers(prob) /\ prob \in Problems
      /\ order \in Bijection(Position, Leaf)
  BY TypeStep DEF SearchInv, TypeOK
<1>0. CASE UNCHANGED vars
  BY <1>0 DEF vars, SearchInv, TypeOK, PathIsAssigned, PathInv, LocalInv
<1>1. ASSUME NEW c \in Calls, Begin(c) PROVE SearchInv'
  <2>1. UNCHANGED <<prob, order, work>> /\ assigned' = {} /\ call' = c /\ pos' = 1
        /\ c.op \in {"enumerate", "count", "nearest"}
        /\ todo' = [k \in Position |-> prob.domain[order[k]]]
    BY <1>1 DEF Begin
  <2>2. pc' = "search" => RootOk(prob, work)
    BY <1>1 DEF Begin
  <2>3. pc' \in {"search", "idle"}
    BY <1>1 DEF Begin
  <2>4. Prefix(order, 0) = {} /\ pos' - 1 = 0 /\ 1 .. pos' - 1 = {}
    BY <1>a, <2>1, PrefixFacts
  <2>5. PathIsAssigned'
    BY <2>1, <2>3, <2>4 DEF PathIsAssigned
  <2>6. pc' = "search" => \A i \in DOMAIN prob.checks :
          CheckVars(prob.checks[i]) \subseteq {} => Holds(prob.checks[i], work)
    BY <2>2 DEF RootOk, RootChecks
  <2>7. PathInv'
    BY <2>1, <2>4, <2>6 DEF PathInv
  <2> QED
    BY <1>a, <2>1, <2>3, <2>5, <2>7 DEF SearchInv, LocalInv
<1>2. ASSUME NEW c \in Calls, BeginLocal(c) PROVE SearchInv'
  <2>1. UNCHANGED <<prob, order>> /\ assigned' = Leaf /\ call' = c /\ c.op = "min_conflicts"
        /\ pc' \in {"local", "idle"}
    BY <1>2 DEF BeginLocal
  <2>2. PICK s \in Assignments(prob) : work' = [l \in Leaf |-> Stored(prob, l, s[l])]
    BY <1>2 DEF BeginLocal
  <2>3. work' = s
    BY <1>a, <2>2, StoreFacts DEF Assignments
  <2>4. work' \in Assignments(prob) /\ work' \in Buffers(prob)
    BY <2>3, AssignmentsAreBuffers
  <2> QED
    BY <1>a, <2>1, <2>4 DEF SearchInv, PathIsAssigned, PathInv, LocalInv
<1>3. ASSUME NEW v \in todo[pos], pos <= N, Descend(v) PROVE SearchInv'
  <2>1. /\ pc = "search" /\ pc' = "search" /\ pos' = pos + 1 /\ work' = Written(v)
        /\ assigned' = assigned \cup {Here} /\ UNCHANGED <<prob, order, call>>
        /\ ChecksHold(v)
        /\ todo' = [k \in Position |-> CASE k = pos     -> todo[k] \ {v}
                                          [] k = pos + 1 -> prob.domain[order[k]]
                                          [] OTHER       -> todo[k]]
    BY <1>3 DEF Descend, Tries
  <2>2. /\ pos \in Position /\ Written(v) \in Buffers(prob) /\ v \in prob.domain[Here]
        /\ Written(v)[Here] = v
        /\ \A k \in 1 .. pos - 1 : Written(v)[order[k]] = work[order[k]]
    BY <1>3, <2>1, WriteFacts
  <2>3. pos \in Int /\ 1 <= pos /\ pos <= N /\ pos' - 1 = pos
    BY <2>1, <2>2, ConstantsAssumption DEF Position
  <2>4. assigned' = Prefix(order, pos) /\ Prefix(order, pos) = Prefix(order, pos' - 1)
    <3>1. assigned = Prefix(order, pos - 1)
      BY <2>1 DEF SearchInv, PathIsAssigned
    <3> QED
      BY <1>a, <2>1, <2>2, <2>3, <3>1, PrefixFacts DEF Here
  <2>5. \A k \in Position : todo'[k] \subseteq prob.domain[order[k]]
    <3>1. \A k \in Position : todo[k] \subseteq prob.domain[order[k]]
      BY <2>1 DEF SearchInv, PathInv
    <3> QED
      BY <2>1, <3>1
  <2>6. \A k \in 1 .. pos : work'[order[k]] \in prob.domain[order[k]] /\ work'[order[k]] \notin todo'[k]
    <3>1. ASSUME NEW k \in 1 .. pos - 1
          PROVE  work'[order[k]] \in prob.domain[order[k]] /\ work'[order[k]] \notin todo'[k]
      <4>1. k \in Position /\ k # pos /\ k # pos + 1
        BY <2>3, ConstantsAssumption DEF Position
      <4>2. work[order[k]] \in prob.domain[order[k]] /\ work[order[k]] \notin todo[k]
        BY <2>1 DEF SearchInv, PathInv
      <4> QED
        BY <2>1, <2>2, <4>1, <4>2
    <3>2. work'[order[pos]] \in prob.domain[order[pos]] /\ work'[order[pos]] \notin todo'[pos]
      <4>1. todo'[pos] = todo[pos] \ {v}
        BY <2>1, <2>2, <2>3, pos # pos + 1
      <4>2. work'[order[pos]] = v
        BY <2>1, <2>2 DEF Here
      <4> QED
        BY <2>2, <4>1, <4>2 DEF Here
    <3>3. \A k \in 1 .. pos : k = pos \/ k \in 1 .. pos - 1
      BY <2>3
    <3> QED
      BY <3>1, <3>2, <3>3
  <2>7. \A i \in DOMAIN prob.checks :
          CheckVars(prob.checks[i]) \subseteq Prefix(order, pos) => Holds(prob.checks[i], Written(v))
    BY <1>3, <2>1, ChecksOnPathHold
  <2>8. PathInv'
    <3>1. call \in Calls /\ call.op \in {"enumerate", "count", "nearest"}
      BY <2>1 DEF SearchInv, PathInv
    <3> QED
      BY <2>1, <2>3, <2>5, <2>6, <2>7, <3>1 DEF PathInv
  <2> QED
    BY <1>a, <2>1, <2>2, <2>4, <2>8 DEF SearchInv, PathIsAssigned, LocalInv
<1>4. ASSUME NEW v \in todo[pos], pos <= N, Reject(v) PROVE SearchInv'
  <2>1. /\ pc = "search" /\ work' = Written(v) /\ assigned' = assigned \ {Here}
        /\ UNCHANGED <<prob, order, call, pc, pos>>
        /\ todo' = [todo EXCEPT ![pos] = @ \ {v}]
    BY <1>4 DEF Reject, Tries
  <2>2. /\ pos \in Position /\ Written(v) \in Buffers(prob)
        /\ \A k \in 1 .. pos - 1 : Written(v)[order[k]] = work[order[k]]
    BY <1>4, <2>1, WriteFacts
  <2>3. assigned' = Prefix(order, pos - 1)
    <3>1. assigned = Prefix(order, pos - 1)
      BY <2>1 DEF SearchInv, PathIsAssigned
    <3> QED
      BY <1>a, <2>1, <2>2, <3>1, PrefixFacts DEF Here
  <2>4. \A k \in Position : todo'[k] \subseteq todo[k]
    BY <1>a, <2>1, <2>2 DEF TypeOK
  <2>5. 1 .. pos - 1 \subseteq Position
    BY <2>2, ConstantsAssumption DEF Position
  <2>6. \A i \in DOMAIN prob.checks :
          CheckVars(prob.checks[i]) \subseteq Prefix(order, pos - 1) => Holds(prob.checks[i], Written(v))
    BY <1>4, <2>1, ChecksAboveHold
  <2>7. PathInv'
    BY <2>1, <2>2, <2>4, <2>5, <2>6 DEF SearchInv, PathInv
  <2> QED
    BY <1>a, <2>1, <2>2, <2>3, <2>7 DEF SearchInv, PathIsAssigned, LocalInv
<1>5. CASE GiveUp
  BY <1>5, <1>a, StopPath DEF GiveUp, SearchInv
<1>6. CASE Backtrack
  BY <1>6, <1>a, ReturnPath DEF Backtrack, SearchInv
<1>7. CASE BreakOff
  BY <1>7, <1>a, ReturnPath DEF BreakOff, SearchInv
<1>8. CASE EmitValue
  BY <1>8, <1>a, ReturnPath, StopPath DEF EmitValue, SearchInv
<1>9. CASE CountValue
  BY <1>9, <1>a, ReturnPath, StopPath DEF CountValue, SearchInv
<1>10. CASE KeepNearest
  BY <1>10, <1>a, ReturnPath DEF KeepNearest, SearchInv
<1>b. pc = "local" => call.op = "min_conflicts" /\ assigned = Leaf /\ work \in Assignments(prob)
  BY DEF SearchInv, LocalInv, PathIsAssigned
<1>11. CASE LocalGiveUp \/ LocalFound \/ LocalStuck
  <2>1. pc = "local" /\ pc' = "idle" /\ UNCHANGED <<prob, order, work, assigned, call>>
    BY <1>11 DEF LocalGiveUp, LocalFound, LocalStuck, LocalReturn
  <2> QED
    BY <1>a, <1>b, <2>1 DEF SearchInv, PathIsAssigned, PathInv, LocalInv
<1>12. ASSUME NEW l \in Leaf, LocalMove(l) PROVE SearchInv'
  <2>1. pc = "local" /\ UNCHANGED <<prob, order, assigned, call, pc>>
    BY <1>12 DEF LocalMove
  <2>2. PICK v \in prob.domain[l] : work' = Repaired(l, v)
    <3>1. work[l] \in prob.domain[l]
      BY <1>b, <2>1 DEF Assignments
    <3>2. \A values \in CandidateSets(l) : values \subseteq prob.domain[l]
      BY <3>1 DEF CandidateSets
    <3> QED
      BY <1>12, <3>2 DEF LocalMove, LeastConflicts
  <2>3. work' = [work EXCEPT ![l] = v]
    BY <1>a, <2>2, StoreFacts DEF Repaired
  <2>4. work' \in Assignments(prob)
    BY <1>b, <2>1, <2>3 DEF Assignments
  <2>5. work' \in Buffers(prob)
    BY <2>4, AssignmentsAreBuffers
  <2> QED
    BY <1>a, <1>b, <2>1, <2>4, <2>5 DEF SearchInv, PathIsAssigned, PathInv, LocalInv
<1> QED
  BY <1>0, <1>1, <1>2, <1>3, <1>4, <1>5, <1>6, <1>7, <1>8, <1>9, <1>10, <1>11, <1>12
     DEF Next, Step

(* No call leaves a flag behind that would mislead the interval bounds of  *)
(* the next one: during a search exactly the leaves of the path are        *)
(* assigned, whatever was called before.                                   *)
THEOREM FlagsAreThePath == Spec => []PathIsAssigned
<1>1. SearchInv => PathIsAssigned
  BY DEF SearchInv
<1> QED
  BY <1>1, SearchInit, SearchStep, PTL DEF Spec
-----------------------------------------------------------------------------
(* enumerate: what lies ahead, and what has been returned.                 *)

\* Descending and rejecting move nothing into the part of the tree ahead.
LEMMA DescendAhead ==
  ASSUME SearchInv, NEW v \in todo[pos], pos <= N, Descend(v), NEW s \in Assignments(prob)
  PROVE  Ahead(s)' <=> Ahead(s)
<1>1. /\ pc = "search" /\ pc' = "search" /\ pos' = pos + 1 /\ work' = Written(v)
      /\ UNCHANGED order
      /\ todo' = [k \in Position |-> CASE k = pos     -> todo[k] \ {v}
                                        [] k = pos + 1 -> prob.domain[order[k]]
                                        [] OTHER       -> todo[k]]
  BY DEF Descend, Tries, problemVars
<1>2. /\ pos \in Position /\ pos \in Int /\ N \in Int /\ 1 <= pos
      /\ \A k \in Position : k \in Int /\ 1 <= k /\ k <= N
  BY <1>1, WriteFacts, ConstantsAssumption DEF Position
<1>3. /\ work'[order[pos]] = v
      /\ \A k \in 1 .. pos - 1 : work'[order[k]] = work[order[k]]
  BY <1>1, WriteFacts DEF Here
<1>4. /\ \A k \in Position : k < pos => todo'[k] = todo[k]
      /\ todo'[pos] = todo[pos] \ {v}
      /\ pos + 1 <= N => todo'[pos + 1] = prob.domain[order[pos + 1]]
  <2>1. \A k \in Position : k < pos => k # pos /\ k # pos + 1
    BY <1>2
  <2>2. pos + 1 <= N => pos + 1 \in Position
    BY <1>2 DEF Position
  <2>3. pos # pos + 1
    BY <1>2
  <2> QED
    BY <1>1, <1>2, <2>1, <2>2, <2>3
<1>5. ASSUME Ahead(s) PROVE Ahead(s)'
  <2>1. PICK k \in Position : /\ k <= pos
                              /\ \A j \in 1 .. k - 1 : s[order[j]] = work[order[j]]
                              /\ s[order[k]] \in todo[k]
    BY <1>2, <1>5 DEF Ahead
  <2>2. CASE k < pos \/ s[order[k]] # v
    <3>1. s[order[k]] \in todo'[k] /\ k <= pos'
      BY <1>1, <1>2, <1>4, <2>1, <2>2
    <3>2. \A j \in 1 .. k - 1 : s[order[j]] = work'[order[j]]
      BY <1>2, <1>3, <2>1
    <3> QED
      BY <1>1, <3>1, <3>2 DEF Ahead
  <2>3. CASE k = pos /\ s[order[k]] = v
    <3>1. \A j \in 1 .. pos : s[order[j]] = work'[order[j]]
      <4>1. \A j \in 1 .. pos : j = pos \/ j \in 1 .. pos - 1
        BY <1>2
      <4> QED
        BY <1>3, <2>1, <2>3, <4>1
    <3>2. CASE pos < N
      <4>1. pos + 1 \in Position /\ pos' - 1 = pos
        BY <1>1, <1>2, <3>2 DEF Position
      <4>2. s[order[pos + 1]] \in todo'[pos + 1]
        BY <1>2, <1>4, <3>2, <4>1, OrderFacts DEF Assignments, SearchInv, TypeOK
      <4>3. pos + 1 <= pos' /\ pos + 1 - 1 = pos
        BY <1>1, <1>2
      <4> QED
        BY <1>1, <3>1, <4>1, <4>2, <4>3 DEF Ahead
    <3>3. CASE pos = N
      <4>1. \A l \in Leaf : s[l] = work'[l]
        <5>1. \A l \in Leaf : \E m \in Position : order[m] = l
          BY OrderFacts DEF SearchInv, TypeOK
        <5> QED
          BY <3>1, <3>3, <5>1 DEF Position
      <4>2. work' \in [Leaf -> Int]
        BY <1>1, <1>2, TriedFacts DEF SearchInv
      <4>3. s = work'
        BY <4>1, <4>2 DEF Assignments
      <4> QED
        BY <1>1, <3>3, <4>3 DEF Ahead
    <3> QED
      BY <1>2, <3>2, <3>3
  <2> QED
    BY <1>2, <2>1, <2>2, <2>3
<1>6. ASSUME Ahead(s)' PROVE Ahead(s)
  <2> DEFINE here == /\ \A j \in 1 .. pos - 1 : s[order[j]] = work[order[j]]
                     /\ s[order[pos]] = v
  <2>1. CASE here
    BY <1>1, <1>2, <2>1 DEF Ahead
  <2>2. CASE pos' = N + 1 /\ s = work'
    <3>1. here
      BY <1>3, <2>2
    <3> QED
      BY <2>1, <3>1
  <2>3. CASE \E k \in Position : /\ k <= pos'
                                 /\ \A j \in 1 .. k - 1 : s[order[j]] = work'[order[j]]
                                 /\ s[order[k]] \in todo'[k]
    <3>1. PICK k \in Position : /\ k <= pos'
                                /\ \A j \in 1 .. k - 1 : s[order[j]] = work'[order[j]]
                                /\ s[order[k]] \in todo'[k]
      BY <2>3
    <3>2. CASE k <= pos
      <4>1. s[order[k]] \in todo[k]
        BY <1>2, <1>4, <3>1, <3>2
      <4>2. ASSUME NEW j \in 1 .. k - 1 PROVE s[order[j]] = work[order[j]]
        <5>1. s[order[j]] = work'[order[j]]
          BY <3>1
        <5>2. j \in 1 .. pos - 1
          BY <1>2, <3>2
        <5> QED
          BY <1>2, <1>3, <5>1, <5>2
      <4> QED
        BY <1>1, <3>2, <4>1, <4>2 DEF Ahead
    <3>3. CASE k = pos + 1
      <4>1. \A j \in 1 .. pos : s[order[j]] = work'[order[j]]
        BY <1>2, <3>1, <3>3
      <4>2. here
        BY <1>2, <1>3, <4>1
      <4> QED
        BY <2>1, <4>2
    <3> QED
      BY <1>1, <1>2, <3>1, <3>2, <3>3
  <2> QED
    BY <1>1, <1>6, <2>2, <2>3 DEF Ahead
<1> QED
  BY <1>5, <1>6

LEMMA RejectAhead ==
  ASSUME SearchInv, NEW v \in todo[pos], pos <= N, Reject(v), NEW s \in Assignments(prob)
  PROVE  /\ Ahead(s)' => Ahead(s)
         /\ Ahead(s) /\ s \in Solutions(prob) => Ahead(s)'
<1>1. /\ pc = "search" /\ UNCHANGED <<pc, pos, order>> /\ work' = Written(v)
      /\ todo' = [todo EXCEPT ![pos] = @ \ {v}]
      /\ ~(ChecksHold(v) /\ ~BoundFails(v))
  BY DEF Reject, Tries, problemVars
<1>2. /\ pos \in Position /\ pos \in Int /\ N \in Int /\ pos # N + 1
      /\ \A k \in Position : k \in Int
      /\ \A k \in 1 .. pos - 1 : work'[order[k]] = work[order[k]]
      /\ todo \in [Position -> SUBSET Int]
  <2>1. pos \in Position /\ pos \in Int /\ N \in Int /\ pos # N + 1 /\ \A k \in Position : k \in Int
    BY <1>1, WriteFacts, ConstantsAssumption DEF Position
  <2>2. \A k \in 1 .. pos - 1 : work'[order[k]] = work[order[k]]
    BY <1>1, WriteFacts
  <2>3. todo \in [Position -> SUBSET Int]
    BY DEF SearchInv, TypeOK
  <2> QED
    BY <2>1, <2>2, <2>3
<1>3. /\ \A k \in Position : k # pos => todo'[k] = todo[k]
      /\ todo'[pos] = todo[pos] \ {v}
  BY <1>1, <1>2
<1>4. ASSUME Ahead(s)' PROVE Ahead(s)
  <2>1. PICK k \in Position : /\ k <= pos
                              /\ \A j \in 1 .. k - 1 : s[order[j]] = work'[order[j]]
                              /\ s[order[k]] \in todo'[k]
    BY <1>1, <1>2, <1>4 DEF Ahead
  <2>2. s[order[k]] \in todo[k]
    BY <1>3, <2>1
  <2>3. ASSUME NEW j \in 1 .. k - 1 PROVE s[order[j]] = work[order[j]]
    <3>1. s[order[j]] = work'[order[j]]
      BY <2>1
    <3>2. j \in 1 .. pos - 1
      BY <1>2, <2>1
    <3> QED
      BY <1>2, <3>1, <3>2
  <2> QED
    BY <1>1, <2>1, <2>2, <2>3 DEF Ahead
<1>5. ASSUME Ahead(s), s \in Solutions(prob) PROVE Ahead(s)'
  <2>1. PICK k \in Position : /\ k <= pos
                              /\ \A j \in 1 .. k - 1 : s[order[j]] = work[order[j]]
                              /\ s[order[k]] \in todo[k]
    BY <1>2, <1>5 DEF Ahead
  <2>2. ~(k = pos /\ s[order[k]] = v)
    <3> SUFFICES ASSUME k = pos, s[order[k]] = v PROVE FALSE
      OBVIOUS
    <3>1. \E i \in DOMAIN prob.checks : ~Holds(prob.checks[i], s)
      BY <1>1, <2>1, RejectedIsDead DEF Here
    <3> QED
      BY <1>5, <3>1 DEF Solutions
  <2>3. s[order[k]] \in todo'[k]
    BY <1>3, <2>1, <2>2
  <2>4. \A j \in 1 .. k - 1 : s[order[j]] = work'[order[j]]
    <3>1. 1 .. k - 1 \subseteq 1 .. pos - 1
      BY <1>2, <2>1
    <3> QED
      BY <1>2, <2>1, <3>1
  <2> QED
    BY <1>1, <2>1, <2>3, <2>4 DEF Ahead
<1> QED
  BY <1>4, <1>5

\* A frame with nothing left returns: only the leaf visited is no longer ahead.
LEMMA ReturnAhead ==
  ASSUME SearchInv, pc = "search", NEW st, Return(st),
         UNCHANGED <<order, work, todo>>,
         pos = N + 1 \/ todo[pos] = {},
         NEW s
  PROVE  /\ Ahead(s)' => Ahead(s)
         /\ Ahead(s) => Ahead(s)' \/ (pos = N + 1 /\ s = work)
<1>1. /\ pos \in 1 .. N + 1 /\ N \in Nat /\ \A k \in Position : k \in Int /\ 1 <= k /\ k <= N
  BY ConstantsAssumption DEF SearchInv, TypeOK, Position
<1>2. ASSUME NEW k \in Position, k <= pos, s[order[k]] \in todo[k]
      PROVE  k <= pos - 1 /\ pos # 1
  BY <1>1, <1>2
<1>3. CASE pos = 1
  BY <1>1, <1>2, <1>3 DEF Return, Ahead
<1>4. CASE pos # 1
  <2>1. pc' = "search" /\ pos' = pos - 1 /\ pos' # N + 1
    BY <1>1, <1>4 DEF Return
  <2>2. Ahead(s)' <=> \E k \in Position : /\ k <= pos - 1
                                          /\ \A j \in 1 .. k - 1 : s[order[j]] = work[order[j]]
                                          /\ s[order[k]] \in todo[k]
    BY <2>1 DEF Ahead
  <2>3. \A k \in Position : k <= pos - 1 => k <= pos
    BY <1>1
  <2> QED
    BY <1>2, <2>2, <2>3 DEF Ahead
<1> QED
  BY <1>3, <1>4

StreamInv ==
  call.op = "enumerate" =>
    /\ Emitted \subseteq Solutions(prob)
    /\ \A i, j \in DOMAIN out : i < j => Precedes(out[i], out[j])
    /\ pc = "search" =>
         /\ \A k \in 1 .. pos - 1 : \A u \in todo[k] : TakenBefore(work[order[k]], u)
         /\ \A i \in DOMAIN out : \A s \in Assignments(prob) : Ahead(s) => Precedes(out[i], s)
    /\ NothingIsLost

\* Solutions are values of the leaves.
LEMMA SolutionsAreInts ==
  ASSUME NEW p \in Problems
  PROVE  Solutions(p) \subseteq [Leaf -> Int]
  BY ProblemFacts DEF Solutions, Assignments

\* A leaf of the search tree is a solution.
LEMMA VisitedIsSolution ==
  ASSUME SearchInv, pc = "search", pos = N + 1
  PROVE  work \in Solutions(prob)
<1>1. /\ prob \in Problems /\ order \in Bijection(Position, Leaf) /\ pos - 1 = N
      /\ work \in [Leaf -> Int]
  BY ConstantsAssumption DEF SearchInv, TypeOK
<1>2. \A l \in Leaf : work[l] \in prob.domain[l]
  <2>1. \A k \in Position : work[order[k]] \in prob.domain[order[k]]
    BY <1>1 DEF SearchInv, PathInv, Position
  <2> QED
    BY <1>1, <2>1, OrderFacts
<1>3. \A i \in DOMAIN prob.checks : Holds(prob.checks[i], work)
  <2>1. \A i \in DOMAIN prob.checks : CheckVars(prob.checks[i]) \subseteq Leaf
    BY <1>1, ConstantsAssumption DEF CheckVars, IsProblem, IsCheck
  <2>2. Prefix(order, pos - 1) = Leaf
    BY <1>1, PrefixFacts
  <2> QED
    BY <2>1, <2>2 DEF SearchInv, PathInv
<1> QED
  BY <1>1, <1>2, <1>3 DEF Solutions, Assignments

\* A call begins with every solution ahead, or ends at once because there is none.
LEMMA BeginAhead ==
  ASSUME SearchInv, NEW c \in Calls, Begin(c)
  PROVE  /\ pc' = "search" => \A s \in Solutions(prob) : Ahead(s)'
         /\ pc' = "idle" /\ (c.op # "nearest" => c.limit > 0) => Solutions(prob) = {}
<1>1. /\ call' = c /\ pos' = 1 /\ UNCHANGED <<prob, order, work>>
      /\ todo' = [k \in Position |-> prob.domain[order[k]]]
      /\ pc' = "search" \/ (pc' = "idle" /\ ((c.op # "nearest" => c.limit > 0) => ~RootOk(prob, work)))
  BY DEF Begin, problemVars
<1>2. /\ prob \in Problems /\ order \in Bijection(Position, Leaf) /\ work \in Buffers(prob)
      /\ work \in [Leaf -> Int]
  BY DEF SearchInv, TypeOK
<1>3. 1 .. pos' - 1 = {}
  BY <1>1
<1>4. ASSUME pc' = "search", NEW s \in Solutions(prob) PROVE Ahead(s)'
  <2>1. CASE N = 0
    <3>1. s \in [Leaf -> UNION {prob.domain[l] : l \in Leaf}] /\ Leaf = {}
      BY <2>1 DEF Solutions, Assignments, Leaf
    <3>2. s = work
      BY <1>2, <3>1
    <3> QED
      BY <1>1, <1>4, <2>1, <3>2 DEF Ahead
  <2>2. CASE N # 0
    <3>1. 1 \in Position /\ 1 .. 1 - 1 = {}
      BY <2>2, ConstantsAssumption DEF Position
    <3>2. s[order[1]] \in prob.domain[order[1]]
      BY <1>2, <3>1, OrderFacts DEF Solutions, Assignments
    <3> QED
      BY <1>1, <1>4, <3>1, <3>2 DEF Ahead
  <2> QED
    BY <2>1, <2>2
<1>5. ASSUME pc' = "idle", c.op # "nearest" => c.limit > 0, NEW s \in Solutions(prob) PROVE FALSE
  <2>1. PICK i \in RootChecks(prob) : ~Holds(prob.checks[i], work)
    BY <1>1, <1>5 DEF RootOk
  <2>2. i \in DOMAIN prob.checks /\ CheckVars(prob.checks[i]) = {}
    BY <2>1 DEF RootChecks
  <2>3. s \in Buffers(prob)
    BY AssignmentsAreBuffers DEF Solutions
  <2>4. ~Holds(prob.checks[i], s)
    BY <1>2, <2>1, <2>2, <2>3, ChecksAssumption DEF HonestChecks
  <2> QED
    BY <2>2, <2>4 DEF Solutions
<1> QED
  BY <1>4, <1>5

\* Nothing has been lost when a call begins.
LEMMA BeginStream ==
  ASSUME SearchInv, NEW c \in Calls, Begin(c)
  PROVE  StreamInv'
<1>1. SUFFICES ASSUME c.op = "enumerate" PROVE StreamInv'
  BY DEF Begin, StreamInv
<1>2. /\ out' = <<>> /\ call' = c /\ pos' = 1 /\ UNCHANGED <<prob, order, work>>
      /\ todo' = [k \in Position |-> prob.domain[order[k]]]
      /\ pc' \in {"search", "idle"}
  BY <1>1 DEF Begin, problemVars
<1>3. DOMAIN out' = {} /\ Emitted' = {} /\ 1 .. pos' - 1 = {}
  BY <1>2 DEF Emitted
<1>4. NothingIsLost'
  <2>1. pc' = "search" => \A s \in Solutions(prob) : Ahead(s)'
    BY BeginAhead
  <2>2. pc' = "idle" /\ c.limit > 0 => Solutions(prob) = {}
    BY BeginAhead
  <2> QED
    BY <1>2, <2>1, <2>2 DEF NothingIsLost
<1> QED
  BY <1>2, <1>3, <1>4 DEF StreamInv

\* A step of the loop at pos keeps what was returned apart from what lies ahead.
LEMMA TryStream ==
  ASSUME SearchInv, SearchInv', StreamInv, NEW v \in todo[pos], pos <= N, Descend(v) \/ Reject(v)
  PROVE  StreamInv'
<1>1. SUFFICES ASSUME call.op = "enumerate" PROVE StreamInv'
  BY DEF Descend, Reject, StreamInv
<1>2. /\ UNCHANGED <<prob, order, call, out>> /\ pc = "search" /\ pc' = "search"
      /\ work' = Written(v) /\ v \in NextValues
  BY DEF Descend, Reject, Tries, problemVars, resultVars
<1>3. \A s \in Assignments(prob) : Ahead(s)' => Ahead(s)
  BY DescendAhead, RejectAhead
<1>4. \A s \in Solutions(prob) : Ahead(s) => Ahead(s)'
  BY DescendAhead, RejectAhead DEF Solutions
<1>5. /\ pos \in Position /\ pos \in Int /\ N \in Int /\ todo \in [Position -> SUBSET Int] /\ v \in Int
      /\ Written(v)[Here] = v
      /\ \A k \in 1 .. pos - 1 : Written(v)[order[k]] = work[order[k]]
  <2>1. todo \in [Position -> SUBSET Int]
    BY DEF SearchInv, TypeOK
  <2>2. pos \in Position /\ Written(v)[Here] = v
    BY <1>2, WriteFacts
  <2>3. \A k \in 1 .. pos - 1 : Written(v)[order[k]] = work[order[k]]
    BY <1>2, WriteFacts
  <2> QED
    BY <2>1, <2>2, <2>3, ConstantsAssumption DEF Position
<1>6. \A k \in 1 .. pos' - 1 : \A u \in todo'[k] : TakenBefore(work'[order[k]], u)
  <2>1. \A k \in 1 .. pos - 1 : \A u \in todo[k] : TakenBefore(work[order[k]], u)
    BY <1>1, <1>2 DEF StreamInv
  <2>2. ASSUME NEW k \in 1 .. pos - 1, NEW u \in todo'[k] PROVE TakenBefore(work'[order[k]], u)
    <3>1. k \in Position /\ k # pos /\ k # pos + 1
      BY <1>5 DEF Position
    <3>2. todo'[k] = todo[k]
      BY <1>5, <3>1 DEF Descend, Reject
    <3> QED
      BY <1>2, <1>5, <2>1, <2>2, <3>2
  <2>3. CASE Reject(v)
    BY <2>2, <2>3 DEF Reject
  <2>4. CASE Descend(v)
    <3>1. pos' - 1 = pos
      BY <1>5, <2>4 DEF Descend
    <3>2. todo'[pos] = todo[pos] \ {v}
      BY <1>5, <2>4, pos # pos + 1 DEF Descend
    <3>3. \A u \in todo[pos] \ {v} : TakenBefore(v, u)
      BY <1>1, <1>2, <1>5 DEF NextValues, TakenBefore
    <3>4. work'[order[pos]] = v
      BY <1>2, <1>5 DEF Here
    <3>5. \A k \in 1 .. pos : k = pos \/ k \in 1 .. pos - 1
      BY <1>5
    <3>6. \A u \in todo'[pos] : TakenBefore(work'[order[pos]], u)
      BY <3>2, <3>3, <3>4
    <3> QED
      BY <2>2, <3>1, <3>5, <3>6
  <2> QED
    BY <2>3, <2>4
<1>7. NothingIsLost'
  <2>1. \A s \in Solutions(prob) : s \in Emitted \/ Ahead(s)
    BY <1>1, <1>2 DEF StreamInv, NothingIsLost
  <2> QED
    BY <1>2, <1>4, <2>1 DEF NothingIsLost, Emitted
<1>8. \A i \in DOMAIN out : \A s \in Assignments(prob) : Ahead(s)' => Precedes(out[i], s)
  BY <1>1, <1>2, <1>3 DEF StreamInv
<1> QED
  BY <1>1, <1>2, <1>6, <1>7, <1>8 DEF StreamInv, Emitted, Precedes, TakenBefore

\* The path of a frame is at least as long as that of the frame it returns to.
LEMMA ReturnShortens ==
  ASSUME SearchInv, pc = "search", NEW st, Return(st), pc' = "search"
  PROVE  pos' = pos - 1 /\ 1 .. pos' - 1 \subseteq 1 .. pos - 1
<1>1. pos \in Int
  BY DEF SearchInv, TypeOK
<1>2. pos' = pos - 1
  BY DEF Return
<1>3. 1 .. (pos - 1) - 1 \subseteq 1 .. pos - 1
  BY <1>1
<1> QED
  BY <1>2, <1>3

\* A solution returned comes after those before it and before those to come.
LEMMA EmitStream ==
  ASSUME SearchInv, StreamInv, EmitValue
  PROVE  StreamInv'
<1>1. /\ call.op = "enumerate" /\ pc = "search" /\ pos = N + 1
      /\ UNCHANGED <<prob, order, work, call, todo>> /\ out' = Append(out, work)
      /\ Return(Visited) \/ Stop(Visited)
  BY DEF EmitValue, problemVars
<1>2. /\ work \in Solutions(prob) /\ work \in Assignments(prob) /\ Ahead(work)
  BY <1>1, VisitedIsSolution DEF Solutions, Ahead
<1>3. /\ Len(out) \in Nat /\ DOMAIN out = 1 .. Len(out) /\ DOMAIN out' = 1 .. Len(out) + 1
      /\ out'[Len(out) + 1] = work
      /\ \A i \in DOMAIN out : out'[i] = out[i]
  <2>1. out \in Seq([Leaf -> Int]) /\ work \in [Leaf -> Int]
    BY DEF SearchInv, TypeOK
  <2> QED
    BY <1>1, <2>1
<1>4. \A i \in DOMAIN out' : i \in DOMAIN out \/ i = Len(out) + 1
  BY <1>3
<1>5. Emitted' = Emitted \cup {work}
  <2>1. Len(out) + 1 \in DOMAIN out' /\ \A i \in DOMAIN out : i \in DOMAIN out'
    BY <1>3
  <2> QED
    BY <1>3, <1>4, <2>1 DEF Emitted
<1>6. \A i \in DOMAIN out : \A s \in Assignments(prob) : Ahead(s) => Precedes(out[i], s)
  BY <1>1 DEF StreamInv
<1>7. \A k \in 1 .. pos - 1 : \A u \in todo[k] : TakenBefore(work[order[k]], u)
  BY <1>1 DEF StreamInv
<1>8. \A i, j \in DOMAIN out' : i < j => Precedes(out'[i], out'[j])
  <2> SUFFICES ASSUME NEW i \in DOMAIN out', NEW j \in DOMAIN out', i < j
               PROVE  Precedes(out'[i], out'[j])
    OBVIOUS
  <2>1. i \in DOMAIN out
    BY <1>3
  <2>2. CASE j \in DOMAIN out
    BY <1>1, <1>3, <2>1, <2>2 DEF StreamInv
  <2>3. CASE j = Len(out) + 1
    BY <1>2, <1>3, <1>6, <2>1, <2>3
  <2> QED
    BY <1>4, <2>2, <2>3
<1>9. CASE Stop(Visited)
  <2>1. pc' = "idle" /\ stats'.exhausted = FALSE
    BY <1>9 DEF Stop, Visited, SearchInv, TypeOK
  <2>2. NothingIsLost'
    BY <2>1 DEF NothingIsLost
  <2> QED
    BY <1>1, <1>2, <1>5, <1>8, <2>1, <2>2 DEF StreamInv, Precedes, TakenBefore
<1>10. CASE Return(Visited)
  <2>1. \A s : (Ahead(s)' => Ahead(s)) /\ (Ahead(s) => Ahead(s)' \/ s = work)
    BY <1>1, <1>10, ReturnAhead
  <2>2. pc' = "search" => pos' = N /\ 1 .. pos' - 1 \subseteq 1 .. pos - 1
    <3>1. pos - 1 = N
      BY <1>1, ConstantsAssumption
    <3>2. ASSUME pc' = "search" PROVE pos' = pos - 1 /\ 1 .. pos' - 1 \subseteq 1 .. pos - 1
      BY <1>1, <1>10, <3>2, ReturnShortens
    <3> QED
      BY <3>1, <3>2
  <2>3. ASSUME NEW s \in Assignments(prob), Ahead(s)' PROVE Precedes(work, s)
    <3>1. pc' = "search" /\ pos' = N /\ N # N + 1 /\ pos - 1 = N
      BY <1>1, <2>2, <2>3, ConstantsAssumption DEF Ahead
    <3>2. PICK k \in Position : /\ \A j \in 1 .. k - 1 : s[order[j]] = work[order[j]]
                                /\ s[order[k]] \in todo[k]
      BY <1>1, <2>3, <3>1 DEF Ahead
    <3>3. TakenBefore(work[order[k]], s[order[k]])
      BY <1>7, <3>1, <3>2 DEF Position
    <3> QED
      BY <3>2, <3>3 DEF Precedes
  <2>4. \A i \in DOMAIN out' : \A s \in Assignments(prob) : Ahead(s)' => Precedes(out'[i], s)
    BY <1>3, <1>4, <1>6, <2>1, <2>3
  <2>5. pc' = "search" => \A k \in 1 .. pos' - 1 : \A u \in todo[k] : TakenBefore(work[order[k]], u)
    BY <1>7, <2>2
  <2>6. NothingIsLost'
    <3>1. \A s \in Solutions(prob) : s \in Emitted \/ Ahead(s)
      BY <1>1 DEF StreamInv, NothingIsLost
    <3>2. \A s \in Solutions(prob) : s \in Emitted' \/ Ahead(s)'
      BY <1>5, <2>1, <3>1
    <3> QED
      BY <1>1, <3>2 DEF NothingIsLost
  <2> QED
    BY <1>1, <1>2, <1>5, <1>8, <2>4, <2>5, <2>6 DEF StreamInv, Precedes, TakenBefore
<1> QED
  BY <1>1, <1>9, <1>10

\* A loop without values returns: what was ahead still is.
LEMMA BacktrackStream ==
  ASSUME SearchInv, StreamInv, Backtrack
  PROVE  StreamInv'
<1>1. SUFFICES ASSUME call.op = "enumerate" PROVE StreamInv'
  BY DEF Backtrack, StreamInv
<1>2. /\ pc = "search" /\ pos <= N /\ todo[pos] = {}
      /\ Return([stats EXCEPT !.backtracks = @ + 1])
      /\ UNCHANGED <<prob, order, work, call, todo, out>>
  BY DEF Backtrack, problemVars, resultVars
<1>3. pos # N + 1
  BY <1>2, ConstantsAssumption DEF SearchInv, TypeOK
<1>4. \A s : Ahead(s)' <=> Ahead(s)
  BY <1>2, <1>3, ReturnAhead
<1>5. pc' = "search" => 1 .. pos' - 1 \subseteq 1 .. pos - 1
  BY <1>2, ReturnShortens
<1>6. \A k \in 1 .. pos - 1 : \A u \in todo[k] : TakenBefore(work[order[k]], u)
  BY <1>1, <1>2 DEF StreamInv
<1>7. pc' = "search" => \A k \in 1 .. pos' - 1 : \A u \in todo[k] : TakenBefore(work[order[k]], u)
  BY <1>5, <1>6
<1>8. NothingIsLost'
  <2>1. \A s \in Solutions(prob) : s \in Emitted \/ Ahead(s)
    BY <1>1, <1>2 DEF StreamInv, NothingIsLost
  <2> QED
    BY <1>2, <1>4, <2>1 DEF NothingIsLost, Emitted
<1>9. \A i \in DOMAIN out : \A s \in Assignments(prob) : Ahead(s)' => Precedes(out[i], s)
  BY <1>1, <1>2, <1>4 DEF StreamInv
<1> QED
  BY <1>1, <1>2, <1>7, <1>8, <1>9 DEF StreamInv, Emitted, Precedes, TakenBefore

LEMMA StreamStep == SearchInv /\ SearchInv' /\ StreamInv /\ [Next]_vars => StreamInv'
<1> SUFFICES ASSUME SearchInv, SearchInv', StreamInv, [Next]_vars PROVE StreamInv'
  OBVIOUS
<1> USE DEF problemVars, searchVars, resultVars
<1>0. CASE UNCHANGED vars
  BY <1>0 DEF vars, StreamInv, NothingIsLost, Emitted, Precedes, TakenBefore, Ahead
<1>1. ASSUME NEW c \in Calls, Begin(c) PROVE StreamInv'
  BY <1>1, BeginStream
<1>2. ASSUME NEW c \in Calls, BeginLocal(c) PROVE StreamInv'
  BY <1>2 DEF BeginLocal, StreamInv
<1>3. ASSUME pos <= N, NEW v \in todo[pos], Descend(v) \/ Reject(v) PROVE StreamInv'
  BY <1>3, TryStream
<1>4. CASE GiveUp
  <2>1. pc' = "idle" /\ stats'.exhausted = FALSE
    BY <1>4 DEF GiveUp, Stop, SearchInv, TypeOK
  <2>2. NothingIsLost'
    BY <2>1 DEF NothingIsLost
  <2>3. UNCHANGED <<prob, order, call, out>>
    BY <1>4 DEF GiveUp
  <2> QED
    BY <2>1, <2>2, <2>3 DEF StreamInv, Emitted, Precedes, TakenBefore
<1>5. CASE Backtrack
  BY <1>5, BacktrackStream
<1>6. CASE EmitValue
  BY <1>6, EmitStream
<1>7. CASE BreakOff \/ CountValue \/ KeepNearest
  <2>1. call'.op # "enumerate"
    BY <1>7 DEF BreakOff, CutOff, CountValue, KeepNearest
  <2> QED
    BY <2>1 DEF StreamInv
<1>8. CASE LocalGiveUp \/ LocalFound \/ LocalStuck \/ \E l \in Leaf : LocalMove(l)
  <2>1. pc = "local" /\ call' = call
    BY <1>8 DEF LocalGiveUp, LocalFound, LocalStuck, LocalMove, LocalReturn
  <2> QED
    BY <2>1 DEF StreamInv, SearchInv, LocalInv
<1> QED
  BY <1>0, <1>1, <1>2, <1>3, <1>4, <1>5, <1>6, <1>7, <1>8 DEF Next, Step

LEMMA StreamInit == Init => StreamInv
  BY DEF Init, StreamInv

LEMMA StreamAlways == Spec => [](SearchInv /\ StreamInv)
<1>1. Init => SearchInv /\ StreamInv
  BY SearchInit, StreamInit
<1>2. SearchInv /\ StreamInv /\ [Next]_vars => (SearchInv /\ StreamInv)'
  BY SearchStep, StreamStep
<1> QED
  BY <1>1, <1>2, PTL DEF Spec

(* Completeness of enumerate: whatever the domains, the search order, the  *)
(* pruning option, the budget and the earlier calls, a solution is either  *)
(* returned or still ahead of the search; when it says `exhausted', all    *)
(* have been returned.                                                     *)
THEOREM EnumerationIsComplete == Spec => []NothingIsLost
<1>1. SearchInv /\ StreamInv => NothingIsLost
  BY DEF StreamInv, NothingIsLost
<1> QED
  BY <1>1, StreamAlways, PTL

(* Soundness of enumerate: it returns solutions only, each one once, in    *)
(* the lexicographic order of the search unless values are shuffled.       *)
THEOREM EnumerationIsSound == Spec => []EachSolutionOnce
<1>1. SearchInv /\ StreamInv => EachSolutionOnce
  BY DEF StreamInv, EachSolutionOnce
<1> QED
  BY <1>1, StreamAlways, PTL
-----------------------------------------------------------------------------
(* min_conflicts.                                                          *)

LEMMA RepairStep == SearchInv /\ RepairIsSolution /\ [Next]_vars => RepairIsSolution'
<1> SUFFICES ASSUME SearchInv, RepairIsSolution, [Next]_vars PROVE RepairIsSolution'
  OBVIOUS
<1> USE DEF problemVars, searchVars, resultVars
<1>0. CASE UNCHANGED vars
  BY <1>0 DEF vars, RepairIsSolution
<1>1. ASSUME NEW c \in Calls, Begin(c) PROVE RepairIsSolution'
  BY <1>1 DEF Begin, RepairIsSolution
<1>2. ASSUME NEW c \in Calls, BeginLocal(c) PROVE RepairIsSolution'
  BY <1>2 DEF BeginLocal, RepairIsSolution
<1>3. ASSUME NEW v, Descend(v) \/ Reject(v) PROVE RepairIsSolution'
  BY <1>3 DEF Descend, Reject, RepairIsSolution
<1>4. CASE GiveUp \/ Backtrack \/ BreakOff \/ EmitValue \/ CountValue
  BY <1>4 DEF GiveUp, Backtrack, BreakOff, EmitValue, CountValue, RepairIsSolution
<1>5. CASE KeepNearest
  BY <1>5 DEF KeepNearest, RepairIsSolution
<1>6. CASE LocalGiveUp \/ LocalStuck
  BY <1>6 DEF LocalGiveUp, LocalStuck, LocalReturn, RepairIsSolution
<1>7. CASE LocalFound
  <2>1. work \in Assignments(prob) /\ Violated = {}
    BY <1>7 DEF LocalFound, SearchInv, LocalInv
  <2>2. work \in Solutions(prob)
    BY <2>1 DEF Violated, Solutions
  <2> QED
    BY <1>7, <2>2 DEF LocalFound, LocalReturn, RepairIsSolution
<1>8. ASSUME NEW l \in Leaf, LocalMove(l) PROVE RepairIsSolution'
  BY <1>8 DEF LocalMove, RepairIsSolution
<1> QED
  BY <1>0, <1>1, <1>2, <1>3, <1>4, <1>5, <1>6, <1>7, <1>8 DEF Next, Step

(* Soundness of min_conflicts: what it returns satisfies every check and   *)
(* takes its values from the domains, even those that were only sampled.   *)
THEOREM RepairIsSound == Spec => []RepairIsSolution
<1>1. Init => RepairIsSolution
  BY DEF Init, RepairIsSolution
<1> QED
  BY <1>1, SearchInit, SearchStep, RepairStep, PTL DEF Spec

\* A move of leaf l changes no verdict but those of the checks that read l.
LEMMA RepairFacts ==
  ASSUME SearchInv, pc = "local", NEW l \in Leaf, NEW v \in prob.domain[l]
  PROVE  /\ Repaired(l, v) \in Assignments(prob)
         /\ \A i \in DOMAIN prob.checks :
              l \notin CheckVars(prob.checks[i]) =>
                (Holds(prob.checks[i], Repaired(l, v)) <=> Holds(prob.checks[i], work))
         /\ Repaired(l, work[l]) = work
<1>1. prob \in Problems /\ work \in Assignments(prob) /\ work \in [Leaf -> Int]
  BY DEF SearchInv, TypeOK, LocalInv
<1>2. Repaired(l, v) = [work EXCEPT ![l] = v] /\ Repaired(l, work[l]) = [work EXCEPT ![l] = work[l]]
  BY <1>1, StoreFacts DEF Repaired, Assignments
<1>3. Repaired(l, v) \in Assignments(prob)
  BY <1>1, <1>2 DEF Assignments
<1>4. ASSUME NEW i \in DOMAIN prob.checks, l \notin CheckVars(prob.checks[i])
      PROVE  Holds(prob.checks[i], Repaired(l, v)) <=> Holds(prob.checks[i], work)
  <2>1. Repaired(l, v) \in Buffers(prob) /\ work \in Buffers(prob)
    BY <1>1, <1>3, AssignmentsAreBuffers
  <2>2. CheckVars(prob.checks[i]) \subseteq Leaf
    BY <1>1, ConstantsAssumption DEF CheckVars, IsProblem, IsCheck
  <2>3. \A m \in CheckVars(prob.checks[i]) : Repaired(l, v)[m] = work[m]
    BY <1>1, <1>2, <1>4, <2>2
  <2> QED
    BY <1>1, <2>1, <2>3, ChecksAssumption DEF HonestChecks
<1> QED
  BY <1>1, <1>2, <1>3, <1>4

\* The checks that read the leaf are those counted; the others keep their verdict.
LEMMA MoveNeverWorsens ==
  ASSUME SearchInv, NEW l \in Leaf, LocalMove(l), call.explore = {FALSE}
  PROVE  Cardinality(Violated') <= Cardinality(Violated)
<1>1. pc = "local" /\ prob' = prob /\ prob \in Problems /\ work \in Assignments(prob)
  BY DEF LocalMove, problemVars, SearchInv, TypeOK, LocalInv
<1>2. PICK values \in CandidateSets(l) : \E v \in LeastConflicts(l, values) : work' = Repaired(l, v)
  BY DEF LocalMove
<1>3. PICK v \in LeastConflicts(l, values) : work' = Repaired(l, v)
  BY <1>2
<1>4. work[l] \in values /\ values \subseteq prob.domain[l]
  <2>1. work[l] \in prob.domain[l]
    BY <1>1 DEF Assignments
  <2> QED
    BY <2>1 DEF CandidateSets
<1>5. v \in prob.domain[l] /\ Conflicts(l, v) <= Conflicts(l, work[l])
  BY <1>4 DEF LeastConflicts
<1> DEFINE C == DOMAIN prob.checks
           R == {i \in C : l \in CheckVars(prob.checks[i])}
           Old == {i \in R : ~Holds(prob.checks[i], work)}
           New == {i \in R : ~Holds(prob.checks[i], work')}
           Rest == {i \in C \ R : ~Holds(prob.checks[i], work)}
<1>6. IsFiniteSet(C)
  BY <1>1, ConstantsAssumption DEF IsProblem
<1>7. IsFiniteSet(Old) /\ IsFiniteSet(New) /\ IsFiniteSet(Rest)
  <2>1. Old \in SUBSET C /\ New \in SUBSET C /\ Rest \in SUBSET C
    OBVIOUS
  <2> HIDE DEF C, Old, New, Rest
  <2> QED
    BY <1>6, <2>1, FS_Subset
<1>8. Violated = Old \cup Rest
  BY DEF Violated
<1>9. Violated' = New \cup Rest
  <2>1. \A i \in C \ R : Holds(prob.checks[i], work') <=> Holds(prob.checks[i], work)
    BY <1>1, <1>3, <1>5, RepairFacts
  <2>2. Violated' = {i \in C : ~Holds(prob.checks[i], work')}
    BY <1>1 DEF Violated
  <2> QED
    BY <2>1, <2>2
<1>10. Cardinality(New) <= Cardinality(Old)
  <2>1. Conflicts(l, v) = Cardinality(New)
    <3>1. {i \in DOMAIN prob.checks :
             l \in CheckVars(prob.checks[i]) /\ ~Holds(prob.checks[i], Repaired(l, v))} = New
      BY <1>3
    <3> QED
      BY <3>1 DEF Conflicts
  <2>2. Conflicts(l, work[l]) = Cardinality(Old)
    <3>1. Repaired(l, work[l]) = work
      BY <1>1, <1>5, RepairFacts
    <3>2. {i \in DOMAIN prob.checks :
             l \in CheckVars(prob.checks[i]) /\ ~Holds(prob.checks[i], Repaired(l, work[l]))} = Old
      BY <3>1
    <3> QED
      BY <3>2 DEF Conflicts
  <2> QED
    BY <1>5, <2>1, <2>2
<1>11. Old \cap Rest = {} /\ New \cap Rest = {}
  OBVIOUS
<1> HIDE DEF Old, New, Rest
<1>12. /\ Cardinality(Old \cup Rest) = Cardinality(Old) + Cardinality(Rest)
       /\ Cardinality(New \cup Rest) = Cardinality(New) + Cardinality(Rest)
       /\ Cardinality(Old) \in Nat /\ Cardinality(New) \in Nat /\ Cardinality(Rest) \in Nat
  <2>1. Cardinality(Old) \in Nat /\ Cardinality(New) \in Nat /\ Cardinality(Rest) \in Nat
    BY <1>7, FS_CardinalityType
  <2>2. Cardinality(Old \cap Rest) = 0 /\ Cardinality(New \cap Rest) = 0
    <3>1. Cardinality({}) = 0
      BY FS_EmptySet
    <3> QED
      BY <1>11, <3>1, Zenon
  <2>3. Cardinality(Old \cup Rest) = Cardinality(Old) + Cardinality(Rest) - Cardinality(Old \cap Rest)
    BY <1>7, FS_Union
  <2>4. Cardinality(New \cup Rest) = Cardinality(New) + Cardinality(Rest) - Cardinality(New \cap Rest)
    BY <1>7, FS_Union
  <2> QED
    BY <2>1, <2>2, <2>3, <2>4
<1> QED
  BY <1>8, <1>9, <1>10, <1>12

(* A step of local repair without noise never raises the number of         *)
(* violated checks, sampled domains included: the value a leaf has is      *)
(* always among those scanned.                                             *)
THEOREM GreedyRepair == Spec => RepairNeverWorsens
<1> DEFINE Greedy == pc = "local" /\ call.explore = {FALSE}
           NoWorse == Cardinality(Violated') <= Cardinality(Violated)
<1>1. SearchInv /\ [Next]_vars => [Greedy => NoWorse]_vars
  <2> SUFFICES ASSUME SearchInv, Next, Greedy PROVE NoWorse
    OBVIOUS
  <2>1. CASE \E l \in Leaf : LocalMove(l)
    BY <2>1, MoveNeverWorsens
  <2>2. CASE LocalGiveUp \/ LocalFound \/ LocalStuck
    <3>1. prob' = prob /\ work' = work
      BY <2>2 DEF LocalGiveUp, LocalFound, LocalStuck, LocalReturn, problemVars
    <3>2. Violated' = Violated
      BY <3>1 DEF Violated
    <3>3. IsFiniteSet(DOMAIN prob.checks) /\ Violated \in SUBSET (DOMAIN prob.checks)
      BY ConstantsAssumption DEF SearchInv, TypeOK, IsProblem, Violated
    <3>4. Cardinality(Violated) \in Nat
      BY <3>3, FS_Subset, FS_CardinalityType
    <3> QED
      BY <3>2, <3>4
  <2>3. \/ \E l \in Leaf : LocalMove(l)
        \/ LocalGiveUp \/ LocalFound \/ LocalStuck
    BY DEF Next, Step, Begin, BeginLocal, Descend, Reject, Tries, GiveUp, Backtrack, BreakOff,
           EmitValue, CountValue, KeepNearest
  <2> QED
    BY <2>1, <2>2, <2>3
<1>2. [][Greedy => NoWorse]_vars => RepairNeverWorsens
  BY DEF RepairNeverWorsens
<1> QED
  BY <1>1, <1>2, SearchInit, SearchStep, PTL DEF Spec
-----------------------------------------------------------------------------
(* Budgets.                                                                *)

\* During a search there is budget left, and room for one more answer.
BudgetInv ==
  /\ pc = "search" => ~stats.exhausted /\ stats.nodes <= prob.maxNodes
  /\ pc = "search" /\ call.op = "enumerate" => Len(out) < call.limit
  /\ pc = "search" /\ call.op = "count" => tally < call.limit

LEMMA LimitFacts ==
  ASSUME NEW c \in Calls, c.op \in {"enumerate", "count"}
  PROVE  c.limit \in Nat
<1>1. IsCall(c)
  BY ConstantsAssumption
<1> QED
  BY <1>1 DEF IsCall

\* Leaving one frame or all of them, having counted no assignment.
LEMMA LeaveBudget ==
  ASSUME SearchInv, NEW st \in Stats, st.nodes = stats.nodes
  PROVE  /\ Return(st) => \/ pc' = "idle" /\ stats'.exhausted /\ stats'.nodes = stats.nodes
                          \/ pc' = pc /\ stats' = st
         /\ Stop(st) => pc' = "idle" /\ ~stats'.exhausted /\ stats'.nodes = stats.nodes
<1>1. [st EXCEPT !.exhausted = TRUE].exhausted /\ [st EXCEPT !.exhausted = TRUE].nodes = stats.nodes
  BY DEF Stats
<1>2. [st EXCEPT !.exhausted = FALSE].exhausted = FALSE /\ [st EXCEPT !.exhausted = FALSE].nodes = stats.nodes
  BY DEF Stats
<1> QED
  BY <1>1, <1>2 DEF Return, Stop

LEMMA BudgetStep ==
  SearchInv /\ BudgetInv /\ StopsForCause /\ [Next]_vars => (BudgetInv /\ StopsForCause)'
<1> SUFFICES ASSUME SearchInv, BudgetInv, StopsForCause, [Next]_vars PROVE (BudgetInv /\ StopsForCause)'
  OBVIOUS
<1> USE DEF problemVars, searchVars, resultVars
<1>a. /\ prob \in Problems /\ prob.maxNodes \in Nat /\ stats \in Stats /\ stats.nodes \in Nat
      /\ out \in Seq([Leaf -> Int]) /\ Len(out) \in Nat /\ tally \in Nat
  BY ConstantsAssumption DEF SearchInv, TypeOK, Stats, IsProblem
<1>b. /\ [stats EXCEPT !.backtracks = @ + 1] \in Stats
      /\ [stats EXCEPT !.backtracks = @ + 1].nodes = stats.nodes
      /\ [stats EXCEPT !.backtracks = @ + 1].exhausted = stats.exhausted
  BY <1>a DEF Stats
<1>c. /\ Visited \in Stats /\ Visited.nodes = stats.nodes /\ Visited.exhausted = stats.exhausted
  <2>1. stats.solutions \in Nat /\ stats.solutions + 1 \in Nat
    BY <1>a DEF Stats
  <2> QED
    BY <1>a, <2>1 DEF Stats, Visited
<1>0. CASE UNCHANGED vars
  BY <1>0 DEF vars, BudgetInv, StopsForCause
<1>1. ASSUME NEW c \in Calls, Begin(c) PROVE (BudgetInv /\ StopsForCause)'
  <2>1. stats'.nodes = 0 /\ (pc' = "search" => ~stats'.exhausted) /\ (pc' = "idle" => stats'.exhausted)
    BY <1>1 DEF Begin, NoStats
  <2>2. Len(out') = 0 /\ tally' = 0 /\ call' = c /\ prob' = prob /\ pc' \in {"search", "idle"}
        /\ (pc' = "search" /\ c.op # "nearest" => c.limit > 0)
    BY <1>1 DEF Begin
  <2> QED
    BY <1>a, <2>1, <2>2 DEF BudgetInv, StopsForCause
<1>2. ASSUME NEW c \in Calls, BeginLocal(c) PROVE (BudgetInv /\ StopsForCause)'
  BY <1>2 DEF BeginLocal, BudgetInv, StopsForCause
<1>3. ASSUME NEW v, Descend(v) \/ Reject(v) PROVE (BudgetInv /\ StopsForCause)'
  <2>1. /\ pc = "search" /\ pc' = pc /\ UNCHANGED <<prob, call, out, tally>>
        /\ stats.nodes < prob.maxNodes
    BY <1>3 DEF Descend, Reject, Tries
  <2>2. stats'.nodes = stats.nodes + 1 /\ stats'.exhausted = stats.exhausted
    BY <1>3, <1>a DEF Descend, Reject, Stats
  <2> QED
    BY <1>a, <2>1, <2>2 DEF BudgetInv, StopsForCause
<1>4. CASE GiveUp
  <2>1. pc = "search" /\ UNCHANGED <<prob, call, out, tally>> /\ stats.nodes = prob.maxNodes
    BY <1>4, <1>a DEF GiveUp, BudgetInv
  <2>2. pc' = "idle" /\ stats'.nodes = stats.nodes
    BY <1>4, <1>a, LeaveBudget DEF GiveUp
  <2> QED
    BY <1>a, <2>1, <2>2 DEF BudgetInv, StopsForCause
<1>5. CASE Backtrack
  <2>1. pc = "search" /\ UNCHANGED <<prob, call, out, tally>>
    BY <1>5 DEF Backtrack
  <2>2. /\ stats'.nodes = stats.nodes
        /\ (pc' = "idle" /\ stats'.exhausted) \/ (pc' = pc /\ stats'.exhausted = stats.exhausted)
    BY <1>5, <1>b, LeaveBudget DEF Backtrack
  <2> QED
    BY <1>a, <2>1, <2>2 DEF BudgetInv, StopsForCause
<1>6. CASE BreakOff
  <2> DEFINE st == [stats EXCEPT !.prunes = @ + 1, !.backtracks = @ + 1]
  <2>1. pc = "search" /\ UNCHANGED <<prob, call, out, tally>> /\ Return(st)
    BY <1>6 DEF BreakOff
  <2>2. st \in Stats /\ st.nodes = stats.nodes /\ st.exhausted = stats.exhausted
    <3>1. st \in Stats
      BY <1>a, PruneStats
    <3> QED
      BY <1>a, <3>1 DEF Stats
  <2> HIDE DEF st
  <2>3. /\ stats'.nodes = stats.nodes
        /\ (pc' = "idle" /\ stats'.exhausted) \/ (pc' = pc /\ stats'.exhausted = stats.exhausted)
    BY <2>1, <2>2, LeaveBudget
  <2> QED
    BY <1>a, <2>1, <2>3 DEF BudgetInv, StopsForCause
<1>7. CASE EmitValue
  <2>1. pc = "search" /\ UNCHANGED <<prob, call>> /\ call.op = "enumerate" /\ Len(out') = Len(out) + 1
    BY <1>7, <1>a DEF EmitValue, SearchInv, TypeOK
  <2>2. call.limit \in Nat
    BY <2>1, LimitFacts DEF SearchInv, PathInv
  <2>3. /\ stats'.nodes = stats.nodes
        /\ \/ pc' = "idle" /\ stats'.exhausted
           \/ pc' = pc /\ stats'.exhausted = stats.exhausted /\ Len(out) + 1 < call.limit
           \/ pc' = "idle" /\ Len(out) + 1 >= call.limit
    BY <1>7, <1>a, <1>c, <2>2, LeaveBudget DEF EmitValue
  <2> QED
    BY <1>a, <2>1, <2>2, <2>3 DEF BudgetInv, StopsForCause
<1>8. CASE CountValue
  <2>1. pc = "search" /\ UNCHANGED <<prob, call>> /\ call.op = "count" /\ tally' = tally + 1
    BY <1>8 DEF CountValue
  <2>2. call.limit \in Nat
    BY <2>1, LimitFacts DEF SearchInv, PathInv
  <2>3. /\ stats'.nodes = stats.nodes
        /\ \/ pc' = "idle" /\ stats'.exhausted
           \/ pc' = pc /\ stats'.exhausted = stats.exhausted /\ tally + 1 < call.limit
           \/ pc' = "idle" /\ tally + 1 >= call.limit
    BY <1>8, <1>a, <1>c, <2>2, LeaveBudget DEF CountValue
  <2> QED
    BY <1>a, <2>1, <2>2, <2>3 DEF BudgetInv, StopsForCause
<1>9. CASE KeepNearest
  <2>1. pc = "search" /\ UNCHANGED <<prob, call>> /\ call.op = "nearest"
    BY <1>9 DEF KeepNearest
  <2>2. /\ stats'.nodes = stats.nodes
        /\ (pc' = "idle" /\ stats'.exhausted) \/ (pc' = pc /\ stats'.exhausted = stats.exhausted)
    BY <1>9, <1>c, LeaveBudget DEF KeepNearest
  <2> QED
    BY <1>a, <2>1, <2>2 DEF BudgetInv, StopsForCause
<1>10. CASE LocalGiveUp \/ LocalFound \/ LocalStuck \/ \E l \in Leaf : LocalMove(l)
  <2>1. pc = "local" /\ call' = call /\ pc' \in {"local", "idle"}
    BY <1>10 DEF LocalGiveUp, LocalFound, LocalStuck, LocalMove, LocalReturn
  <2> QED
    BY <2>1 DEF BudgetInv, StopsForCause, SearchInv, LocalInv
<1> QED
  BY <1>0, <1>1, <1>2, <1>3, <1>4, <1>5, <1>6, <1>7, <1>8, <1>9, <1>10 DEF Next, Step

(* No call exceeds max_nodes, and a search that says it is not exhausted   *)
(* spent exactly its budget or returned exactly what it was asked for.     *)
THEOREM BudgetsAreKept == Spec => []StopsForCause
<1>1. Init => BudgetInv /\ StopsForCause
  BY DEF Init, BudgetInv, StopsForCause
<1>2. SearchInv /\ BudgetInv /\ StopsForCause /\ [Next]_vars
        => (BudgetInv /\ StopsForCause)'
  BY BudgetStep
<1> QED
  BY <1>1, <1>2, SearchInit, SearchStep, PTL DEF Spec

(* Whatever stops a call, it stops for a cause that its statistics report, *)
(* and the flags it leaves are those of a path, so no call spoils the next.*)
THEOREM CallsStayClean == Spec => []CallsEndClean
<1>1. PathIsAssigned /\ StopsForCause => CallsEndClean
  BY DEF CallsEndClean
<1> QED
  BY <1>1, FlagsAreThePath, BudgetsAreKept, PTL
-----------------------------------------------------------------------------
(* count: the solutions the search has left behind.                        *)

\* A leaf of the search tree is visited once: having returned from it, it is behind.
LEMMA VisitedIsBehind ==
  ASSUME SearchInv, pc = "search", pos = N + 1, NEW st, Return(st), UNCHANGED <<order, work, todo>>
  PROVE  ~Ahead(work)'
<1>1. CASE pos = 1
  BY <1>1 DEF Return, Ahead
<1>2. CASE pos # 1
  <2>1. pos' = N /\ N # N + 1 /\ pos - 1 = N
    BY <1>2, ConstantsAssumption DEF Return
  <2>2. \A k \in Position : work[order[k]] \notin todo[k]
    BY <2>1 DEF SearchInv, PathInv, Position
  <2> QED
    BY <2>1, <2>2 DEF Ahead
<1> QED
  BY <1>1, <1>2

\* There are finitely many solutions.
LEMMA SolutionsAreFinite ==
  ASSUME NEW p \in Problems
  PROVE  IsFiniteSet(Solutions(p))
<1> DEFINE D == {p.domain[l] : l \in Leaf}
           f == [l \in Leaf |-> p.domain[l]]
<1>1. IsFiniteSet(Leaf)
  BY ConstantsAssumption, FS_Interval DEF Leaf
<1>2. f \in Surjection(Leaf, D)
  BY DEF Surjection
<1>3. \A l \in Leaf : IsFiniteSet(p.domain[l])
  BY ConstantsAssumption DEF IsProblem
<1>4. \A T \in D : IsFiniteSet(T)
  BY <1>3
<1> HIDE DEF D
<1>5. IsFiniteSet(D)
  BY <1>1, <1>2, FS_Surjection
<1>6. IsFiniteSet(UNION D)
  BY <1>4, <1>5, FS_UNION
<1>7. IsFiniteSet([Leaf -> UNION D])
  BY <1>1, <1>6, FunctionsAreFinite
<1>8. Solutions(p) \subseteq [Leaf -> UNION D]
  BY DEF Solutions, Assignments, D
<1> QED
  BY <1>7, <1>8, FS_Subset

\* The solutions the search has left behind.
Behind == {s \in Solutions(prob) : ~Ahead(s)}

CountInv ==
  call.op = "count" =>
    /\ tally <= Cardinality(Solutions(prob)) /\ tally <= call.limit
    /\ pc = "search" \/ (stats.exhausted /\ call.limit > 0) => tally = Cardinality(Behind)

\* A step that leaves no solution behind counts none.
LEMMA SameBehind ==
  ASSUME SearchInv, BudgetInv, CountInv, call.op = "count", pc = "search",
         UNCHANGED <<prob, call, tally>>,
         \A s \in Solutions(prob) : Ahead(s)' <=> Ahead(s)
  PROVE  CountInv'
<1>1. Behind' = Behind
  <2>1. Solutions(prob)' = Solutions(prob)
    BY DEF Solutions, Assignments
  <2> QED
    BY <2>1 DEF Behind
<1>2. Solutions(prob)' = Solutions(prob)
  BY DEF Solutions, Assignments
<1> QED
  BY <1>1, <1>2 DEF CountInv

\* Every action keeps the count.
LEMMA CountStep == SearchInv /\ BudgetInv /\ CountInv /\ [Next]_vars => CountInv'
<1> SUFFICES ASSUME SearchInv, BudgetInv, CountInv, [Next]_vars PROVE CountInv'
  OBVIOUS
<1> USE DEF problemVars, searchVars, resultVars
<1>a. prob \in Problems /\ IsFiniteSet(Solutions(prob)) /\ tally \in Nat
  BY SolutionsAreFinite DEF SearchInv, TypeOK
<1>0. CASE UNCHANGED vars
  BY <1>0 DEF vars, CountInv, Behind, Solutions, Assignments, Ahead
<1>1. ASSUME NEW c \in Calls, Begin(c) PROVE CountInv'
  <2>1. SUFFICES ASSUME c.op = "count" PROVE CountInv'
    BY <1>1 DEF Begin, CountInv
  <2>2. tally' = 0 /\ call' = c /\ prob' = prob /\ pc' \in {"idle", "search"} /\ c.limit \in Nat
    BY <1>1, <2>1, LimitFacts DEF Begin
  <2>3. Solutions(prob)' = Solutions(prob)
    BY <2>2 DEF Solutions, Assignments
  <2>4. pc' = "search" \/ c.limit > 0 => Behind' = {}
    BY <1>1, <2>1, <2>2, <2>3, BeginAhead DEF Behind
  <2>5. Cardinality({}) = 0 /\ Cardinality(Solutions(prob)) \in Nat
    BY <1>a, FS_EmptySet, FS_CardinalityType
  <2> QED
    BY <2>2, <2>3, <2>4, <2>5 DEF CountInv
<1>2. ASSUME NEW c \in Calls, BeginLocal(c) PROVE CountInv'
  BY <1>2 DEF BeginLocal, CountInv
<1>3. ASSUME pos <= N, NEW v \in todo[pos], Descend(v) \/ Reject(v) PROVE CountInv'
  <2>1. SUFFICES ASSUME call.op = "count" PROVE CountInv'
    BY <1>3 DEF Descend, Reject, CountInv
  <2>2. pc = "search" /\ UNCHANGED <<prob, call, tally>>
    BY <1>3 DEF Descend, Reject, Tries
  <2>3. \A s \in Solutions(prob) : Ahead(s)' <=> Ahead(s)
    BY <1>3, DescendAhead, RejectAhead DEF Solutions
  <2> QED
    BY <2>1, <2>2, <2>3, SameBehind
<1>4. CASE GiveUp
  <2>1. pc' = "idle" /\ stats'.exhausted = FALSE /\ UNCHANGED <<prob, call, tally>>
    BY <1>4 DEF GiveUp, Stop, SearchInv, TypeOK
  <2>2. Solutions(prob)' = Solutions(prob)
    BY <2>1 DEF Solutions, Assignments
  <2> QED
    BY <2>1, <2>2 DEF CountInv
<1>5. CASE Backtrack
  <2>1. SUFFICES ASSUME call.op = "count" PROVE CountInv'
    BY <1>5 DEF Backtrack, CountInv
  <2>2. /\ pc = "search" /\ pos <= N /\ todo[pos] = {}
        /\ Return([stats EXCEPT !.backtracks = @ + 1])
        /\ UNCHANGED <<prob, order, work, call, todo, tally>>
    BY <1>5 DEF Backtrack
  <2>3. pos # N + 1
    BY <2>2, ConstantsAssumption DEF SearchInv, TypeOK
  <2>4. \A s : Ahead(s)' <=> Ahead(s)
    BY <2>2, <2>3, ReturnAhead
  <2> QED
    BY <2>1, <2>2, <2>4, SameBehind
<1>6. CASE CountValue
  <2>1. /\ call.op = "count" /\ pc = "search" /\ pos = N + 1 /\ tally' = tally + 1
        /\ UNCHANGED <<prob, order, work, call, todo>>
        /\ Return(Visited) \/ Stop(Visited)
    BY <1>6 DEF CountValue
  <2>2. work \in Solutions(prob) /\ Ahead(work) /\ Behind \in SUBSET Solutions(prob)
    BY <2>1, VisitedIsSolution DEF Ahead, Behind
  <2>3. IsFiniteSet(Behind) /\ work \notin Behind
    BY <1>a, <2>2, FS_Subset DEF Behind
  <2>4. Cardinality(Behind \cup {work}) = Cardinality(Behind) + 1
    BY <2>3, FS_AddElement
  <2>5. Cardinality(Behind \cup {work}) <= Cardinality(Solutions(prob))
    <3>1. Behind \cup {work} \in SUBSET Solutions(prob)
      BY <2>2
    <3> QED
      BY <1>a, <3>1, FS_Subset
  <2>6. tally = Cardinality(Behind) /\ tally < call.limit /\ call.limit \in Nat
    BY <2>1, LimitFacts DEF CountInv, BudgetInv, SearchInv, PathInv
  <2>7. Solutions(prob)' = Solutions(prob)
    BY <2>1 DEF Solutions, Assignments
  <2>8. CASE Stop(Visited)
    <3>1. pc' = "idle" /\ stats'.exhausted = FALSE
      BY <2>8 DEF Stop, Visited, SearchInv, TypeOK
    <3> QED
      BY <1>a, <2>1, <2>4, <2>5, <2>6, <2>7, <3>1 DEF CountInv
  <2>9. CASE Return(Visited)
    <3>1. \A s : (Ahead(s)' => Ahead(s)) /\ (Ahead(s) => Ahead(s)' \/ s = work)
      BY <2>1, <2>9, ReturnAhead
    <3>2. ~Ahead(work)'
      BY <2>1, <2>9, VisitedIsBehind
    <3>3. ASSUME NEW s \in Solutions(prob) PROVE ~Ahead(s)' <=> s \in Behind \cup {work}
      <4>1. CASE s = work
        BY <2>1, <3>2, <4>1
      <4>2. CASE s # work
        BY <3>1, <4>2 DEF Behind
      <4> QED
        BY <4>1, <4>2
    <3>4. Behind' = Behind \cup {work}
      BY <2>2, <2>7, <3>3 DEF Behind
    <3> QED
      BY <1>a, <2>1, <2>4, <2>5, <2>6, <2>7, <3>4 DEF CountInv
  <2> QED
    BY <2>1, <2>8, <2>9
<1>7. CASE BreakOff \/ EmitValue \/ KeepNearest
  <2>1. call'.op # "count"
    BY <1>7 DEF BreakOff, CutOff, EmitValue, KeepNearest
  <2> QED
    BY <2>1 DEF CountInv
<1>8. CASE LocalGiveUp \/ LocalFound \/ LocalStuck \/ \E l \in Leaf : LocalMove(l)
  <2>1. pc = "local" /\ call' = call
    BY <1>8 DEF LocalGiveUp, LocalFound, LocalStuck, LocalMove, LocalReturn
  <2> QED
    BY <2>1 DEF CountInv, SearchInv, LocalInv
<1> QED
  BY <1>0, <1>1, <1>2, <1>3, <1>4, <1>5, <1>6, <1>7, <1>8 DEF Next, Step

\* The budget invariants hold along every behaviour.
LEMMA BudgetAlways == Spec => [](SearchInv /\ BudgetInv /\ StopsForCause)
<1>1. Init => BudgetInv /\ StopsForCause
  BY DEF Init, BudgetInv, StopsForCause
<1> QED
  BY <1>1, BudgetStep, SearchInit, SearchStep, PTL DEF Spec

(* Exactness of count: the tally is the number of solutions whenever the   *)
(* call says it is exhausted; else it is a lower bound, as each leaf of    *)
(* the search tree is visited once and was a solution.                     *)
THEOREM CountsAreExact == Spec => []CountIsExact
<1>1. Init => CountInv
  BY DEF Init, CountInv
<1>2. CountInv => CountIsExact
  <2> SUFFICES ASSUME CountInv, pc = "idle" PROVE CountIsExact
    BY DEF CountIsExact
  <2>1. Behind = Solutions(prob)
    BY DEF Behind, Ahead
  <2> QED
    BY <2>1 DEF CountInv, CountIsExact
<1> QED
  BY <1>1, <1>2, CountStep, BudgetAlways, PTL DEF Spec
-----------------------------------------------------------------------------
(* Costs: what accumulates over the leaves does so in any order.           *)

\* An accumulation grows with each difference, and with the size of the difference.
LEMMA AccumulateFacts ==
  ASSUME NEW norm \in Norm, NEW x \in Nat, NEW d \in Int
  PROVE  /\ x <= Accumulate(norm, x, d)
         /\ Accumulate(norm, x, 0) = x
         /\ \A y \in Nat : x <= y => Accumulate(norm, x, d) <= Accumulate(norm, y, d)
         /\ \A e \in Int : Magnitude(d) <= Magnitude(e) => Accumulate(norm, x, d) <= Accumulate(norm, x, e)
         /\ \A e \in Int : Accumulate(norm, Accumulate(norm, x, d), e) = Accumulate(norm, Accumulate(norm, x, e), d)
<1>1. d * d \in Nat /\ \A e \in Int : e * e \in Nat
  BY SquareIsNat
<1>2. CASE norm = "L1"
  BY <1>2 DEF Accumulate, Magnitude
<1>3. CASE norm = "L2"
  <2>1. ASSUME NEW e \in Int, Magnitude(d) <= Magnitude(e) PROVE d * d <= e * e
    <3>1. \A a, b \in Nat : a <= b => a * a <= b * b
      <4>1. ASSUME NEW a \in Nat, NEW b \in Nat, a <= b PROVE a * a <= b * b
        <5>1. a * a <= a * b /\ a * b <= b * b
          BY <4>1
        <5> QED
          BY <5>1
      <4> QED
        BY <4>1
    <3>2. \A a \in Int : Magnitude(a) \in Nat /\ Magnitude(a) * Magnitude(a) = a * a
      BY DEF Magnitude
    <3> QED
      BY <2>1, <3>1, <3>2
  <2>2. \A a : Accumulate(norm, a, d) = a + d * d
    BY <1>3 DEF Accumulate
  <2>3. \A a, e : Accumulate(norm, a, e) = a + e * e
    BY <1>3 DEF Accumulate
  <2>4. 0 * 0 = 0
    OBVIOUS
  <2>5. \A e \in Int : Magnitude(d) <= Magnitude(e) => x + d * d <= x + e * e
    <3>1. ASSUME NEW e \in Int, Magnitude(d) <= Magnitude(e) PROVE x + d * d <= x + e * e
      <4>1. d * d <= e * e /\ e * e \in Nat
        BY <2>1, <3>1, <1>1
      <4> QED
        BY <4>1, <1>1
    <3> QED
      BY <3>1
  <2>6. \A e \in Int : (x + d * d) + e * e = (x + e * e) + d * d
    BY <1>1
  <2> QED
    BY <1>1, <2>3, <2>4, <2>5, <2>6
<1>4. CASE norm = "LInf"
  BY <1>4 DEF Accumulate, Magnitude, Greater
<1>5. CASE norm = "Hamming"
  BY <1>5 DEF Accumulate, Magnitude
<1> QED
  BY <1>2, <1>3, <1>4, <1>5 DEF Norm

\* The recursion of Costs has a solution, so Costs is it.
LEMMA CostsFacts ==
  ASSUME NEW c \in Calls, c.op = "nearest", NEW s \in [Leaf -> Int]
  PROVE  /\ Costs(c, s) \in [0 .. N -> Nat]
         /\ Costs(c, s)[0] = c.fixed
         /\ \A k \in Leaf : Costs(c, s)[k] = Accumulate(c.norm, Costs(c, s)[k - 1], s[k] - c.target[k])
<1> DEFINE Next1(k, x) == Accumulate(c.norm, x, s[k] - c.target[k])
           step == [k \in 1 .. N |-> [x \in Nat |-> Next1(k, x)]]
           Rec(f) == f = [k \in 0 .. N |-> IF k = 0 THEN c.fixed ELSE Next1(k, f[k - 1])]
           g == Costs(c, s)
<1>1. N \in Nat /\ c.fixed \in Nat /\ c.norm \in Norm /\ c.target \in [Leaf -> Int]
  BY NearestFacts, ConstantsAssumption
<1>2. ASSUME NEW k \in 1 .. N, NEW x \in Nat PROVE Next1(k, x) \in Nat
  <2>1. s[k] - c.target[k] \in Int
    BY <1>1 DEF Leaf
  <2> QED
    BY <1>1, <2>1, AccumulateIsNat
<1>3. step \in [1 .. N -> [Nat -> Nat]] /\ \A k \in 1 .. N : \A x \in Nat : step[k][x] = Next1(k, x)
  BY <1>2
<1>4. PICK f \in [0 .. N -> Nat] : f[0] = c.fixed /\ \A k \in 1 .. N : f[k] = step[k][f[k - 1]]
  <2> HIDE DEF step
  <2>1. PICK Y, z : Y = Nat /\ z = c.fixed
    OBVIOUS
  <2>2. N \in Nat /\ z \in Y /\ step \in Steps(N, Y)
    BY <1>1, <1>3, <2>1 DEF Steps
  <2>3. \E f \in [0 .. N -> Y] : f[0] = z /\ \A k \in 1 .. N : f[k] = step[k][f[k - 1]]
    BY <2>2, Recursion
  <2> QED
    BY <2>1, <2>3
<1>5. Rec(f)
  <2> HIDE DEF step, Next1
  <2>1. ASSUME NEW k \in 0 .. N PROVE f[k] = IF k = 0 THEN c.fixed ELSE Next1(k, f[k - 1])
    <3>1. k # 0 => k \in 1 .. N /\ k - 1 \in 0 .. N
      BY <1>1
    <3>2. k # 0 => f[k] = Next1(k, f[k - 1])
      BY <1>3, <1>4, <3>1
    <3> QED
      BY <1>4, <3>2
  <2> QED
    BY <2>1
<1>6. Rec(g)
  <2>1. g = CHOOSE h : Rec(h)
    BY DEF Costs
  <2> QED
    BY <1>5, <2>1
<1>7. \A k \in 0 .. N : g[k] = IF k = 0 THEN c.fixed ELSE Next1(k, g[k - 1])
  BY <1>6
<1>8. DOMAIN g = 0 .. N /\ g = [k \in DOMAIN g |-> g[k]]
  BY <1>6
<1> DEFINE S == {k \in Nat : k <= N => g[k] \in Nat}
<1>9. 0 \in S
  BY <1>1, <1>7
<1>10. ASSUME NEW k \in Nat, k \in S PROVE k + 1 \in S
  <2>1. SUFFICES ASSUME k + 1 <= N PROVE g[k + 1] \in Nat
    OBVIOUS
  <2>2. k + 1 \in 0 .. N /\ k + 1 \in 1 .. N /\ k <= N /\ (k + 1) - 1 = k /\ k + 1 # 0
    BY <1>1, <2>1
  <2>3. g[k] \in Nat
    BY <1>10, <2>2
  <2>4. g[k + 1] = Next1(k + 1, g[k])
    BY <1>7, <2>2
  <2> QED
    BY <1>2, <2>2, <2>3, <2>4
<1>11. Nat \subseteq S
  <2> HIDE DEF S
  <2> QED
    BY <1>9, <1>10, NumberInduction
<1>12. \A k \in 0 .. N : g[k] \in Nat
  BY <1>1, <1>11
<1>13. g \in [0 .. N -> Nat]
  BY <1>8, <1>12
<1>14. \A k \in Leaf : g[k] = Next1(k, g[k - 1])
  <2> HIDE DEF g, Next1
  <2>1. \A k \in Leaf : k \in 0 .. N /\ k # 0
    BY <1>1 DEF Leaf
  <2> QED
    BY <1>7, <2>1
<1> QED
  BY <1>1, <1>7, <1>13, <1>14
\* The value that agrees with s on the leaves of D and with the target elsewhere,
\* and its cost: what the leaves of D add.
Only(c, s, D) == [l \in Leaf |-> IF l \in D THEN s[l] ELSE c.target[l]]

CostOn(c, s, D) == TotalCost(c, Only(c, s, D))

\* A value no farther from the target than another in any leaf costs no more.
LEMMA CostsGrow ==
  ASSUME NEW c \in Calls, c.op = "nearest", NEW s \in [Leaf -> Int], NEW u \in [Leaf -> Int],
         \A l \in Leaf : Magnitude(u[l] - c.target[l]) <= Magnitude(s[l] - c.target[l])
  PROVE  TotalCost(c, u) <= TotalCost(c, s)
<1> DEFINE f == Costs(c, u)
           g == Costs(c, s)
           S == {k \in Nat : k <= N => f[k] <= g[k]}
<1>1. N \in Nat /\ c.fixed \in Nat /\ c.norm \in Norm /\ c.target \in [Leaf -> Int]
  BY NearestFacts, ConstantsAssumption
<1>2. /\ f \in [0 .. N -> Nat] /\ f[0] = c.fixed
      /\ \A k \in Leaf : f[k] = Accumulate(c.norm, f[k - 1], u[k] - c.target[k])
  BY CostsFacts
<1>3. /\ g \in [0 .. N -> Nat] /\ g[0] = c.fixed
      /\ \A k \in Leaf : g[k] = Accumulate(c.norm, g[k - 1], s[k] - c.target[k])
  BY CostsFacts
<1> HIDE DEF f, g
<1>4. 0 \in S
  BY <1>1, <1>2, <1>3
<1>5. ASSUME NEW k \in Nat, k \in S PROVE k + 1 \in S
  <2>1. SUFFICES ASSUME k + 1 <= N PROVE f[k + 1] <= g[k + 1]
    OBVIOUS
  <2>2. k + 1 \in Leaf /\ k \in 0 .. N /\ (k + 1) - 1 = k
    BY <1>1, <2>1 DEF Leaf
  <2>3. f[k] \in Nat /\ g[k] \in Nat /\ f[k] <= g[k]
    BY <1>1, <1>2, <1>3, <1>5, <2>1, <2>2
  <2> DEFINE d == u[k + 1] - c.target[k + 1]
             e == s[k + 1] - c.target[k + 1]
  <2>4. d \in Int /\ e \in Int /\ Magnitude(d) <= Magnitude(e)
    BY <1>1, <2>2
  <2>5. f[k + 1] = Accumulate(c.norm, f[k], d) /\ g[k + 1] = Accumulate(c.norm, g[k], e)
    BY <1>2, <1>3, <2>2
  <2> HIDE DEF d, e
  <2>6. Accumulate(c.norm, f[k], d) <= Accumulate(c.norm, f[k], e)
    BY <1>1, <2>3, <2>4, AccumulateFacts
  <2>7. Accumulate(c.norm, f[k], e) <= Accumulate(c.norm, g[k], e)
    BY <1>1, <2>2, <2>3, <2>4, AccumulateFacts
  <2>8. /\ Accumulate(c.norm, f[k], d) \in Nat /\ Accumulate(c.norm, f[k], e) \in Nat
        /\ Accumulate(c.norm, g[k], e) \in Nat
    BY <1>1, <2>3, <2>4, AccumulateIsNat
  <2> QED
    BY <2>5, <2>6, <2>7, <2>8
<1>6. Nat \subseteq S
  <2> HIDE DEF S
  <2> QED
    BY <1>4, <1>5, NumberInduction
<1> QED
  BY <1>1, <1>6 DEF TotalCost, f, g

\* Cost leaf by leaf, in whatever order: no leaf.
LEMMA CostOnNone ==
  ASSUME NEW c \in Calls, c.op = "nearest", NEW s
  PROVE  CostOn(c, s, {}) = c.fixed
<1> DEFINE f == Costs(c, c.target)
           S == {k \in Nat : k <= N => f[k] = c.fixed}
<1>1. N \in Nat /\ c.fixed \in Nat /\ c.norm \in Norm /\ c.target \in [Leaf -> Int]
  BY NearestFacts, ConstantsAssumption
<1>2. Only(c, s, {}) = c.target
  BY <1>1 DEF Only
<1>3. /\ f[0] = c.fixed
      /\ \A k \in Leaf : f[k] = Accumulate(c.norm, f[k - 1], c.target[k] - c.target[k])
  BY <1>1, CostsFacts
<1> HIDE DEF f
<1>4. 0 \in S
  BY <1>3
<1>5. ASSUME NEW k \in Nat, k \in S PROVE k + 1 \in S
  <2>1. SUFFICES ASSUME k + 1 <= N PROVE f[k + 1] = c.fixed
    OBVIOUS
  <2>2. k + 1 \in Leaf /\ (k + 1) - 1 = k /\ f[k] = c.fixed
    BY <1>1, <1>5, <2>1 DEF Leaf
  <2>3. c.target[k + 1] - c.target[k + 1] = 0
    BY <1>1, <2>2
  <2>4. f[k + 1] = Accumulate(c.norm, c.fixed, 0)
    BY <1>3, <2>2, <2>3
  <2>5. Accumulate(c.norm, c.fixed, 0) = c.fixed
    BY <1>1, AccumulateFacts
  <2> QED
    BY <2>4, <2>5
<1>6. Nat \subseteq S
  <2> HIDE DEF S
  <2> QED
    BY <1>4, <1>5, NumberInduction
<1> QED
  BY <1>1, <1>2, <1>6 DEF CostOn, TotalCost, f

\* One more leaf, wherever it comes in declaration order.
LEMMA CostOnMore ==
  ASSUME NEW c \in Calls, c.op = "nearest", NEW s \in [Leaf -> Int],
         NEW D \in SUBSET Leaf, NEW m \in Leaf, m \notin D
  PROVE  CostOn(c, s, D \cup {m}) = Accumulate(c.norm, CostOn(c, s, D), s[m] - c.target[m])
<1> DEFINE u == Only(c, s, D)
           w == Only(c, s, D \cup {m})
           f == Costs(c, u)
           g == Costs(c, w)
           e == s[m] - c.target[m]
           More(k) == IF k < m THEN g[k] = f[k] ELSE g[k] = Accumulate(c.norm, f[k], e)
           S == {k \in Nat : k <= N => More(k)}
<1>1. /\ N \in Nat /\ c.fixed \in Nat /\ c.norm \in Norm /\ c.target \in [Leaf -> Int] /\ e \in Int
      /\ m \in Nat /\ 1 <= m /\ m <= N
  BY NearestFacts, ConstantsAssumption DEF Leaf
<1>2. u \in [Leaf -> Int] /\ w \in [Leaf -> Int]
  BY <1>1 DEF Only
<1>3. /\ w[m] = s[m] /\ u[m] = c.target[m]
      /\ \A l \in Leaf : l # m => w[l] = u[l]
  BY DEF Only
<1> HIDE DEF u, w
<1>4. /\ f \in [0 .. N -> Nat] /\ f[0] = c.fixed
      /\ \A k \in Leaf : f[k] = Accumulate(c.norm, f[k - 1], u[k] - c.target[k])
  BY <1>2, CostsFacts
<1>5. /\ g \in [0 .. N -> Nat] /\ g[0] = c.fixed
      /\ \A k \in Leaf : g[k] = Accumulate(c.norm, g[k - 1], w[k] - c.target[k])
  BY <1>2, CostsFacts
<1> HIDE DEF f, g, e
<1>6. 0 \in S
  BY <1>1, <1>4, <1>5
<1>7. ASSUME NEW k \in Nat, k \in S PROVE k + 1 \in S
  <2>1. SUFFICES ASSUME k + 1 <= N PROVE More(k + 1)
    OBVIOUS
  <2>2. k + 1 \in Leaf /\ k \in 0 .. N /\ (k + 1) - 1 = k /\ More(k)
    BY <1>1, <1>7, <2>1 DEF Leaf
  <2>3. f[k] \in Nat
    BY <1>4, <2>2
  <2> DEFINE d == u[k + 1] - c.target[k + 1]
  <2>4. d \in Int /\ f[k + 1] = Accumulate(c.norm, f[k], d)
    <3>1. u[k + 1] \in Int /\ c.target[k + 1] \in Int
      BY <1>1, <1>2, <2>2
    <3>2. f[k + 1] = Accumulate(c.norm, f[(k + 1) - 1], d)
      BY <1>4, <2>2
    <3> QED
      BY <2>2, <3>1, <3>2
  <2>5. CASE k + 1 < m
    <3>1. g[k] = f[k] /\ w[k + 1] = u[k + 1]
      BY <1>1, <1>3, <2>2, <2>5
    <3> QED
      BY <1>5, <2>2, <2>4, <2>5, <3>1
  <2>6. CASE k + 1 = m
    <3>1. g[k] = f[k]
      BY <2>2, <2>6
    <3>2. d = 0
      BY <1>1, <1>3, <2>6
    <3>3. w[k + 1] - c.target[k + 1] = e
      BY <1>3, <2>6 DEF e
    <3>4. g[k + 1] = Accumulate(c.norm, g[k], e)
      BY <1>5, <2>2, <3>3
    <3>5. f[k + 1] = f[k]
      BY <1>1, <2>3, <2>4, <3>2, AccumulateFacts
    <3> QED
      BY <1>1, <2>6, <3>1, <3>4, <3>5
  <2>7. CASE m < k + 1
    <3>1. g[k] = Accumulate(c.norm, f[k], e) /\ w[k + 1] = u[k + 1]
      BY <1>1, <1>3, <2>2, <2>7
    <3>2. g[k + 1] = Accumulate(c.norm, Accumulate(c.norm, f[k], e), d)
      BY <1>5, <2>2, <3>1
    <3> HIDE DEF d
    <3>3. g[k + 1] = Accumulate(c.norm, f[k + 1], e)
      BY <1>1, <2>3, <2>4, <3>2, AccumulateFacts
    <3> QED
      BY <1>1, <2>7, <3>3
  <2> QED
    BY <1>1, <2>5, <2>6, <2>7
<1>8. Nat \subseteq S
  <2> HIDE DEF S
  <2> QED
    BY <1>6, <1>7, NumberInduction
<1>9. More(N)
  BY <1>1, <1>8
<1>10. g[N] = Accumulate(c.norm, f[N], e)
  BY <1>1, <1>9
<1> QED
  BY <1>10 DEF CostOn, TotalCost, f, g, u, w, e

\* All leaves; fewer cost no more.
LEMMA CostOnAll ==
  ASSUME NEW c \in Calls, c.op = "nearest", NEW s \in [Leaf -> Int]
  PROVE  /\ CostOn(c, s, Leaf) = TotalCost(c, s)
         /\ \A D \in SUBSET Leaf : CostOn(c, s, D) <= TotalCost(c, s)
<1>1. c.target \in [Leaf -> Int]
  BY NearestFacts
<1>2. Only(c, s, Leaf) = s
  BY DEF Only
<1>3. ASSUME NEW D \in SUBSET Leaf PROVE CostOn(c, s, D) <= TotalCost(c, s)
  <2> DEFINE u == Only(c, s, D)
  <2>1. u \in [Leaf -> Int]
    BY <1>1 DEF Only
  <2>2. \A l \in Leaf : Magnitude(u[l] - c.target[l]) <= Magnitude(s[l] - c.target[l])
    BY <1>1 DEF Only, Magnitude
  <2> HIDE DEF u
  <2>3. TotalCost(c, u) <= TotalCost(c, s)
    BY <2>1, <2>2, CostsGrow
  <2> QED
    BY <2>3 DEF CostOn, u
<1> QED
  BY <1>2, <1>3 DEF CostOn

\* Values that agree on some leaves cost the same there.
LEMMA CostOnSame ==
  ASSUME NEW c, NEW s, NEW u, NEW D, \A l \in D : s[l] = u[l]
  PROVE  CostOn(c, s, D) = CostOn(c, u, D)
<1>1. Only(c, s, D) = Only(c, u, D)
  BY DEF Only
<1> QED
  BY <1>1 DEF CostOn

\* A cost is a number that is not negative.
LEMMA CostOnIsNat ==
  ASSUME NEW c \in Calls, c.op = "nearest", NEW s \in [Leaf -> Int], NEW D
  PROVE  CostOn(c, s, D) \in Nat
<1>1. Only(c, s, D) \in [Leaf -> Int]
  BY NearestFacts DEF Only
<1>2. Costs(c, Only(c, s, D)) \in [0 .. N -> Nat] /\ N \in 0 .. N
  BY <1>1, CostsFacts, ConstantsAssumption
<1> QED
  BY <1>2 DEF CostOn, TotalCost
-----------------------------------------------------------------------------
(* nearest: who is no longer ahead costs at least as much as the best.     *)

\* A value no closer than the one kept.
Beaten(s) == bestCost # NoCost /\ bestCost <= TotalCost(call, s)

NearestInv ==
  call.op = "nearest" =>
    /\ best \subseteq Solutions(prob)
    /\ best = {} <=> bestCost = NoCost
    /\ \A b \in best : TotalCost(call, b) = bestCost
    /\ pc = "search" => \A k \in 1 .. pos : acc[k] = CostOn(call, work, Prefix(order, k - 1))
    /\ pc = "search" \/ stats.exhausted => \A s \in Solutions(prob) : Ahead(s) \/ Beaten(s)

\* What the loop at pos knows of the costs of v, and of those who take another value.
LEMMA NextCostFacts ==
  ASSUME SearchInv, NearestInv, call.op = "nearest", pc = "search", pos <= N, NEW v \in NextValues
  PROVE  /\ NextCost(v) = CostOn(call, Written(v), Prefix(order, pos))
         /\ \A k \in 1 .. pos : acc[k] = CostOn(call, Written(v), Prefix(order, k - 1))
         /\ \A s \in Assignments(prob) :
              (\A j \in 1 .. pos - 1 : s[order[j]] = work[order[j]]) /\ s[Here] \in todo[pos]
                => NextCost(v) <= TotalCost(call, s)
<1>1. /\ v \in todo[pos] /\ call \in Calls /\ prob \in Problems /\ order \in Bijection(Position, Leaf)
      /\ work \in [Leaf -> Int] /\ acc[pos] = CostOn(call, work, Prefix(order, pos - 1))
  <2>1. pos \in 1 .. pos
    BY DEF SearchInv, TypeOK
  <2> QED
    BY <2>1 DEF NextValues, SearchInv, TypeOK, PathInv, NearestInv
<1>2. /\ pos \in Position /\ Here \in Leaf /\ v \in Int /\ Written(v) \in [Leaf -> Int]
      /\ Written(v)[Here] = v /\ \A l \in Leaf : l # Here => Written(v)[l] = work[l]
  BY <1>1, WriteFacts, TriedFacts DEF SearchInv
<1>3. call.target \in [Leaf -> Int] /\ call.norm \in Norm
  BY <1>1, NearestFacts
<1> DEFINE D == Prefix(order, pos - 1)
<1>4. D \in SUBSET Leaf /\ Here \notin D /\ Prefix(order, pos) = D \cup {Here}
  BY <1>1, <1>2, PrefixFacts DEF Here
<1>5. CostOn(call, Written(v), D) = acc[pos]
  <2>1. \A l \in D : Written(v)[l] = work[l]
    BY <1>2, <1>4
  <2> HIDE DEF D
  <2>2. CostOn(call, Written(v), D) = CostOn(call, work, D)
    BY <2>1, CostOnSame
  <2> QED
    BY <1>1, <2>2 DEF D
<1>6. NextCost(v) = Accumulate(call.norm, acc[pos], v - call.target[Here])
  BY DEF NextCost
<1>7. NextCost(v) = CostOn(call, Written(v), Prefix(order, pos))
  <2> HIDE DEF D
  <2>1. CostOn(call, Written(v), D \cup {Here})
          = Accumulate(call.norm, CostOn(call, Written(v), D), Written(v)[Here] - call.target[Here])
    BY <1>1, <1>2, <1>4, CostOnMore
  <2> QED
    BY <1>2, <1>4, <1>5, <1>6, <2>1
<1>8. ASSUME NEW k \in 1 .. pos PROVE acc[k] = CostOn(call, Written(v), Prefix(order, k - 1))
  <2>1. acc[k] = CostOn(call, work, Prefix(order, k - 1))
    BY DEF NearestInv
  <2>2. \A l \in Prefix(order, k - 1) : l \in D
    <3>1. pos \in Int /\ 1 .. k - 1 \subseteq 1 .. pos - 1
      BY <1>2 DEF Position
    <3> QED
      BY <3>1 DEF Prefix
  <2>3. \A l \in Prefix(order, k - 1) : Written(v)[l] = work[l]
    BY <1>2, <1>4, <2>2
  <2>4. CostOn(call, Written(v), Prefix(order, k - 1)) = CostOn(call, work, Prefix(order, k - 1))
    BY <2>3, CostOnSame
  <2> QED
    BY <2>1, <2>4
<1>9. ASSUME NEW s \in Assignments(prob),
             \A j \in 1 .. pos - 1 : s[order[j]] = work[order[j]], s[Here] \in todo[pos]
      PROVE  NextCost(v) <= TotalCost(call, s)
  <2>1. s \in [Leaf -> Int]
    BY <1>1, ProblemFacts DEF Assignments
  <2> DEFINE d == v - call.target[Here]
             e == s[Here] - call.target[Here]
  <2>2. d \in Int /\ e \in Int /\ Magnitude(d) <= Magnitude(e)
    <3>1. d \in Int /\ e \in Int
      BY <1>2, <1>3, <2>1
    <3>2. \/ Magnitude(v - call.target[Here]) < Magnitude(s[Here] - call.target[Here])
          \/ Magnitude(v - call.target[Here]) = Magnitude(s[Here] - call.target[Here])
      BY <1>9 DEF NextValues
    <3> QED
      BY <3>1, <3>2 DEF Magnitude
  <2>3. CostOn(call, s, D) = acc[pos]
    <3>1. \A l \in D : s[l] = work[l]
      BY <1>9 DEF Prefix
    <3> HIDE DEF D
    <3>2. CostOn(call, s, D) = CostOn(call, work, D)
      BY <3>1, CostOnSame
    <3> QED
      BY <1>1, <3>2 DEF D
  <2> HIDE DEF D
  <2>4. CostOn(call, s, D \cup {Here}) = Accumulate(call.norm, acc[pos], e)
    BY <1>1, <1>2, <1>4, <2>1, <2>3, CostOnMore
  <2>5. CostOn(call, s, D \cup {Here}) <= TotalCost(call, s)
    <3>1. D \cup {Here} \in SUBSET Leaf
      BY <1>2, <1>4
    <3> QED
      BY <1>1, <2>1, <3>1, CostOnAll
  <2>6. acc[pos] \in Nat
    BY <1>1, CostOnIsNat
  <2> HIDE DEF d, e
  <2>7. Accumulate(call.norm, acc[pos], d) <= Accumulate(call.norm, acc[pos], e)
    BY <1>3, <2>2, <2>6, AccumulateFacts
  <2>8. /\ Accumulate(call.norm, acc[pos], d) \in Nat /\ Accumulate(call.norm, acc[pos], e) \in Nat
        /\ TotalCost(call, s) \in Nat
    <3>1. TotalCost(call, s) = CostOn(call, s, Leaf)
      BY <1>1, <2>1, CostOnAll
    <3> QED
      BY <1>1, <1>3, <2>1, <2>2, <2>6, <3>1, AccumulateIsNat, CostOnIsNat
  <2> QED
    BY <1>6, <2>4, <2>5, <2>7, <2>8 DEF d
<1> QED
  BY <1>7, <1>8, <1>9

\* Breaking off the loop at pos: only those who take one of its values are no longer ahead.
LEMMA ReturnAheadOfTheRest ==
  ASSUME SearchInv, pc = "search", pos <= N, NEW st, Return(st), UNCHANGED <<order, work, todo>>, NEW s, Ahead(s)
  PROVE  \/ Ahead(s)'
         \/ (\A j \in 1 .. pos - 1 : s[order[j]] = work[order[j]]) /\ s[order[pos]] \in todo[pos]
<1>1. /\ pos \in 1 .. N + 1 /\ N \in Nat /\ \A k \in Position : k \in Int /\ 1 <= k /\ k <= N
  BY ConstantsAssumption DEF SearchInv, TypeOK, Position
<1>2. PICK k \in Position : /\ k <= pos
                            /\ \A j \in 1 .. k - 1 : s[order[j]] = work[order[j]]
                            /\ s[order[k]] \in todo[k]
  BY <1>1 DEF Ahead
<1>3. CASE k = pos
  BY <1>2, <1>3
<1>4. CASE k # pos
  <2>1. pos # 1 /\ k <= pos - 1
    BY <1>1, <1>2, <1>4
  <2>2. pc' = "search" /\ pos' = pos - 1
    BY <2>1 DEF Return
  <2> QED
    BY <1>2, <2>1, <2>2 DEF Ahead
<1> QED
  BY <1>3, <1>4

\* A step that keeps the best value, the buffer's costs and what was not beaten.
LEMMA SameNearest ==
  ASSUME SearchInv, NearestInv, call.op = "nearest", pc = "search",
         UNCHANGED <<prob, order, call, best, bestCost>>,
         pc' = "search" => \A k \in 1 .. pos' : acc'[k] = CostOn(call, work', Prefix(order, k - 1)),
         \A s \in Solutions(prob) : Ahead(s) => Ahead(s)' \/ Beaten(s)
  PROVE  NearestInv'
<1>1. Solutions(prob)' = Solutions(prob)
  BY DEF Solutions, Assignments
<1>2. \A s \in Solutions(prob) : Ahead(s) \/ Beaten(s)
  BY DEF NearestInv
<1>3. \A s \in Solutions(prob) : Ahead(s)' \/ Beaten(s)'
  BY <1>2 DEF Beaten
<1> QED
  BY <1>1, <1>3 DEF NearestInv

\* The shorter path of a frame that returns has the costs it had.
LEMMA ReturnCosts ==
  ASSUME SearchInv, NearestInv, call.op = "nearest", pc = "search", NEW st, Return(st), 
         UNCHANGED <<order, work, call, acc>>, pc' = "search"
  PROVE  \A k \in 1 .. pos' : acc'[k] = CostOn(call, work', Prefix(order, k - 1))
<1>1. \A k \in 1 .. pos : acc[k] = CostOn(call, work, Prefix(order, k - 1))
  BY DEF NearestInv
<1>2. pos \in Int /\ pos' = pos - 1
  BY DEF SearchInv, TypeOK, Return
<1>3. \A k \in 1 .. pos' : k \in 1 .. pos
  BY <1>2
<1> QED
  BY <1>1, <1>3

\* A value tried: the loop goes on or the path grows by it and by its cost.
LEMMA TryNearest ==
  ASSUME SearchInv, NearestInv, pos <= N, NEW v \in todo[pos], Descend(v) \/ Reject(v)
  PROVE  NearestInv'
<1>1. SUFFICES ASSUME call.op = "nearest" PROVE NearestInv'
  BY DEF Descend, Reject, NearestInv
<1>2. /\ pc = "search" /\ UNCHANGED <<prob, order, call, best, bestCost>>
      /\ work' = Written(v) /\ v \in NextValues
  BY DEF Descend, Reject, Tries, problemVars, resultVars
<1>3. \A s \in Solutions(prob) : Ahead(s) => Ahead(s)'
  BY DescendAhead, RejectAhead DEF Solutions
<1>4. /\ NextCost(v) = CostOn(call, work', Prefix(order, pos))
      /\ \A k \in 1 .. pos : acc[k] = CostOn(call, work', Prefix(order, k - 1))
  BY <1>1, <1>2, NextCostFacts
<1>5. CASE Reject(v)
  <2>1. acc' = acc /\ pos' = pos
    BY <1>5 DEF Reject
  <2> QED
    BY <1>1, <1>2, <1>3, <1>4, <2>1, SameNearest
<1>6. CASE Descend(v)
  <2>1. acc' = [acc EXCEPT ![pos + 1] = NextCost(v)] /\ pos' = pos + 1
    BY <1>6 DEF Descend
  <2>2. pos \in 1 .. N /\ N \in Nat /\ acc \in [1 .. N + 1 -> Nat]
    BY ConstantsAssumption DEF SearchInv, TypeOK
  <2>3. acc'[pos + 1] = NextCost(v) /\ \A k \in 1 .. pos : acc'[k] = acc[k]
    BY <2>1, <2>2
  <2>4. ASSUME NEW k \in 1 .. pos' PROVE acc'[k] = CostOn(call, work', Prefix(order, k - 1))
    <3>1. k \in 1 .. pos \/ (k = pos + 1 /\ k - 1 = pos)
      BY <2>1, <2>2
    <3> QED
      BY <1>4, <2>3, <3>1
  <2> QED
    BY <1>1, <1>2, <1>3, <2>4, SameNearest
<1> QED
  BY <1>5, <1>6

\* A loop that stops early: who it leaves out costs at least as much as the best.
LEMMA BreakOffNearest ==
  ASSUME SearchInv, NearestInv, BreakOff
  PROVE  NearestInv'
<1>1. PICK v \in NextValues : CutOff(v)
  BY DEF BreakOff
<1>2. /\ pc = "search" /\ pos <= N /\ call.op = "nearest" /\ bestCost # NoCost /\ NextCost(v) >= bestCost
      /\ UNCHANGED <<prob, order, work, call, todo, acc, best, bestCost>>
      /\ Return([stats EXCEPT !.prunes = @ + 1, !.backtracks = @ + 1])
  BY <1>1 DEF BreakOff, CutOff, problemVars, resultVars
<1>3. ASSUME NEW s \in Solutions(prob), Ahead(s) PROVE Ahead(s)' \/ Beaten(s)
  <2>1. CASE (\A j \in 1 .. pos - 1 : s[order[j]] = work[order[j]]) /\ s[order[pos]] \in todo[pos]
    <3>1. s \in Assignments(prob) /\ s \in [Leaf -> Int]
      BY SolutionsAreInts DEF Solutions, SearchInv, TypeOK
    <3>2. NextCost(v) <= TotalCost(call, s)
      BY <1>1, <1>2, <2>1, <3>1, NextCostFacts DEF Here
    <3>3. NextCost(v) \in Nat /\ bestCost \in Int
      <4>1. v \in todo[pos]
        BY <1>1 DEF NextValues
      <4> QED
        BY <1>2, <4>1, TriedFacts DEF SearchInv, TypeOK, NoCost
    <3>4. TotalCost(call, s) \in Nat
      <4>1. call \in Calls
        BY <1>2 DEF SearchInv, PathInv
      <4>2. TotalCost(call, s) = CostOn(call, s, Leaf)
        BY <1>2, <3>1, <4>1, CostOnAll
      <4> QED
        BY <1>2, <3>1, <4>1, <4>2, CostOnIsNat
    <3> QED
      BY <1>2, <3>2, <3>3, <3>4 DEF Beaten
  <2>2. CASE Ahead(s)'
    BY <2>2
  <2> QED
    BY <1>2, <1>3, <2>1, <2>2, ReturnAheadOfTheRest
<1>4. pc' = "search" => \A k \in 1 .. pos' : acc'[k] = CostOn(call, work', Prefix(order, k - 1))
  BY <1>2, ReturnCosts
<1> QED
  BY <1>2, <1>3, <1>4, SameNearest

\* A solution visited costs what its path has accumulated, and is kept if that is less.
LEMMA KeepNearestStep ==
  ASSUME SearchInv, NearestInv, KeepNearest
  PROVE  NearestInv'
<1>1. /\ pc = "search" /\ pos = N + 1 /\ call.op = "nearest"
      /\ UNCHANGED <<prob, order, work, call, todo, acc>> /\ Return(Visited)
  BY DEF KeepNearest, problemVars
<1>2. work \in Solutions(prob) /\ call \in Calls /\ work \in [Leaf -> Int]
  BY <1>1, VisitedIsSolution DEF SearchInv, TypeOK, PathInv
<1>3. acc[pos] = TotalCost(call, work) /\ acc[pos] \in Nat
  <2>1. acc[pos] = CostOn(call, work, Prefix(order, pos - 1))
    BY <1>1, ConstantsAssumption DEF NearestInv
  <2>2. pos - 1 = N /\ Prefix(order, N) = Leaf
    BY <1>1, PrefixFacts, ConstantsAssumption DEF SearchInv, TypeOK
  <2>3. CostOn(call, work, Leaf) = TotalCost(call, work)
    BY <1>1, <1>2, CostOnAll
  <2> QED
    BY <1>1, <1>2, <2>1, <2>2, <2>3, CostOnIsNat
<1>4. Solutions(prob)' = Solutions(prob)
  BY <1>1 DEF Solutions, Assignments
<1>5. /\ best' \subseteq Solutions(prob)
      /\ best' = {} <=> bestCost' = NoCost
      /\ \A b \in best' : TotalCost(call, b) = bestCost'
      /\ bestCost' # NoCost /\ bestCost' \in Nat /\ bestCost' <= TotalCost(call, work)
      /\ bestCost # NoCost => bestCost \in Nat /\ bestCost' <= bestCost
  <2>1. bestCost \in Nat \cup {NoCost} /\ NoCost \notin Nat
    BY DEF SearchInv, TypeOK, NoCost
  <2>2. CASE bestCost = NoCost \/ acc[pos] < bestCost
    <3>1. best' = {work} /\ bestCost' = acc[pos]
      BY <2>2 DEF KeepNearest
    <3>2. bestCost' # NoCost /\ bestCost' \in Nat /\ bestCost' <= TotalCost(call, work)
      BY <1>3, <2>1, <3>1
    <3>3. bestCost # NoCost => bestCost \in Nat /\ bestCost' <= bestCost
      BY <1>3, <2>1, <2>2, <3>1
    <3> QED
      BY <1>2, <1>3, <3>1, <3>2, <3>3
  <2>3. CASE ~(bestCost = NoCost \/ acc[pos] < bestCost)
    <3>1. best' = best /\ bestCost' = bestCost
      BY <2>3 DEF KeepNearest
    <3>2. bestCost \in Nat /\ bestCost <= TotalCost(call, work)
      BY <1>3, <2>1, <2>3
    <3>3. /\ best \subseteq Solutions(prob)
          /\ best = {} <=> bestCost = NoCost
          /\ \A b \in best : TotalCost(call, b) = bestCost
      BY <1>1 DEF NearestInv
    <3> QED
      BY <2>3, <3>1, <3>2, <3>3
  <2> QED
    BY <2>2, <2>3
<1>6. ASSUME NEW s \in Solutions(prob) PROVE Ahead(s)' \/ Beaten(s)'
  <2>1. CASE s = work
    BY <1>1, <1>5, <2>1 DEF Beaten
  <2>2. CASE s # work /\ Ahead(s)
    BY <1>1, <2>2, ReturnAhead
  <2>3. CASE Beaten(s)
    <3>1. TotalCost(call, s) \in Nat
      <4>1. s \in [Leaf -> Int]
        BY SolutionsAreInts DEF SearchInv, TypeOK
      <4>2. TotalCost(call, s) = CostOn(call, s, Leaf)
        BY <1>1, <1>2, <4>1, CostOnAll
      <4> QED
        BY <1>1, <1>2, <4>1, <4>2, CostOnIsNat
    <3> QED
      BY <1>1, <1>5, <2>3, <3>1 DEF Beaten
  <2>4. Ahead(s) \/ Beaten(s)
    BY <1>1 DEF NearestInv
  <2> QED
    BY <2>1, <2>2, <2>3, <2>4
<1>7. pc' = "search" => \A k \in 1 .. pos' : acc'[k] = CostOn(call, work', Prefix(order, k - 1))
  BY <1>1, ReturnCosts
<1> QED
  BY <1>1, <1>4, <1>5, <1>6, <1>7 DEF NearestInv

\* Every action keeps the best value and its cost.
LEMMA NearestStep == SearchInv /\ NearestInv /\ [Next]_vars => NearestInv'
<1> SUFFICES ASSUME SearchInv, NearestInv, [Next]_vars PROVE NearestInv'
  OBVIOUS
<1> USE DEF problemVars, searchVars, resultVars
<1>0. CASE UNCHANGED vars
  BY <1>0 DEF vars, NearestInv, Beaten, Solutions, Assignments, Ahead, Prefix
<1>1. ASSUME NEW c \in Calls, Begin(c) PROVE NearestInv'
  <2>1. SUFFICES ASSUME c.op = "nearest" PROVE NearestInv'
    BY <1>1 DEF Begin, NearestInv
  <2>2. /\ call' = c /\ prob' = prob /\ order' = order /\ work' = work /\ pc' \in {"idle", "search"}
        /\ best' = {} /\ bestCost' = NoCost /\ pos' = 1 /\ acc' = [k \in 1 .. N + 1 |-> c.fixed]
    BY <1>1, <2>1 DEF Begin
  <2>3. Solutions(prob)' = Solutions(prob)
    BY <2>2 DEF Solutions, Assignments
  <2>4. pc' = "search" \/ stats'.exhausted => \A s \in Solutions(prob) : Ahead(s)'
    BY <1>1, <2>1, <2>2, BeginAhead
  <2>5. \A k \in 1 .. pos' : acc'[k] = CostOn(c, work, Prefix(order, k - 1))
    <3>1. acc'[1] = c.fixed /\ 1 - 1 = 0
      BY <2>2, ConstantsAssumption
    <3>2. Prefix(order, 0) = {}
      BY PrefixFacts DEF SearchInv, TypeOK
    <3>3. CostOn(c, work, {}) = c.fixed
      BY <2>1, CostOnNone
    <3> QED
      BY <2>2, <3>1, <3>2, <3>3
  <2> QED
    BY <2>2, <2>3, <2>4, <2>5 DEF NearestInv
<1>2. ASSUME NEW c \in Calls, BeginLocal(c) PROVE NearestInv'
  BY <1>2 DEF BeginLocal, NearestInv
<1>3. ASSUME pos <= N, NEW v \in todo[pos], Descend(v) \/ Reject(v) PROVE NearestInv'
  BY <1>3, TryNearest
<1>4. CASE GiveUp
  <2>1. pc' = "idle" /\ stats'.exhausted = FALSE /\ UNCHANGED <<prob, call, best, bestCost>>
    BY <1>4 DEF GiveUp, Stop, SearchInv, TypeOK
  <2>2. Solutions(prob)' = Solutions(prob)
    BY <2>1 DEF Solutions, Assignments
  <2> QED
    BY <2>1, <2>2 DEF NearestInv
<1>5. CASE Backtrack
  <2>1. SUFFICES ASSUME call.op = "nearest" PROVE NearestInv'
    BY <1>5 DEF Backtrack, NearestInv
  <2>2. /\ pc = "search" /\ pos <= N /\ todo[pos] = {}
        /\ Return([stats EXCEPT !.backtracks = @ + 1])
        /\ UNCHANGED <<prob, order, work, call, todo, acc, best, bestCost>>
    BY <1>5 DEF Backtrack
  <2>3. pos # N + 1
    BY <2>2, ConstantsAssumption DEF SearchInv, TypeOK
  <2>4. \A s : Ahead(s)' <=> Ahead(s)
    BY <2>2, <2>3, ReturnAhead
  <2>5. pc' = "search" => \A k \in 1 .. pos' : acc'[k] = CostOn(call, work', Prefix(order, k - 1))
    BY <2>1, <2>2, ReturnCosts
  <2> QED
    BY <2>1, <2>2, <2>4, <2>5, SameNearest
<1>6. CASE BreakOff
  BY <1>6, BreakOffNearest
<1>7. CASE KeepNearest
  BY <1>7, KeepNearestStep
<1>8. CASE EmitValue \/ CountValue
  <2>1. call'.op # "nearest"
    BY <1>8 DEF EmitValue, CountValue
  <2> QED
    BY <2>1 DEF NearestInv
<1>9. CASE LocalGiveUp \/ LocalFound \/ LocalStuck \/ \E l \in Leaf : LocalMove(l)
  <2>1. pc = "local" /\ call' = call
    BY <1>9 DEF LocalGiveUp, LocalFound, LocalStuck, LocalMove, LocalReturn
  <2> QED
    BY <2>1 DEF NearestInv, SearchInv, LocalInv
<1> QED
  BY <1>0, <1>1, <1>2, <1>3, <1>4, <1>5, <1>6, <1>7, <1>8, <1>9 DEF Next, Step

(* Exactness of nearest: for every norm, target and cost of the leaves     *)
(* left out, an exhausted call returns a solution of least cost if there   *)
(* is one, although loops break off; a call cut short, still a solution.   *)
THEOREM NearestIsExact == Spec => []NearestIsOptimal
<1>1. Init => NearestInv
  BY DEF Init, NearestInv
<1>2. NearestInv => NearestIsOptimal
  <2> SUFFICES ASSUME NearestInv, pc = "idle", call.op = "nearest" PROVE NearestIsOptimal
    BY DEF NearestIsOptimal
  <2>1. \A s : ~Ahead(s)
    BY DEF Ahead
  <2>2. stats.exhausted => \A s \in Solutions(prob) : best # {} /\ \A b \in best : TotalCost(call, b) <= TotalCost(call, s)
    BY <2>1 DEF NearestInv, Beaten
  <2> QED
    BY <2>2 DEF NearestInv, NearestIsOptimal
<1> QED
  BY <1>1, <1>2, NearestStep, SearchInit, SearchStep, PTL DEF Spec
-----------------------------------------------------------------------------
(* enumerate implements SolutionStream.                                    *)

\* A call that is not enumerate does not show.
LEMMA OtherCallsStutter ==
  ASSUME call.op # "enumerate", call'.op # "enumerate", prob' = prob
  PROVE  [Stream!Next]_(Stream!vars)
<1>1. UNCHANGED <<Solutions(prob), Enumerating /\ pc = "search", IF Enumerating THEN Emitted ELSE {},
                 Enumerating /\ pc = "idle" /\ stats.exhausted /\ call.limit > 0>>
  BY DEF Solutions, Assignments, Enumerating
<1> QED
  BY <1>1 DEF Stream!vars

\* What an exhausted answer is worth.
LEMMA CompleteMeansAll ==
  ASSUME StreamInv', Enumerating', pc' = "idle"
  PROVE  ((stats.exhausted /\ call.limit > 0) \in {FALSE, Solutions(prob) = Emitted})'
<1>1. CASE ~(stats'.exhausted /\ call'.limit > 0)
  BY <1>1
<1>2. CASE stats'.exhausted /\ call'.limit > 0
  <2>1. \A s \in Solutions(prob)' : s \in Emitted'
    BY <1>2 DEF Enumerating, StreamInv, NothingIsLost, Ahead
  <2>2. Emitted' \subseteq Solutions(prob)'
    BY DEF Enumerating, StreamInv
  <2>3. Solutions(prob)' = Emitted'
    BY <2>1, <2>2
  <2> QED
    BY <1>2, <2>3
<1> QED
  BY <1>1, <1>2

LEMMA BeginRefines ==
  ASSUME SearchInv, StreamInv', SearchInv', NEW c \in Calls, Begin(c), c.op = "enumerate"
  PROVE  [Stream!Next]_(Stream!vars)
<1>1. /\ pc = "idle" /\ call' = c /\ out' = <<>> /\ prob' = prob
      /\ pc' \in {"idle", "search"}
  BY DEF Begin, problemVars
<1>2. Emitted' = {} /\ Enumerating' /\ Solutions(prob)' = Solutions(prob)
  BY <1>1 DEF Emitted, Enumerating, Solutions, Assignments
<1>3. CASE pc' = "search"
  BY <1>1, <1>2, <1>3 DEF Stream!Next, Stream!Ask
<1>4. CASE pc' = "idle"
  <2>1. (stats'.exhausted /\ call'.limit > 0) \in {FALSE, Solutions(prob) = {}}
    <3>1. ((stats.exhausted /\ call.limit > 0) \in {FALSE, Solutions(prob) = Emitted})'
      BY <1>2, <1>4, CompleteMeansAll
    <3> QED
      BY <1>2, <3>1
  <2> QED
    BY <1>1, <1>2, <1>4, <2>1 DEF Stream!Next, Stream!Ask
<1> QED
  BY <1>1, <1>3, <1>4

LEMMA EmitRefines ==
  ASSUME SearchInv, StreamInv, SearchInv', StreamInv', EmitValue
  PROVE  [Stream!Next]_(Stream!vars)
<1>1. /\ call.op = "enumerate" /\ call' = call /\ pc = "search" /\ pos = N + 1 /\ prob' = prob
      /\ pc' \in {"idle", "search"} /\ out' = Append(out, work)
  BY DEF EmitValue, problemVars, Return, Stop
<1>2. work \in Solutions(prob) /\ work \in Assignments(prob) /\ Ahead(work)
  BY <1>1, VisitedIsSolution DEF Solutions, Ahead
<1>3. work \notin Emitted
  <2>1. \A i \in DOMAIN out : Precedes(out[i], work)
    BY <1>1, <1>2 DEF StreamInv
  <2>2. ~Precedes(work, work)
    <3>1. \A k \in Position : work[order[k]] \in Int
      BY OrderFacts DEF SearchInv, TypeOK
    <3> QED
      BY <3>1 DEF Precedes, TakenBefore
  <2> QED
    BY <2>1, <2>2 DEF Emitted
<1>4. Emitted' = Emitted \cup {work}
  <2>1. out \in Seq([Leaf -> Int]) /\ work \in [Leaf -> Int]
    BY DEF SearchInv, TypeOK
  <2>2. /\ Len(out) \in Nat /\ DOMAIN out = 1 .. Len(out) /\ DOMAIN out' = 1 .. Len(out) + 1
        /\ out'[Len(out) + 1] = work
        /\ \A i \in DOMAIN out : out'[i] = out[i]
    BY <1>1, <2>1
  <2>3. /\ \A i \in DOMAIN out' : i \in DOMAIN out \/ i = Len(out) + 1
        /\ Len(out) + 1 \in DOMAIN out' /\ \A i \in DOMAIN out : i \in DOMAIN out'
    BY <2>2
  <2> QED
    BY <2>2, <2>3 DEF Emitted
<1>5. Enumerating /\ Enumerating' /\ Solutions(prob)' = Solutions(prob)
  BY <1>1 DEF Enumerating, Solutions, Assignments
<1>6. CASE pc' = "search"
  BY <1>1, <1>2, <1>3, <1>4, <1>5, <1>6 DEF Stream!Next, Stream!Emit
<1>7. CASE pc' = "idle"
  <2>1. ((stats.exhausted /\ call.limit > 0) \in {FALSE, Solutions(prob) = Emitted})'
    BY <1>5, <1>7, CompleteMeansAll
  <2> QED
    BY <1>1, <1>2, <1>3, <1>4, <1>5, <1>7, <2>1 DEF Stream!Next, Stream!Emit
<1> QED
  BY <1>1, <1>6, <1>7

\* A step of the search that produces no value.
LEMMA QuietRefines ==
  ASSUME SearchInv', StreamInv', Enumerating, UNCHANGED <<prob, call, out>>,
         pc = "search", pc' \in {"idle", "search"}
  PROVE  [Stream!Next]_(Stream!vars)
<1>1. Enumerating' /\ Emitted' = Emitted /\ Solutions(prob)' = Solutions(prob)
  BY DEF Enumerating, Emitted, Solutions, Assignments
<1>2. CASE pc' = "search"
  BY <1>1, <1>2 DEF Stream!vars
<1>3. CASE pc' = "idle"
  <2>1. ((stats.exhausted /\ call.limit > 0) \in {FALSE, Solutions(prob) = Emitted})'
    BY <1>1, <1>3, CompleteMeansAll
  <2> QED
    BY <1>1, <1>3, <2>1 DEF Stream!Next, Stream!Finish
<1> QED
  BY <1>2, <1>3

LEMMA StreamRefined ==
  SearchInv /\ StreamInv /\ SearchInv' /\ StreamInv' /\ [Next]_vars => [Stream!Next]_(Stream!vars)
<1> SUFFICES ASSUME SearchInv, StreamInv, SearchInv', StreamInv', [Next]_vars
             PROVE  [Stream!Next]_(Stream!vars)
  OBVIOUS
<1> USE DEF problemVars, searchVars, resultVars
<1>0. CASE UNCHANGED vars
  BY <1>0 DEF vars, Stream!vars, Solutions, Assignments, Enumerating, Emitted
<1>1. ASSUME NEW c \in Calls, Begin(c) \/ BeginLocal(c) PROVE [Stream!Next]_(Stream!vars)
  <2>1. CASE c.op = "enumerate"
    BY <1>1, <2>1, BeginRefines DEF BeginLocal
  <2>2. CASE c.op # "enumerate" /\ call.op # "enumerate"
    BY <1>1, <2>2, OtherCallsStutter DEF Begin, BeginLocal
  <2>3. CASE c.op # "enumerate" /\ call.op = "enumerate"
    <3>1. pc = "idle" /\ prob' = prob /\ ~Enumerating'
      BY <1>1, <2>3 DEF Begin, BeginLocal, Enumerating
    <3>2. Solutions(prob)' = Solutions(prob)
      BY <3>1 DEF Solutions, Assignments
    <3> QED
      BY <3>1, <3>2 DEF Stream!Next, Stream!Ask
  <2> QED
    BY <2>1, <2>2, <2>3
<1>2. ASSUME NEW v, Descend(v) \/ Reject(v) PROVE [Stream!Next]_(Stream!vars)
  <2>1. pc = "search" /\ pc' = pc /\ UNCHANGED <<prob, call, out>>
    BY <1>2 DEF Descend, Reject, Tries
  <2> QED
    BY <2>1, QuietRefines, OtherCallsStutter DEF Enumerating
<1>3. CASE GiveUp \/ Backtrack \/ BreakOff
  <2>1. pc = "search" /\ pc' \in {"idle", "search"} /\ UNCHANGED <<prob, call, out>>
    BY <1>3 DEF GiveUp, Backtrack, BreakOff, Return, Stop
  <2> QED
    BY <2>1, QuietRefines, OtherCallsStutter DEF Enumerating
<1>4. CASE EmitValue
  BY <1>4, EmitRefines
<1>5. CASE CountValue \/ KeepNearest
  BY <1>5, OtherCallsStutter DEF CountValue, KeepNearest
<1>6. CASE LocalGiveUp \/ LocalFound \/ LocalStuck \/ \E l \in Leaf : LocalMove(l)
  <2>1. call.op = "min_conflicts" /\ call' = call /\ prob' = prob
    BY <1>6 DEF LocalGiveUp, LocalFound, LocalStuck, LocalMove, LocalReturn, SearchInv, LocalInv
  <2> QED
    BY <2>1, OtherCallsStutter
<1> QED
  BY <1>0, <1>1, <1>2, <1>3, <1>4, <1>5, <1>6 DEF Next, Step

(* The safety part of the refinement: whatever enumerate does, its callers *)
(* see a stream of distinct solutions, complete when it says so.           *)
THEOREM EnumerateIsAStream == Spec => Stream!Init /\ [][Stream!Next]_(Stream!vars)
<1>1. Init => Stream!Init
  <2> SUFFICES ASSUME Init PROVE Stream!Init
    OBVIOUS
  <2>1. prob \in Problems /\ ~Enumerating
    BY DEF Init, Enumerating
  <2> QED
    BY <2>1, SolutionsAreInts DEF Stream!Init
<1>2. SearchInv /\ StreamInv /\ SearchInv' /\ StreamInv' /\ [Next]_vars
        => [Stream!Next]_(Stream!vars)
  BY StreamRefined
<1> QED
  BY <1>1, <1>2, StreamAlways, PTL DEF Spec
=============================================================================
