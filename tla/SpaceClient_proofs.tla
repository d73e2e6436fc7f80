------------------------- MODULE SpaceClient_proofs -------------------------
(***************************************************************************)
(* A walk over the values of a space reaches what its start can reach and  *)
(* counts the components of the space; whatever spaces the constructors    *)
(* are given and however they are combined, members, listing, draws and    *)
(* projections agree.                                                      *)
(***************************************************************************)
EXTENDS SpaceClient, Induction, FunctionTheorems, SequenceTheorems

Distinct(s) == \A i, j \in DOMAIN s : s[i] = s[j] => i = j
-----------------------------------------------------------------------------
(* The values of a sequence, and repetition among them.                    *)

(* The queue of a walk before it begins, and when it does.                 *)
LEMMA ShortSeqs ==
  /\ SetOf(<<>>) = {} /\ Distinct(<<>>)
  /\ \A v : SetOf(<<v>>) = {v} /\ Distinct(<<v>>)
BY DEF SetOf, Distinct

(* Taking the first value of the queue.                                    *)
LEMMA HeadAndTail ==
  ASSUME NEW T, NEW s \in Seq(T), s # <<>>
  PROVE  /\ SetOf(s) = {Head(s)} \cup SetOf(Tail(s))
         /\ Distinct(s) => Head(s) \notin SetOf(Tail(s)) /\ Distinct(Tail(s))
<1>1. /\ Len(s) \in Nat \ {0} /\ DOMAIN s = 1 .. Len(s) /\ Head(s) = s[1]
      /\ DOMAIN Tail(s) = 1 .. Len(s) - 1
      /\ \A i \in 1 .. Len(s) - 1 : Tail(s)[i] = s[i + 1]
  BY HeadTailProperties, EmptySeq, LenProperties
<1>2. \A i \in 1 .. Len(s) : i = 1 \/ (i - 1 \in 1 .. Len(s) - 1 /\ Tail(s)[i - 1] = s[i])
  BY <1>1
<1>3. SetOf(s) = {Head(s)} \cup SetOf(Tail(s))
  <2>1. ASSUME NEW i \in 1 .. Len(s) PROVE s[i] \in {Head(s)} \cup SetOf(Tail(s))
    <3>1. CASE i = 1
      BY <1>1, <3>1
    <3>2. CASE i # 1
      <4>1. i - 1 \in DOMAIN Tail(s) /\ Tail(s)[i - 1] = s[i]
        BY <1>1, <1>2, <3>2
      <4> QED
        BY <4>1 DEF SetOf
    <3> QED
      BY <3>1, <3>2
  <2>2. {Head(s)} \cup SetOf(Tail(s)) \subseteq SetOf(s)
    BY <1>1 DEF SetOf
  <2> QED
    BY <1>1, <2>1, <2>2 DEF SetOf
<1>4. Distinct(s) => Head(s) \notin SetOf(Tail(s)) /\ Distinct(Tail(s))
  BY <1>1 DEF SetOf, Distinct
<1> QED
  BY <1>3, <1>4

(* A value joins the output.                                               *)
LEMMA Appended ==
  ASSUME NEW T, NEW s \in Seq(T), NEW e \in T
  PROVE  /\ SetOf(Append(s, e)) = SetOf(s) \cup {e}
         /\ Distinct(s) /\ e \notin SetOf(s) => Distinct(Append(s, e))
<1>1. /\ Len(s) \in Nat /\ DOMAIN s = 1 .. Len(s) /\ DOMAIN Append(s, e) = 1 .. Len(s) + 1
      /\ \A i \in 1 .. Len(s) : Append(s, e)[i] = s[i]
      /\ Append(s, e)[Len(s) + 1] = e
  BY AppendProperties, LenProperties
<1> QED
  BY <1>1 DEF SetOf, Distinct

(* Neighbours join the queue.                                              *)
LEMMA Joined ==
  ASSUME NEW T, NEW s \in Seq(T), NEW t \in Seq(T)
  PROVE  /\ SetOf(s \o t) = SetOf(s) \cup SetOf(t)
         /\ Distinct(s) /\ Distinct(t) /\ SetOf(s) \cap SetOf(t) = {} => Distinct(s \o t)
<1>1. /\ Len(s) \in Nat /\ Len(t) \in Nat /\ DOMAIN s = 1 .. Len(s) /\ DOMAIN t = 1 .. Len(t)
      /\ DOMAIN (s \o t) = 1 .. Len(s) + Len(t)
      /\ \A i \in 1 .. Len(s) + Len(t) : (s \o t)[i] = IF i <= Len(s) THEN s[i] ELSE t[i - Len(s)]
  BY ConcatProperties, LenProperties
<1>2. \A i \in 1 .. Len(s) : (s \o t)[i] = s[i]
  BY <1>1
<1>3. \A i \in 1 .. Len(t) : Len(s) + i \in DOMAIN (s \o t) /\ (s \o t)[Len(s) + i] = t[i]
  BY <1>1
<1>4. \A i \in DOMAIN (s \o t) : i \in 1 .. Len(s) \/ i - Len(s) \in 1 .. Len(t)
  BY <1>1
<1>5. SetOf(s \o t) = SetOf(s) \cup SetOf(t)
  <2>1. SetOf(s \o t) \subseteq SetOf(s) \cup SetOf(t)
    BY <1>1, <1>4 DEF SetOf
  <2>2. SetOf(s) \cup SetOf(t) \subseteq SetOf(s \o t)
    <3>1. ASSUME NEW i \in 1 .. Len(s) PROVE s[i] \in SetOf(s \o t)
      <4>1. i \in DOMAIN (s \o t) /\ (s \o t)[i] = s[i]
        BY <1>1, <1>2
      <4> QED
        BY <4>1 DEF SetOf
    <3>2. ASSUME NEW i \in 1 .. Len(t) PROVE t[i] \in SetOf(s \o t)
      BY <1>3 DEF SetOf
    <3> QED
      BY <1>1, <3>1, <3>2 DEF SetOf
  <2> QED
    BY <2>1, <2>2
<1>6. /\ \A i \in 1 .. Len(s) : (s \o t)[i] \in SetOf(s)
      /\ \A i \in DOMAIN (s \o t) : i \notin 1 .. Len(s) => (s \o t)[i] \in SetOf(t)
  <2>1. \A i \in 1 .. Len(s) : s[i] \in SetOf(s)
    BY <1>1 DEF SetOf
  <2>2. \A i \in 1 .. Len(t) : t[i] \in SetOf(t)
    BY <1>1 DEF SetOf
  <2>3. \A i \in DOMAIN (s \o t) : i \notin 1 .. Len(s) => (s \o t)[i] = t[i - Len(s)]
    BY <1>1
  <2> QED
    BY <1>2, <1>4, <2>1, <2>2, <2>3
<1>7. ASSUME Distinct(s), Distinct(t), SetOf(s) \cap SetOf(t) = {},
             NEW i \in DOMAIN (s \o t), NEW j \in DOMAIN (s \o t), (s \o t)[i] = (s \o t)[j]
      PROVE  i = j
  <2>1. CASE i \in 1 .. Len(s) /\ j \in 1 .. Len(s)
    BY <1>1, <1>2, <1>7, <2>1 DEF Distinct
  <2>2. CASE i \notin 1 .. Len(s) /\ j \notin 1 .. Len(s)
    <3>1. /\ i - Len(s) \in 1 .. Len(t) /\ (s \o t)[i] = t[i - Len(s)]
          /\ j - Len(s) \in 1 .. Len(t) /\ (s \o t)[j] = t[j - Len(s)]
      BY <1>1, <2>2
    <3>2. i - Len(s) = j - Len(s)
      BY <1>1, <1>7, <3>1 DEF Distinct
    <3> QED
      BY <1>1, <3>2
  <2>3. CASE i \in 1 .. Len(s) /\ j \notin 1 .. Len(s)
    BY <1>7, <1>6, <2>3
  <2>4. CASE i \notin 1 .. Len(s) /\ j \in 1 .. Len(s)
    BY <1>7, <1>6, <2>4
  <2> QED
    BY <2>1, <2>2, <2>3, <2>4
<1>8. Distinct(s) /\ Distinct(t) /\ SetOf(s) \cap SetOf(t) = {} => Distinct(s \o t)
  BY <1>7 DEF Distinct
<1> QED
  BY <1>5, <1>8

(* Neighbours found in any order are found once.                           *)
LEMMA OrderIsDistinct ==
  ASSUME NEW F, IsFiniteSet(F), NEW order \in [1 .. Cardinality(F) -> F], SetOf(order) = F
  PROVE  order \in Seq(F) /\ Distinct(order)
<1>1. Cardinality(F) \in Nat
  BY FS_CardinalityType
<1>2. order \in Surjection(1 .. Cardinality(F), F)
  BY DEF Surjection, SetOf
<1>3. IsFiniteSet(1 .. Cardinality(F)) /\ Cardinality(1 .. Cardinality(F)) = Cardinality(F)
  <2>1. 1 \in Int /\ Cardinality(F) \in Int
    BY <1>1
  <2> QED
    BY <1>1, <2>1, FS_Interval
<1>4. order \in Injection(1 .. Cardinality(F), F)
  BY <1>2, <1>3, FS_Surjection
<1>5. order \in Seq(F)
  BY <1>1, SeqDef
<1> QED
  BY <1>4, <1>5 DEF Injection, IsInjective, Distinct
-----------------------------------------------------------------------------
(* The walk.                                                               *)

\* The queue and the output are what was seen, each value once.
QueueInv ==
  /\ queue \in Seq(Members) /\ out \in Seq(Members)
  /\ seen = SetOf(out) \cup SetOf(queue)
  /\ SetOf(out) \cap SetOf(queue) = {}
  /\ Distinct(out) /\ Distinct(queue)
  /\ Len(out) <= limit

\* What was expanded has all its neighbours seen, and nothing was seen without a cause.
ClosureInv ==
  /\ \A v \in SetOf(out) : Adjacent(v) \subseteq seen
  /\ \A S \in SUBSET Members : Covers(S, from) => seen \subseteq S
  /\ op \in {"reachable", "reached"} /\ from \in Members /\ limit > 0 => from \in seen

WalkInv ==
  /\ graph \in Graphs
  /\ limit \in Nat
  /\ todo \in Seq(Members)
  /\ QueueInv /\ ClosureInv
  /\ op = "reached" => ~Walking

(* Wherever a walk begins, it has seen its start, if that is a member.     *)
LEMMA BeginHolds ==
  ASSUME WalkInv, NEW v, NEW n \in Nat, Begin(v, n), UNCHANGED graph
  PROVE  /\ limit' = n
         /\ QueueInv'
         /\ (\A u \in SetOf(out) : Adjacent(u) \subseteq seen)'
         /\ (\A S \in SUBSET Members : Covers(S, from) => seen \subseteq S)'
         /\ (from \in Members /\ limit > 0 => from \in seen)'
<1>1. out' = <<>> /\ SetOf(out') = {} /\ Distinct(out') /\ Len(out') = 0 /\ out' \in Seq(Members')
  BY ShortSeqs, EmptySeq DEF Begin
<1>2. CASE v \in Members /\ n > 0
  <2>1. queue' = <<v>> /\ seen' = {v} /\ from' = v /\ limit' = n /\ Members' = Members
    BY <1>2 DEF Begin, Members
  <2>2. SetOf(queue') = {v} /\ Distinct(queue') /\ queue' \in Seq(Members')
    BY <1>2, <2>1, ShortSeqs
  <2> QED
    BY <1>1, <1>2, <2>1, <2>2 DEF QueueInv, Covers
<1>3. CASE ~(v \in Members /\ n > 0)
  <2>1. queue' = <<>> /\ seen' = {} /\ from' = v /\ limit' = n /\ Members' = Members
    BY <1>3 DEF Begin, Members
  <2>2. SetOf(queue') = {} /\ Distinct(queue') /\ queue' \in Seq(Members')
    BY <2>1, ShortSeqs, EmptySeq
  <2> QED
    BY <1>1, <1>3, <2>1, <2>2 DEF QueueInv
<1> QED
  BY <1>2, <1>3

(* Expanding a value keeps the invariant of the walk.                      *)
LEMMA ExpandHolds ==
  ASSUME WalkInv, Expand
  PROVE  QueueInv' /\ ClosureInv'
<1> DEFINE cur == Head(queue)
           fresh == Adjacent(cur) \ seen
<1>1. PICK order \in [1 .. Cardinality(fresh) -> fresh] :
        SetOf(order) = fresh /\ queue' = Tail(queue) \o order
  BY DEF Expand
<1>2. /\ seen' = seen \cup fresh /\ out' = Append(out, cur)
      /\ queue # <<>> /\ Len(out) < limit
      /\ UNCHANGED <<graph, op, from, limit>> /\ Members' = Members
      /\ op \in {"reachable", "components"}
  BY DEF Expand, Walking, Members
<1>3. cur \in Members /\ Tail(queue) \in Seq(Members) /\ out \in Seq(Members) /\ queue \in Seq(Members)
  BY <1>2, HeadTailProperties DEF WalkInv, QueueInv
<1>4. Adjacent(cur) \subseteq Members /\ IsFiniteSet(Members)
  BY <1>3, WalkAssumption DEF WalkInv, Members, Adjacent
<1>5. IsFiniteSet(fresh)
  BY <1>4, FS_Subset
<1>6. order \in Seq(fresh) /\ Distinct(order)
  BY <1>1, <1>5, OrderIsDistinct
<1>7. order \in Seq(Members)
  BY <1>4, <1>6, SeqMonotonic
<1>8. /\ SetOf(queue) = {cur} \cup SetOf(Tail(queue))
      /\ cur \notin SetOf(Tail(queue)) /\ Distinct(Tail(queue))
  BY <1>2, <1>3, HeadAndTail DEF WalkInv, QueueInv
<1>9. SetOf(out') = SetOf(out) \cup {cur} /\ Distinct(out')
  BY <1>2, <1>3, <1>8, Appended DEF WalkInv, QueueInv
<1>10. SetOf(Tail(queue)) \cap SetOf(order) = {}
  BY <1>1, <1>8 DEF WalkInv, QueueInv
<1>11. SetOf(queue') = SetOf(Tail(queue)) \cup fresh /\ Distinct(queue')
  <2>1. Tail(queue) \in Seq(Members)
    BY <1>3
  <2>2. /\ SetOf(Tail(queue) \o order) = SetOf(Tail(queue)) \cup SetOf(order)
        /\ Distinct(Tail(queue) \o order)
    <3> DEFINE rest == Tail(queue)
    <3>1. rest \in Seq(Members) /\ Distinct(rest) /\ SetOf(rest) \cap SetOf(order) = {}
      BY <1>8, <1>10, <2>1
    <3> HIDE DEF rest, fresh
    <3>2. SetOf(rest \o order) = SetOf(rest) \cup SetOf(order) /\ Distinct(rest \o order)
      BY <1>6, <1>7, <3>1, Joined
    <3> QED
      BY <3>2 DEF rest
  <2> QED
    BY <1>1, <2>2
<1>12. queue' \in Seq(Members') /\ out' \in Seq(Members') /\ Len(out') = Len(out) + 1 /\ Len(out) \in Nat
  BY <1>1, <1>2, <1>3, <1>7, ConcatProperties, AppendProperties, LenProperties
<1>13. seen' = SetOf(out') \cup SetOf(queue')
  BY <1>2, <1>8, <1>9, <1>11 DEF WalkInv, QueueInv
<1>14. SetOf(out') \cap SetOf(queue') = {}
  BY <1>8, <1>9, <1>11 DEF WalkInv, QueueInv
<1>15. Len(out') <= limit'
  BY <1>2, <1>12 DEF WalkInv
<1>16. QueueInv'
  BY <1>9, <1>11, <1>12, <1>13, <1>14, <1>15 DEF QueueInv
<1>17. (\A v \in SetOf(out) : Adjacent(v) \subseteq seen)'
  BY <1>2, <1>9 DEF WalkInv, ClosureInv, Adjacent
<1>18. (\A S \in SUBSET Members : Covers(S, from) => seen \subseteq S)'
  <2> SUFFICES ASSUME NEW S \in SUBSET Members, Covers(S, from)
               PROVE  fresh \subseteq S /\ seen \subseteq S
    BY <1>2 DEF Covers, IsClosed, Adjacent
  <2>1. seen \subseteq S
    BY DEF WalkInv, ClosureInv
  <2>2. cur \in S
    BY <1>8, <2>1 DEF WalkInv, QueueInv
  <2> QED
    BY <2>1, <2>2 DEF Covers, IsClosed
<1>19. (op \in {"reachable", "reached"} /\ from \in Members /\ limit > 0 => from \in seen)'
  BY <1>2 DEF WalkInv, ClosureInv
<1> QED
  BY <1>16, <1>17, <1>18, <1>19 DEF ClosureInv

(* Before a walk and between two nothing is seen.                          *)
LEMMA NothingSeen ==
  ASSUME graph \in Graphs, limit \in Nat, queue = <<>>, seen = {}, out = <<>>,
         op \notin {"reachable", "reached"}
  PROVE  QueueInv /\ ClosureInv
<1>1. SetOf(queue) = {} /\ SetOf(out) = {} /\ Distinct(queue) /\ Distinct(out) /\ Len(out) = 0
  BY ShortSeqs, EmptySeq
<1> QED
  BY <1>1, EmptySeq DEF QueueInv, ClosureInv

(* The same of the state after a step.                                     *)
LEMMA NothingSeenNext ==
  ASSUME graph' \in Graphs, limit' \in Nat, queue' = <<>>, seen' = {}, out' = <<>>,
         op' \notin {"reachable", "reached"}
  PROVE  QueueInv' /\ ClosureInv'
<1>1. SetOf(queue') = {} /\ SetOf(out') = {} /\ Distinct(queue') /\ Distinct(out') /\ Len(out') = 0
  BY ShortSeqs, EmptySeq
<1> QED
  BY <1>1, EmptySeq DEF QueueInv, ClosureInv

(* No client has called yet.                                               *)
LEMMA WalkInit == Init => WalkInv
<1> SUFFICES ASSUME Init PROVE WalkInv
  OBVIOUS
<1>1. graph \in Graphs /\ limit = 0 /\ queue = <<>> /\ seen = {} /\ out = <<>> /\ op = "idle" /\ todo = <<>>
  BY DEF Init, Start
<1> QED
  BY <1>1, NothingSeen, EmptySeq DEF WalkInv

(* connected_components looks at members only.                             *)
LEMMA ListedAreMembers ==
  ASSUME graph \in Graphs, NEW n \in Nat
  PROVE  Listed(n) \in Seq(Members)
<1>1. graph.listing \in Seq(Members) /\ Len(graph.listing) \in Nat
  BY WalkAssumption, LenProperties DEF Members
<1> DEFINE last == IF n < Len(graph.listing) THEN n ELSE Len(graph.listing)
<1>2. last \in Int /\ 1 \in Int /\ \A i \in 1 .. last : graph.listing[i] \in Members
  BY <1>1, ElementOfSeq
<1>3. SubSeq(graph.listing, 1, last) \in Seq(Members)
  <2> HIDE DEF last
  <2> QED BY <1>2, SubSeqProperties
<1> QED
  BY <1>3 DEF Listed

(* Every call, and every turn of a loop, keeps the invariant.              *)
LEMMA WalkStep == WalkInv /\ [Next]_vars => WalkInv'
<1> SUFFICES ASSUME WalkInv, [Next]_vars PROVE WalkInv'
  OBVIOUS
<1>1. ASSUME NEW v \in Values, NEW n \in Limits, Reachable(v, n) PROVE WalkInv'
  <2>1. n \in Nat /\ op' = "reachable" /\ Begin(v, n) /\ UNCHANGED <<graph, todo>>
    BY <1>1, WalkAssumption DEF Reachable
  <2> QED
    BY <2>1, BeginHolds DEF WalkInv, ClosureInv, Members
<1>2. CASE Expand
  <2>1. QueueInv' /\ ClosureInv'
    BY <1>2, ExpandHolds
  <2> QED
    BY <1>2, <2>1 DEF WalkInv, Expand, Members
<1>3. CASE Return
  <2>1. op' = "reached" /\ op = "reachable" /\ ~Walking /\ UNCHANGED <<graph, from, limit, walkVars, todo>>
    BY <1>3 DEF Return
  <2> QED
    BY <2>1 DEF WalkInv, QueueInv, ClosureInv, Walking, walkVars, Members, Adjacent, Covers, IsClosed
<1>4. ASSUME NEW n \in Limits, Components(n) PROVE WalkInv'
  <2>1. /\ graph' \in Graphs /\ limit' \in Nat /\ queue' = <<>> /\ seen' = {} /\ out' = <<>>
        /\ op' = "components" /\ Members' = Members
    BY <1>4, WalkAssumption DEF Components, WalkInv, Members
  <2>2. QueueInv' /\ ClosureInv'
    BY <2>1, NothingSeenNext
  <2>3. todo' \in Seq(Members')
    BY <1>4, <2>1, ListedAreMembers DEF Components
  <2> QED
    BY <2>1, <2>2, <2>3 DEF WalkInv
<1>5. CASE NextMember
  <2>1. /\ op' = "components" /\ UNCHANGED graph /\ Members' = Members /\ todo # <<>> /\ todo' = Tail(todo)
    BY <1>5 DEF NextMember, Members
  <2>2. todo' \in Seq(Members')
    BY <2>1, HeadTailProperties DEF WalkInv
  <2>3. CASE NewComponent(Head(todo))
    <3>1. Begin(Head(todo), limit) /\ limit \in Nat
      BY <1>5, <2>3 DEF NextMember, WalkInv
    <3> QED
      BY <2>1, <2>2, <3>1, BeginHolds DEF WalkInv, ClosureInv
  <2>4. CASE ~NewComponent(Head(todo))
    <3>1. graph' \in Graphs /\ limit' \in Nat /\ queue' = <<>> /\ seen' = {} /\ out' = <<>>
      BY <1>5, <2>4 DEF NextMember, WalkInv
    <3>2. QueueInv' /\ ClosureInv'
      BY <2>1, <3>1, NothingSeenNext
    <3> QED
      BY <2>1, <2>2, <3>1, <3>2 DEF WalkInv
  <2> QED
    BY <2>3, <2>4
<1>6. CASE Count
  <2>1. op' = "counted" /\ UNCHANGED <<graph, from, limit, walkVars, todo>>
    BY <1>6 DEF Count
  <2> QED
    BY <2>1 DEF WalkInv, QueueInv, ClosureInv, Walking, walkVars, Members, Adjacent, Covers, IsClosed
<1>7. CASE UNCHANGED vars
  BY <1>7 DEF vars, WalkInv, QueueInv, ClosureInv, Walking, walkVars, Members, Adjacent, Covers, IsClosed
<1> QED
  BY <1>1, <1>2, <1>3, <1>4, <1>5, <1>6, <1>7 DEF Next

\* What the invariant says of a walk that has returned.
LEMMA WalkFinds == WalkInv => ReachableIsClosure
<1> SUFFICES ASSUME WalkInv, op = "reached" PROVE
      /\ Len(out) <= limit
      /\ \A i, j \in DOMAIN out : out[i] = out[j] => i = j
      /\ \A S \in SUBSET Members : Covers(S, from) => SetOf(out) \subseteq S
      /\ Len(out) < limit /\ from \in Members => Covers(SetOf(out), from)
  BY DEF ReachableIsClosure
<1>1. Len(out) <= limit /\ Distinct(out) /\ SetOf(out) \subseteq seen
  BY DEF WalkInv, QueueInv
<1>2. \A S \in SUBSET Members : Covers(S, from) => SetOf(out) \subseteq S
  BY <1>1 DEF WalkInv, ClosureInv
<1>3. ASSUME Len(out) < limit, from \in Members PROVE Covers(SetOf(out), from)
  <2>1. queue = <<>> /\ seen = SetOf(out)
    BY <1>3, ShortSeqs DEF WalkInv, QueueInv, Walking
  <2>2. limit > 0
    BY <1>3, LenProperties DEF WalkInv, QueueInv
  <2> QED
    BY <1>3, <2>1, <2>2 DEF WalkInv, ClosureInv, Covers, IsClosed
<1> QED
  BY <1>1, <1>2, <1>3 DEF Distinct

(* What reachable returns is what its start can reach, without repetition  *)
(* and within the limit, and all of it if the limit did not end the walk.  *)
THEOREM WalksAreClosures == Spec => []ReachableIsClosure
<1> QED
  BY WalkFinds, WalkInit, WalkStep, PTL DEF Spec
-----------------------------------------------------------------------------
(* Components.                                                             *)

\* A set that no neighbour leaves.
ClosedIn(g, S) == \A v \in S : g.adjacent[v] \subseteq S

\* What is in a set or next to it.
Grown(g, S) == S \cup UNION {g.adjacent[u] : u \in S}

\* The recursion of ComponentOf has a solution, so its last value is the component.
LEMMA WithinFacts ==
  ASSUME NEW g, NEW v, Cardinality(g.members) \in Nat
  PROVE  \E h : /\ ComponentOf(g, v) = h[Cardinality(g.members)]
                /\ h[0] = {v}
                /\ \A k \in 1 .. Cardinality(g.members) : h[k] = Grown(g, h[k - 1])
<1> DEFINE n == Cardinality(g.members)
           Rec(h, m) == h = [k \in 0 .. m |-> IF k = 0 THEN {v} ELSE Grown(g, h[k - 1])]
           S == {m \in Nat : \E h : Rec(h, m)}
<1>1. 0 \in S
  <2>1. Rec([k \in 0 .. 0 |-> {v}], 0)
    OBVIOUS
  <2> QED
    BY <2>1
<1>2. ASSUME NEW m \in Nat, m \in S PROVE m + 1 \in S
  <2>1. PICK h : Rec(h, m)
    BY <1>2
  <2> DEFINE f == [k \in 0 .. m + 1 |-> IF k <= m THEN h[k] ELSE Grown(g, h[m])]
  <2>2. ASSUME NEW k \in 0 .. m + 1 PROVE f[k] = IF k = 0 THEN {v} ELSE Grown(g, f[k - 1])
    <3>1. CASE k <= m
      <4>1. k \in 0 .. m /\ f[k] = h[k] /\ (k # 0 => f[k - 1] = h[k - 1])
        BY <3>1
      <4>2. h[k] = IF k = 0 THEN {v} ELSE Grown(g, h[k - 1])
        BY <2>1, <4>1
      <4> QED
        BY <4>1, <4>2
    <3>2. CASE k = m + 1
      <4>1. f[k] = Grown(g, h[m]) /\ f[k - 1] = h[m] /\ k # 0
        BY <3>2
      <4> QED
        BY <4>1
    <3> QED
      BY <3>1, <3>2
  <2>3. f = [k \in 0 .. m + 1 |-> f[k]]
    OBVIOUS
  <2> HIDE DEF f
  <2>4. Rec(f, m + 1)
    BY <2>2, <2>3
  <2> QED
    BY <2>4
<1>3. n \in S
  <2> HIDE DEF S
  <2> QED
    BY <1>1, <1>2, NumberInduction
<1> DEFINE T == CHOOSE h : Rec(h, n)
<1>4. ComponentOf(g, v) = T[n]
  BY DEF ComponentOf, Grown
<1> HIDE DEF T
<1>5. Rec(T, n)
  BY <1>3 DEF T
<1>6. T[0] = {v} /\ \A k \in 1 .. n : T[k] = Grown(g, T[k - 1])
  <2>1. n \in Nat
    OBVIOUS
  <2> HIDE DEF n
  <2>2. T[0] = {v}
    BY <1>5, <2>1
  <2>3. ASSUME NEW k \in 1 .. n PROVE T[k] = Grown(g, T[k - 1])
    <3>1. k \in 0 .. n /\ k # 0
      BY <2>1
    <3> QED
      BY <1>5, <3>1
  <2> QED
    BY <2>2, <2>3
<1> QED
  BY <1>4, <1>6

\* The component of a member is the least closed set that holds it: either a step finds
\* nothing new, or there are as many members as steps.
LEMMA ComponentFacts ==
  ASSUME NEW g \in Graphs, NEW v \in g.members
  PROVE  /\ ComponentOf(g, v) \subseteq g.members /\ v \in ComponentOf(g, v)
         /\ ClosedIn(g, ComponentOf(g, v))
         /\ \A S \in SUBSET g.members : v \in S /\ ClosedIn(g, S) => ComponentOf(g, v) \subseteq S
<1>1. PICK M, n : M = g.members /\ n = Cardinality(M)
  OBVIOUS
<1>2. IsFiniteSet(M) /\ n \in Nat /\ \A u \in M : g.adjacent[u] \subseteq M
  BY <1>1, WalkAssumption, FS_CardinalityType
<1>3. PICK h : ComponentOf(g, v) = h[n] /\ h[0] = {v} /\ \A k \in 1 .. n : h[k] = Grown(g, h[k - 1])
  <2>1. \E h : ComponentOf(g, v) = h[Cardinality(g.members)] /\ h[0] = {v}
               /\ \A k \in 1 .. Cardinality(g.members) : h[k] = Grown(g, h[k - 1])
    BY <1>1, <1>2, WithinFacts
  <2> QED
    BY <1>1, <2>1
<1> DEFINE Good(k) == /\ h[k] \subseteq M /\ v \in h[k]
                      /\ ClosedIn(g, h[k]) \/ k + 1 <= Cardinality(h[k])
                      /\ \A S \in SUBSET M : v \in S /\ ClosedIn(g, S) => h[k] \subseteq S
           R == {k \in Nat : k <= n => Good(k)}
<1>4. 0 \in R
  <2>1. Cardinality({v}) = 1
    BY FS_Singleton
  <2>2. Good(0)
    BY <1>1, <1>3, <2>1
  <2> QED
    BY <2>2
<1>5. ASSUME NEW k \in Nat, k \in R PROVE k + 1 \in R
  <2>1. k + 1 \in Nat /\ (k + 1 <= n => k <= n /\ k + 1 \in 1 .. n /\ (k + 1) - 1 = k)
    BY <1>2
  <2>2. SUFFICES ASSUME k + 1 <= n PROVE Good(k + 1)
    BY <2>1
  <2>3. Good(k)
    BY <1>5, <2>1, <2>2
  <2>4. h[k + 1] = Grown(g, h[k])
    BY <1>3, <2>1, <2>2
  <2>5. PICK old, new : old = h[k] /\ new = h[k + 1]
    OBVIOUS
  <2>6. /\ old \subseteq M /\ v \in old /\ new = Grown(g, old)
        /\ ClosedIn(g, old) \/ k + 1 <= Cardinality(old)
        /\ \A S \in SUBSET M : v \in S /\ ClosedIn(g, S) => old \subseteq S
    BY <2>3, <2>4, <2>5
  <2>7. old \subseteq new /\ new \subseteq M
    BY <1>2, <2>6 DEF Grown
  <2>8. \A S \in SUBSET M : v \in S /\ ClosedIn(g, S) => new \subseteq S
    BY <2>6 DEF Grown, ClosedIn
  <2>9. CASE new = old
    <3>1. ClosedIn(g, old)
      BY <2>6, <2>9 DEF Grown, ClosedIn
    <3> QED
      BY <2>5, <2>6, <2>7, <2>8, <2>9, <3>1
  <2>10. CASE new # old
    <3>1. ~ClosedIn(g, old)
      BY <2>6, <2>10 DEF Grown, ClosedIn
    <3>2. IsFiniteSet(new)
      BY <1>2, <2>7, FS_Subset
    <3>3. IsFiniteSet(old) /\ Cardinality(old) \in Nat /\ Cardinality(new) \in Nat /\ Cardinality(old) < Cardinality(new)
      BY <2>7, <2>10, <3>2, FS_Subset, FS_CardinalityType
    <3>4. (k + 1) + 1 <= Cardinality(new)
      BY <2>6, <3>1, <3>3
    <3> QED
      BY <2>5, <2>6, <2>7, <2>8, <3>4
  <2> QED
    BY <2>9, <2>10
<1>6. n \in R
  <2> HIDE DEF R
  <2> QED
    BY <1>2, <1>4, <1>5, NumberInduction
<1>7. Good(n)
  BY <1>2, <1>6
<1>8. PICK C : C = h[n]
  OBVIOUS
<1>9. C \subseteq M /\ Cardinality(C) <= n /\ Cardinality(C) \in Nat
  <2>1. C \subseteq M
    BY <1>7, <1>8
  <2> QED
    BY <1>1, <1>2, <2>1, FS_Subset, FS_CardinalityType
<1>10. ClosedIn(g, C)
  BY <1>2, <1>7, <1>8, <1>9
<1> QED
  BY <1>1, <1>3, <1>7, <1>8, <1>9, <1>10

\* If neighbours are mutual, what a member reaches has the same component.
LEMMA SameComponent ==
  ASSUME NEW g \in Graphs, Mutual(g), NEW v \in g.members, NEW u \in ComponentOf(g, v)
  PROVE  ComponentOf(g, u) = ComponentOf(g, v)
<1>1. PICK C, D : C = ComponentOf(g, v) /\ D = ComponentOf(g, u)
  OBVIOUS
<1>2. /\ C \subseteq g.members /\ v \in C /\ ClosedIn(g, C)
      /\ \A S \in SUBSET g.members : v \in S /\ ClosedIn(g, S) => C \subseteq S
  BY <1>1, ComponentFacts
<1>3. u \in g.members /\ u \in C
  BY <1>1, <1>2
<1>4. /\ D \subseteq g.members /\ u \in D /\ ClosedIn(g, D)
      /\ \A S \in SUBSET g.members : u \in S /\ ClosedIn(g, S) => D \subseteq S
  BY <1>1, <1>3, ComponentFacts
<1>5. D \subseteq C
  BY <1>2, <1>3, <1>4
<1>6. v \in D
  <2>1. SUFFICES ASSUME v \notin D PROVE FALSE
    OBVIOUS
  <2>2. ClosedIn(g, C \ D)
    <3>1. SUFFICES ASSUME NEW w \in C \ D, NEW x \in g.adjacent[w], x \in D PROVE FALSE
      BY <1>2 DEF ClosedIn
    <3>2. w \in g.members /\ x \in g.members
      BY <1>2, <1>4, <3>1
    <3>3. w \in g.adjacent[x]
      BY <3>1, <3>2 DEF Mutual
    <3> QED
      BY <1>4, <3>1, <3>3 DEF ClosedIn
  <2>3. v \in C \ D /\ C \ D \in SUBSET g.members
    BY <1>2, <2>1
  <2> QED
    BY <1>2, <1>3, <1>4, <2>2, <2>3
<1>7. C \subseteq D
  BY <1>2, <1>4, <1>6
<1> QED
  BY <1>1, <1>5, <1>7
-----------------------------------------------------------------------------
(* Counting.                                                               *)

Comps(g, S) == {ComponentOf(g, v) : v \in S}

\* The members listed that connected_components has looked at.
Looked == Len(Listed(limit)) - Len(todo)
Past   == {Listed(limit)[i] : i \in 1 .. Looked}

\* The member whose walk has not expanded it yet.
Starting == IF out = <<>> /\ queue # <<>> THEN {Head(queue)} ELSE {}

\* Where the loop over the members is.
ProgressInv ==
  /\ Looked \in Nat
  /\ \A i \in 1 .. Len(todo) : todo[i] = Listed(limit)[Looked + i]
  /\ visited \subseteq Members
  /\ op = "counted" => todo = <<>>

\* The members it has looked at were reached, and what was reached is in one of their
\* components; with a limit that no walk meets, the visited ones are closed.
ReachInv ==
  /\ Past \subseteq Reached \cup Starting
  /\ \A u \in visited \cup seen : \E v \in Past : u \in ComponentOf(graph, v)
  /\ Cardinality(Members) <= limit => IsClosed(visited)

\* The members looked at have as many components as were counted, if neighbours are mutual.
NumberInv ==
  /\ components \in Nat
  /\ components <= Cardinality(Past)
  /\ Mutual(graph) => Cardinality(Comps(graph, Past)) <= components
  /\ Cardinality(Members) <= limit => components <= Cardinality(Comps(graph, Past))

CountingInv == op \in {"components", "counted"} => ProgressInv /\ ReachInv /\ NumberInv

CountInv == WalkInv /\ CountingInv

\* The limit bounds what is listed.
LEMMA ListedLength ==
  ASSUME graph \in Graphs, NEW n \in Nat
  PROVE  Len(Listed(n)) \in Nat /\ Len(Listed(n)) <= n
<1> DEFINE all == graph.listing
           last == IF n < Len(all) THEN n ELSE Len(all)
<1>1. all \in Seq(Members) /\ Len(all) \in Nat
  BY WalkAssumption, LenProperties DEF Members
<1>2. last \in Nat /\ last <= n /\ \A i \in 1 .. last : all[i] \in Members
  BY <1>1, ElementOfSeq
<1> HIDE DEF last, all
<1>3. Len(SubSeq(all, 1, last)) = IF 1 <= last THEN last - 1 + 1 ELSE 0
  <2>1. 1 \in Int /\ last \in Int
    BY <1>2
  <2> QED
    BY <1>2, <2>1, SubSeqProperties
<1>4. Len(SubSeq(all, 1, last)) = last
  BY <1>2, <1>3
<1> QED
  BY <1>2, <1>4 DEF Listed, all, last

\* A walk that has ended has met the limit or expanded all it has seen.
LEMMA EndedWalk ==
  ASSUME WalkInv, ~Walking
  PROVE  /\ out = <<>> /\ limit > 0 => queue = <<>>
         /\ Cardinality(Members) <= limit => IsClosed(SetOf(out))
<1>1. Len(out) \in Nat /\ limit \in Nat /\ (out = <<>> => Len(out) = 0)
  BY LenProperties, EmptySeq DEF WalkInv, QueueInv
<1>2. queue = <<>> \/ Len(out) >= limit
  BY <1>1 DEF Walking
<1>3. ASSUME Cardinality(Members) <= limit PROVE IsClosed(SetOf(out))
  <2>1. CASE queue = <<>>
    <3>1. seen = SetOf(out)
      BY <2>1, ShortSeqs DEF WalkInv, QueueInv
    <3> QED
      BY <3>1 DEF WalkInv, ClosureInv, IsClosed
  <2>2. CASE Len(out) >= limit
    <3>1. IsFiniteSet(Members) /\ \A v \in Members : Adjacent(v) \subseteq Members
      BY WalkAssumption DEF WalkInv, Members, Adjacent
    <3>2. DOMAIN out = 1 .. Len(out) /\ SetOf(out) \subseteq Members
      BY LenProperties, ElementOfSeq DEF WalkInv, QueueInv, SetOf
    <3>3. out \in Bijection(1 .. Len(out), SetOf(out))
      <4>1. out \in [1 .. Len(out) -> SetOf(out)]
        <5>1. out = [i \in 1 .. Len(out) |-> out[i]]
          BY <1>1, LenProperties, SeqDef DEF WalkInv, QueueInv
        <5> QED
          BY <3>2, <5>1 DEF SetOf
      <4>2. out \in Injection(1 .. Len(out), SetOf(out))
        BY <3>2, <4>1 DEF WalkInv, QueueInv, Distinct, Injection, IsInjective
      <4>3. out \in Surjection(1 .. Len(out), SetOf(out))
        BY <3>2, <4>1 DEF Surjection, SetOf
      <4> QED
        BY <4>2, <4>3 DEF Bijection
    <3>4. Cardinality(SetOf(out)) = Len(out)
      BY <1>1, <3>3, FS_CountingElements DEF ExistsBijection
    <3>5. Cardinality(SetOf(out)) >= Cardinality(Members) /\ Cardinality(Members) \in Nat
      BY <1>1, <1>3, <2>2, <3>1, <3>4, FS_CardinalityType
    <3>6. SetOf(out) = Members
      BY <1>1, <3>1, <3>2, <3>4, <3>5, FS_Subset
    <3> QED
      BY <3>1, <3>6 DEF IsClosed
  <2> QED
    BY <1>2, <2>1, <2>2
<1>4. ASSUME out = <<>>, limit > 0 PROVE queue = <<>>
  BY <1>1, <1>2, <1>4
<1> QED
  BY <1>3, <1>4

\* A member that joins those looked at.
LEMMA CompsOfMore ==
  ASSUME NEW g \in Graphs, NEW S, S \subseteq g.members, NEW m \in g.members
  PROVE  /\ IsFiniteSet(S) /\ Cardinality(S) \in Nat /\ Cardinality(Comps(g, S)) \in Nat
         /\ m \notin S => Cardinality(S \cup {m}) = Cardinality(S) + 1
         /\ Cardinality(S) <= Cardinality(S \cup {m}) /\ Cardinality(S \cup {m}) \in Nat
         /\ Cardinality(Comps(g, S \cup {m})) \in Nat
         /\ ComponentOf(g, m) \in Comps(g, S) => Comps(g, S \cup {m}) = Comps(g, S)
         /\ Cardinality(Comps(g, S \cup {m})) <= Cardinality(Comps(g, S)) + 1
         /\ Cardinality(Comps(g, S)) <= Cardinality(Comps(g, S \cup {m}))
         /\ ComponentOf(g, m) \notin Comps(g, S) =>
              Cardinality(Comps(g, S \cup {m})) = Cardinality(Comps(g, S)) + 1
<1>1. IsFiniteSet(g.members)
  BY WalkAssumption
<1>2. IsFiniteSet(S)
  BY <1>1, FS_Subset
<1>3. Cardinality(S) \in Nat
  BY <1>2, FS_CardinalityType
<1>4. PICK c, C : c = ComponentOf(g, m) /\ C = Comps(g, S)
  OBVIOUS
<1>5. IsFiniteSet(C)
  <2> DEFINE f == [v \in S |-> ComponentOf(g, v)]
  <2>1. f \in Surjection(S, C)
    BY <1>4 DEF Surjection, Comps
  <2> HIDE DEF f
  <2> QED
    BY <1>2, <2>1, FS_Surjection
<1>6. Comps(g, S \cup {m}) = C \cup {c}
  BY <1>4 DEF Comps
<1>7. /\ IsFiniteSet(C \cup {c}) /\ Cardinality(C) \in Nat /\ Cardinality(C \cup {c}) \in Nat
      /\ Cardinality(C \cup {c}) = IF c \in C THEN Cardinality(C) ELSE Cardinality(C) + 1
  BY <1>5, FS_AddElement, FS_CardinalityType
<1>8. /\ IsFiniteSet(S \cup {m}) /\ Cardinality(S \cup {m}) \in Nat
      /\ Cardinality(S \cup {m}) = IF m \in S THEN Cardinality(S) ELSE Cardinality(S) + 1
  BY <1>2, FS_AddElement, FS_CardinalityType
<1>9. /\ m \notin S => Cardinality(S \cup {m}) = Cardinality(S) + 1
      /\ Cardinality(S) <= Cardinality(S \cup {m})
  BY <1>3, <1>8
<1>10. /\ c \in C => C \cup {c} = C
       /\ Cardinality(C \cup {c}) <= Cardinality(C) + 1 /\ Cardinality(C) <= Cardinality(C \cup {c})
       /\ c \notin C => Cardinality(C \cup {c}) = Cardinality(C) + 1
  BY <1>7
<1> QED
  BY <1>2, <1>3, <1>4, <1>6, <1>7, <1>8, <1>9, <1>10, Zenon

\* Another member is looked at.
LEMMA LookedAtOneMore ==
  ASSUME CountInv, NextMember
  PROVE  /\ limit > 0 /\ Head(todo) \in Members /\ Past \subseteq Members
         /\ UNCHANGED <<graph, limit>> /\ op = "components" /\ op' = "components"
         /\ Past' = Past \cup {Head(todo)} /\ Past \subseteq Reached
         /\ ProgressInv'
<1>1. /\ op = "components" /\ ~Walking /\ todo # <<>> /\ visited' = Reached /\ todo' = Tail(todo)
      /\ op' = "components" /\ UNCHANGED <<graph, limit>>
  BY DEF NextMember, Begin
<1>2. /\ graph \in Graphs /\ limit \in Nat /\ todo \in Seq(Members) /\ out \in Seq(Members)
      /\ WalkInv /\ ProgressInv /\ ReachInv
  BY <1>1 DEF CountInv, CountingInv, WalkInv, QueueInv
<1>3. PICK L, n, k : L = Listed(limit) /\ n = Len(todo) /\ k = Looked
  OBVIOUS
<1>4. /\ L \in Seq(Members) /\ Len(L) \in Nat /\ Len(L) <= limit /\ DOMAIN L = 1 .. Len(L)
      /\ \A i \in 1 .. Len(L) : L[i] \in Members
  BY <1>2, <1>3, ListedAreMembers, ListedLength, LenProperties, ElementOfSeq
<1>5. /\ n \in Nat /\ n >= 1 /\ Head(todo) = todo[1] /\ Head(todo) \in Members
      /\ Len(Tail(todo)) = n - 1 /\ \A i \in 1 .. n - 1 : Tail(todo)[i] = todo[i + 1]
  <2>1. Len(todo) \in Nat /\ Len(todo) # 0
    BY <1>1, <1>2, LenProperties, EmptySeq
  <2>2. /\ Head(todo) = todo[1] /\ Head(todo) \in Members
        /\ Len(Tail(todo)) = Len(todo) - 1
        /\ \A i \in 1 .. Len(todo) - 1 : Tail(todo)[i] = todo[i + 1]
    BY <1>1, <1>2, HeadTailProperties, LenProperties, ElementOfSeq, <2>1
  <2> QED
    BY <1>3, <2>1, <2>2
<1>6. k = Len(L) - n /\ k \in Nat /\ \A i \in 1 .. n : todo[i] = L[k + i]
  BY <1>2, <1>3 DEF ProgressInv, Looked
<1>7. limit > 0
  BY <1>2, <1>4, <1>5, <1>6
<1>8. Listed(limit)' = L
  BY <1>1, <1>3 DEF Listed
<1>9. Looked' = k + 1
  <2>1. Looked' = Len(L) - Len(Tail(todo))
    BY <1>1, <1>8 DEF Looked
  <2>2. Looked' = Len(L) - (n - 1)
    BY <1>5, <2>1
  <2>3. n \in Nat /\ Len(L) \in Nat /\ k = Len(L) - n
    BY <1>4, <1>5, <1>6
  <2> QED
    BY <2>2, <2>3
<1>10. Past = {L[i] : i \in 1 .. k} /\ Past' = {L[i] : i \in 1 .. k + 1}
  BY <1>3, <1>8, <1>9 DEF Past
<1>11. L[k + 1] = Head(todo) /\ k + 1 \in 1 .. Len(L)
  BY <1>4, <1>5, <1>6
<1>12. Past' = Past \cup {Head(todo)}
  <2>1. \A i : i \in 1 .. k + 1 <=> i \in 1 .. k \/ i = k + 1
    BY <1>6
  <2> QED
    BY <1>10, <1>11, <2>1
<1>13. Past \subseteq Members
  <2>1. \A i \in 1 .. k : i \in 1 .. Len(L)
    BY <1>4, <1>6, <1>11
  <2> QED
    BY <1>4, <1>10, <2>1
<1>14. Past \subseteq Reached
  <2>1. Starting = {}
    BY <1>1, <1>2, <1>7, EndedWalk DEF Starting
  <2> QED
    BY <1>2, <2>1 DEF ReachInv
<1>15. ProgressInv'
  <2>1. ASSUME NEW i \in 1 .. Len(todo') PROVE todo'[i] = L[(k + 1) + i]
    <3>1. i \in 1 .. n - 1 /\ i + 1 \in 1 .. n /\ (k + 1) + i = k + (i + 1)
      BY <1>1, <1>5, <1>6, <2>1
    <3> QED
      BY <1>1, <1>5, <1>6, <3>1
  <2>2. visited' \subseteq Members'
    <3>1. SetOf(out) \subseteq Members
      BY <1>2, LenProperties, ElementOfSeq DEF SetOf
    <3> QED
      BY <1>1, <1>2, <3>1 DEF ProgressInv, Reached, Members
  <2>3. k + 1 \in Nat
    BY <1>6
  <2> QED
    BY <1>1, <1>8, <1>9, <2>1, <2>2, <2>3 DEF ProgressInv
<1> QED
  BY <1>1, <1>5, <1>7, <1>12, <1>13, <1>14, <1>15

\* A walk begins, or does not: what was reached is in the components of the members looked at.
LEMMA NextMemberReaches ==
  ASSUME CountInv, NextMember
  PROVE  ReachInv'
<1> DEFINE m == Head(todo)
<1>1. /\ limit > 0 /\ m \in Members /\ Past \subseteq Members
      /\ UNCHANGED <<graph, limit>> /\ op = "components"
      /\ Past' = Past \cup {m} /\ Past \subseteq Reached
  BY LookedAtOneMore
<1>2. /\ ~Walking /\ visited' = Reached
      /\ \/ NewComponent(m) /\ Begin(m, limit)
         \/ ~NewComponent(m) /\ queue' = <<>> /\ seen' = {} /\ out' = <<>>
  BY DEF NextMember
<1>3. WalkInv /\ ProgressInv /\ ReachInv /\ graph \in Graphs /\ limit \in Nat
  BY <1>1 DEF CountInv, CountingInv, WalkInv
<1> HIDE DEF m
<1>4. out' = <<>> /\ SetOf(out') = {}
  BY <1>2, ShortSeqs DEF Begin
<1>5. /\ NewComponent(m) => queue' = <<m>> /\ seen' = {m}
      /\ ~NewComponent(m) => queue' = <<>> /\ seen' = {}
  BY <1>1, <1>2, <1>3 DEF Begin
<1>6. Reached' = Reached
  BY <1>2, <1>4 DEF Reached
<1>7. Past' \subseteq Reached' \cup Starting'
  <2>1. CASE NewComponent(m)
    <3>1. queue' = <<m>> /\ queue' # <<>> /\ Head(queue') = m
      BY <1>5, <2>1
    <3> QED
      BY <1>1, <1>4, <1>6, <3>1 DEF Starting
  <2>2. CASE ~NewComponent(m)
    BY <1>1, <1>6, <2>2 DEF NewComponent
  <2> QED
    BY <2>1, <2>2
<1>8. ASSUME NEW u \in visited' \cup seen' PROVE \E v \in Past' : u \in ComponentOf(graph, v)
  <2>1. CASE u \in Reached
    <3>1. u \in visited \cup seen
      BY <1>3, <2>1 DEF Reached, WalkInv, QueueInv
    <3> QED
      BY <1>1, <1>3, <3>1 DEF ReachInv
  <2>2. CASE u \notin Reached
    <3>1. u = m
      BY <1>2, <1>5, <1>8, <2>2
    <3>2. m \in ComponentOf(graph, m)
      BY <1>1, <1>3, ComponentFacts DEF Members
    <3> QED
      BY <1>1, <3>1, <3>2
  <2> QED
    BY <2>1, <2>2
<1>9. ASSUME Cardinality(Members) <= limit PROVE IsClosed(Reached)
  <2>1. IsClosed(SetOf(out)) /\ IsClosed(visited)
    BY <1>2, <1>3, <1>9, EndedWalk DEF ReachInv
  <2> QED
    BY <2>1 DEF IsClosed, Reached
<1>10. (Cardinality(Members) <= limit => IsClosed(visited))'
  BY <1>1, <1>2, <1>9 DEF IsClosed, Adjacent, Members
<1>11. (\A u \in visited \cup seen : \E v \in Past : u \in ComponentOf(graph, v))'
  BY <1>1, <1>8
<1> QED
  BY <1>7, <1>10, <1>11 DEF ReachInv

\* A member that was not reached counts as a component, and is one of its own.
LEMMA NextMemberCounts ==
  ASSUME CountInv, NextMember
  PROVE  NumberInv'
<1> DEFINE m == Head(todo)
<1>1. /\ limit > 0 /\ m \in Members /\ Past \subseteq Members
      /\ UNCHANGED <<graph, limit>> /\ op = "components"
      /\ Past' = Past \cup {m} /\ Past \subseteq Reached
  BY LookedAtOneMore
<1>2. /\ ~Walking
      /\ \/ NewComponent(m) /\ components' = components + 1
         \/ ~NewComponent(m) /\ components' = components
  BY DEF NextMember
<1>3. WalkInv /\ ProgressInv /\ ReachInv /\ NumberInv /\ graph \in Graphs /\ limit \in Nat
  BY <1>1 DEF CountInv, CountingInv, WalkInv
<1> HIDE DEF m
<1>4. PICK g, S, c : g = graph /\ S = Past /\ c = ComponentOf(g, m)
  OBVIOUS
<1>5. g \in Graphs /\ S \subseteq g.members /\ m \in g.members /\ graph' = g /\ Past' = S \cup {m}
  BY <1>1, <1>3, <1>4 DEF Members
<1>6. /\ Cardinality(S) \in Nat /\ Cardinality(Comps(g, S)) \in Nat
      /\ m \notin S => Cardinality(S \cup {m}) = Cardinality(S) + 1
      /\ Cardinality(S) <= Cardinality(S \cup {m}) /\ Cardinality(S \cup {m}) \in Nat
      /\ Cardinality(Comps(g, S \cup {m})) \in Nat
      /\ c \in Comps(g, S) => Comps(g, S \cup {m}) = Comps(g, S)
      /\ Cardinality(Comps(g, S \cup {m})) <= Cardinality(Comps(g, S)) + 1
      /\ Cardinality(Comps(g, S)) <= Cardinality(Comps(g, S \cup {m}))
      /\ c \notin Comps(g, S) => Cardinality(Comps(g, S \cup {m})) = Cardinality(Comps(g, S)) + 1
  BY <1>4, <1>5, CompsOfMore
<1>7. /\ components \in Nat /\ components <= Cardinality(S)
      /\ Mutual(g) => Cardinality(Comps(g, S)) <= components
      /\ Cardinality(Members) <= limit => components <= Cardinality(Comps(g, S))
  BY <1>3, <1>4 DEF NumberInv
<1>8. CASE NewComponent(m)
  <2>1. components' = components + 1 /\ m \notin Reached
    BY <1>2, <1>8 DEF NewComponent
  <2>2. m \notin S
    BY <1>1, <1>4, <2>1
  <2>3. ASSUME Cardinality(Members) <= limit PROVE c \notin Comps(g, S)
    <3>1. SUFFICES ASSUME NEW v \in S, c = ComponentOf(g, v) PROVE FALSE
      BY DEF Comps
    <3>2. IsClosed(Reached)
      <4>1. IsClosed(SetOf(out)) /\ IsClosed(visited)
        BY <1>2, <1>3, <2>3, EndedWalk DEF ReachInv
      <4> QED
        BY <4>1 DEF IsClosed, Reached
    <3>3. Reached \subseteq g.members
      <4>1. SetOf(out) \subseteq Members
        BY <1>3, LenProperties, ElementOfSeq DEF WalkInv, QueueInv, SetOf
      <4> QED
        BY <1>3, <1>4, <4>1 DEF ProgressInv, Reached, Members
    <3>4. ClosedIn(g, Reached)
      BY <1>4, <3>2 DEF IsClosed, ClosedIn, Adjacent
    <3>5. v \in Reached /\ v \in g.members
      BY <1>1, <1>4, <1>5, <3>1
    <3>6. ComponentOf(g, v) \subseteq Reached
      BY <1>5, <3>3, <3>4, <3>5, ComponentFacts
    <3>7. m \in c
      BY <1>4, <1>5, ComponentFacts
    <3> QED
      BY <2>1, <3>1, <3>6, <3>7
  <2>4. /\ components' \in Nat /\ components' <= Cardinality(S \cup {m})
        /\ Mutual(g) => Cardinality(Comps(g, S \cup {m})) <= components'
        /\ Cardinality(Members) <= limit => components' <= Cardinality(Comps(g, S \cup {m}))
    BY <1>6, <1>7, <2>1, <2>2, <2>3
  <2> QED
    BY <1>1, <1>5, <2>4 DEF NumberInv, Members
<1>9. CASE ~NewComponent(m)
  <2>1. components' = components /\ m \in Reached
    BY <1>2, <1>9 DEF NewComponent
  <2>2. ASSUME Mutual(g) PROVE c \in Comps(g, S)
    <3>1. m \in visited \cup seen
      BY <1>3, <2>1 DEF Reached, WalkInv, QueueInv
    <3>2. PICK v \in S : m \in ComponentOf(g, v)
      BY <1>3, <1>4, <3>1 DEF ReachInv
    <3>3. c = ComponentOf(g, v)
      BY <1>4, <1>5, <2>2, <3>2, SameComponent
    <3> QED
      BY <3>3 DEF Comps
  <2>3. /\ components' \in Nat /\ components' <= Cardinality(S \cup {m})
        /\ Mutual(g) => Cardinality(Comps(g, S \cup {m})) <= components'
        /\ Cardinality(Members) <= limit => components' <= Cardinality(Comps(g, S \cup {m}))
    BY <1>6, <1>7, <2>1, <2>2
  <2> QED
    BY <1>1, <1>5, <2>3 DEF NumberInv, Members
<1> QED
  BY <1>2, <1>8, <1>9

\* What a step that leaves the graph, the limit and the list alone leaves alone with them.
LEMMA SamePast ==
  ASSUME UNCHANGED <<graph, limit, todo>>
  PROVE  /\ UNCHANGED <<Members, Looked, Past>> /\ Listed(limit)' = Listed(limit)
<1>1. Listed(limit)' = Listed(limit)
  BY DEF Listed
<1>2. UNCHANGED Looked
  BY <1>1 DEF Looked
<1> QED
  BY <1>1, <1>2 DEF Past, Members

\* A turn of a walk reaches what is in the same component.
LEMMA ExpandCounts ==
  ASSUME CountInv, Expand, op = "components"
  PROVE  CountingInv'
<1> DEFINE cur == Head(queue)
           fresh == Adjacent(cur) \ seen
<1>1. /\ UNCHANGED <<graph, op, limit, todo, visited, components>>
      /\ seen' = seen \cup fresh /\ out' = Append(out, cur) /\ queue # <<>>
  BY DEF Expand, Walking
<1>2. /\ WalkInv /\ ProgressInv /\ ReachInv /\ NumberInv /\ graph \in Graphs
      /\ queue \in Seq(Members) /\ out \in Seq(Members) /\ limit \in Nat
  BY DEF CountInv, CountingInv, WalkInv, QueueInv
<1>3. /\ cur \in Members /\ cur \in seen
  BY <1>1, <1>2, HeadTailProperties, HeadAndTail DEF WalkInv, QueueInv
<1>4. SetOf(out') = SetOf(out) \cup {cur} /\ out' # <<>>
  <2>1. SetOf(out') = SetOf(out) \cup {cur}
    BY <1>1, <1>2, <1>3, Appended
  <2> QED
    BY <2>1, ShortSeqs
<1> HIDE DEF cur
<1>5. /\ UNCHANGED <<Members, Looked, Past>> /\ Listed(limit)' = Listed(limit)
  BY <1>1, SamePast
<1>6. ProgressInv'
  BY <1>1, <1>2, <1>5 DEF ProgressInv
<1>7. NumberInv'
  BY <1>1, <1>2, <1>5 DEF NumberInv
<1>8. Past' \subseteq Reached' \cup Starting'
  <2>1. Starting \subseteq {cur}
    BY DEF Starting, cur
  <2> QED
    BY <1>1, <1>2, <1>4, <1>5, <2>1 DEF ReachInv, Reached
<1>9. ASSUME NEW u \in visited' \cup seen' PROVE \E v \in Past : u \in ComponentOf(graph, v)
  <2>1. CASE u \in visited \cup seen
    BY <1>2, <2>1 DEF ReachInv
  <2>2. CASE u \in Adjacent(cur)
    <3>1. PICK v \in Past : cur \in ComponentOf(graph, v)
      BY <1>2, <1>3 DEF ReachInv
    <3>2. v \in Members
      <4>1. PICK i \in 1 .. Looked : v = Listed(limit)[i]
        BY <3>1 DEF Past
      <4>2. Listed(limit) \in Seq(Members) /\ Len(Listed(limit)) \in Nat /\ Len(todo) \in Nat
        BY <1>2, ListedAreMembers, LenProperties DEF WalkInv
      <4>3. i \in 1 .. Len(Listed(limit))
        BY <1>2, <4>1, <4>2 DEF ProgressInv, Looked
      <4> QED
        BY <4>1, <4>2, <4>3, ElementOfSeq
    <3>3. ClosedIn(graph, ComponentOf(graph, v))
      BY <1>2, <3>2, ComponentFacts DEF Members
    <3> QED
      BY <2>2, <3>1, <3>3 DEF ClosedIn, Adjacent
  <2> QED
    BY <1>1, <1>9, <2>1, <2>2
<1>10. (\A u \in visited \cup seen : \E v \in Past : u \in ComponentOf(graph, v))'
  BY <1>1, <1>5, <1>9
<1>11. (Cardinality(Members) <= limit => IsClosed(visited))'
  BY <1>1, <1>2, <1>5 DEF ReachInv, IsClosed, Adjacent
<1>12. ReachInv'
  BY <1>8, <1>10, <1>11 DEF ReachInv
<1> QED
  BY <1>6, <1>7, <1>12 DEF CountingInv

\* connected_components has looked at nothing when it starts.
LEMMA StartCounts ==
  ASSUME CountInv, NEW n \in Limits, Components(n)
  PROVE  CountingInv'
<1>1. /\ op' = "components" /\ limit' = n /\ queue' = <<>> /\ seen' = {} /\ out' = <<>>
      /\ todo' = Listed(n) /\ visited' = {} /\ components' = 0 /\ UNCHANGED graph
  BY DEF Components
<1>2. n \in Nat /\ graph \in Graphs
  BY WalkAssumption DEF CountInv, WalkInv
<1>3. Listed(limit)' = Listed(n) /\ Len(Listed(n)) \in Nat
  BY <1>1, <1>2, ListedLength DEF Listed
<1>4. Looked' = 0
  BY <1>1, <1>3 DEF Looked
<1>5. Past' = {}
  BY <1>4 DEF Past
<1>6. ProgressInv'
  <2>1. \A i \in 1 .. Len(todo') : todo'[i] = Listed(n)[0 + i]
    BY <1>1, <1>3
  <2> QED
    BY <1>1, <1>3, <1>4, <2>1 DEF ProgressInv
<1>7. ReachInv'
  BY <1>1, <1>5 DEF ReachInv, IsClosed
<1>8. Comps(graph, Past)' = {} /\ Cardinality({}) = 0
  BY <1>5, FS_EmptySet DEF Comps
<1>9. NumberInv'
  BY <1>1, <1>5, <1>8 DEF NumberInv
<1> QED
  BY <1>6, <1>7, <1>9 DEF CountingInv

\* No call to connected_components is under way.
LEMMA CountInit == Init => CountInv
<1> SUFFICES ASSUME Init PROVE CountInv
  OBVIOUS
<1>1. op = "idle"
  BY DEF Init, Start
<1> QED
  BY <1>1, WalkInit DEF CountInv, CountingInv

\* Every turn of the loops keeps the count.
LEMMA CountStep == CountInv /\ [Next]_vars => CountInv'
<1> SUFFICES ASSUME CountInv, [Next]_vars PROVE CountingInv'
  BY WalkStep DEF CountInv
<1>1. ASSUME NEW v \in Values, NEW n \in Limits, Reachable(v, n) PROVE CountingInv'
  BY <1>1 DEF Reachable, CountingInv
<1>2. CASE Expand
  <2>1. CASE op = "components"
    BY <1>2, <2>1, ExpandCounts
  <2>2. CASE op # "components"
    <3>1. op' = "reachable"
      BY <1>2, <2>2 DEF Expand
    <3> QED
      BY <3>1 DEF CountingInv
  <2> QED
    BY <2>1, <2>2
<1>3. CASE Return
  BY <1>3 DEF Return, CountingInv
<1>4. ASSUME NEW n \in Limits, Components(n) PROVE CountingInv'
  BY <1>4, StartCounts
<1>5. CASE NextMember
  BY <1>5, LookedAtOneMore, NextMemberReaches, NextMemberCounts DEF CountingInv
<1>6. CASE Count \/ UNCHANGED vars
  <2>1. /\ UNCHANGED <<graph, limit, walkVars, todo, visited, components>>
        /\ op' \in {"components", "counted"} => op \in {"components", "counted"}
        /\ op' = "counted" => todo = <<>> \/ op = "counted"
    BY <1>6 DEF Count, vars
  <2>2. SUFFICES ASSUME op' \in {"components", "counted"} PROVE ProgressInv' /\ ReachInv' /\ NumberInv'
    BY DEF CountingInv
  <2>3. ProgressInv /\ ReachInv /\ NumberInv
    BY <2>1, <2>2 DEF CountInv, CountingInv
  <2>4. /\ UNCHANGED <<Members, Looked, Past, queue, seen, out>> /\ Listed(limit)' = Listed(limit)
    BY <2>1, SamePast DEF walkVars
  <2>5. ProgressInv'
    BY <2>1, <2>3, <2>4 DEF ProgressInv
  <2>6. ReachInv'
    BY <2>1, <2>3, <2>4 DEF ReachInv, Reached, Starting, IsClosed, Adjacent
  <2>7. NumberInv'
    BY <2>1, <2>3, <2>4 DEF NumberInv
  <2> QED
    BY <2>5, <2>6, <2>7
<1> QED
  BY <1>1, <1>2, <1>3, <1>4, <1>5, <1>6 DEF Next

\* What the invariant says of a count that has returned.
LEMMA CountIsExact == CountInv => ComponentsAreExact
<1> SUFFICES ASSUME CountInv, op = "counted" PROVE
      LET listed == SetOf(Listed(limit))
          exact  == Cardinality({ComponentOf(graph, v) : v \in listed})
      IN /\ components <= Cardinality(listed)
         /\ Mutual(graph) => exact <= components
         /\ Cardinality(Members) <= limit => components <= exact
  BY DEF ComponentsAreExact
<1>1. ProgressInv /\ NumberInv /\ graph \in Graphs /\ limit \in Nat /\ todo = <<>>
  BY DEF CountInv, CountingInv, WalkInv, ProgressInv
<1>2. Listed(limit) \in Seq(Members) /\ Len(Listed(limit)) \in Nat /\ DOMAIN Listed(limit) = 1 .. Len(Listed(limit))
  BY <1>1, ListedAreMembers, LenProperties
<1>3. Looked = Len(Listed(limit))
  BY <1>1, <1>2, EmptySeq DEF Looked
<1>4. Past = SetOf(Listed(limit))
  BY <1>2, <1>3 DEF Past, SetOf
<1>5. PICK n : n = Cardinality({ComponentOf(graph, v) : v \in Past})
  OBVIOUS
<1>6. n = Cardinality(Comps(graph, Past))
  BY <1>5 DEF Comps
<1>7. /\ components <= Cardinality(Past)
      /\ Mutual(graph) => n <= components
      /\ Cardinality(Members) <= limit => components <= n
  BY <1>1, <1>6 DEF NumberInv
<1> QED
  BY <1>4, <1>5, <1>7

(* connected_components counts no member listed twice, and no component    *)
(* twice if the limit is not below the number of members; it counts every  *)
(* component of the members listed, wherever the limit cuts a walk short,  *)
(* if neighbours are mutual (StorableIsMutual says when they are).         *)
THEOREM ComponentsStayExact == Spec => []ComponentsAreExact
<1> QED
  BY CountIsExact, CountInit, CountStep, PTL DEF Spec
-----------------------------------------------------------------------------
(* Folds and sequences.                                                     *)

Pick(T) == CHOOSE x \in T : TRUE

\* The fold that Ordered is.
LEMMA OrderedUnfolds ==
  ASSUME NEW S
  PROVE  Ordered(S) =
           (CHOOSE it : it = [T \in SUBSET S |-> IF T = {} THEN <<>> ELSE Append(it[T \ {Pick(T)}], Pick(T))])[S]
BY DEF Ordered, FoldSet, MapThenFoldSet, Pick

\* Ordered has the values of a finite set once each.
LEMMA OrderedIs ==
  ASSUME NEW S, IsFiniteSet(S), NEW X, S \subseteq X
  PROVE  Ordered(S) \in Seq(X) /\ ToSet(Ordered(S)) = S /\ Distinct(Ordered(S))
<1> DEFINE pick == [T \in (SUBSET S) \ {{}} |-> Pick(T)]
           step == [x \in S |-> [acc \in Seq(X) |-> Append(acc, x)]]
           Rule(it) == it = [T \in SUBSET S |-> IF T = {} THEN <<>> ELSE Append(it[T \ {Pick(T)}], Pick(T))]
           it_ == CHOOSE it : Rule(it)
           Good(s, T) == s \in Seq(X) /\ SetOf(s) = T /\ Distinct(s)
           C == {T \in SUBSET S : Good(it_[T], T)}
<1>1. pick \in [(SUBSET S) \ {{}} -> S] /\ (\A T \in (SUBSET S) \ {{}} : pick[T] \in T /\ pick[T] = Pick(T))
  BY DEF Pick
<1>2. step \in [S -> [Seq(X) -> Seq(X)]]
  <2>1. ASSUME NEW x \in S, NEW acc \in Seq(X) PROVE Append(acc, x) \in Seq(X)
    BY AppendProperties
  <2> QED
    BY <2>1
<1>3. \E it : Rule(it)
  <2>1. pick \in Picks(S) /\ step \in Builds(S, Seq(X)) /\ <<>> \in Seq(X)
    <3>1. <<>> \in Seq(X)
      OBVIOUS
    <3> HIDE DEF pick, step
    <3>2. pick \in Picks(S)
      BY <1>1 DEF Picks
    <3>3. step \in Builds(S, Seq(X))
      BY <1>2 DEF Builds
    <3> QED
      BY <3>1, <3>2, <3>3
  <2>2. PICK it \in [SUBSET S -> Seq(X)] : Folds(it, S, <<>>, pick, step)
    <3> HIDE DEF pick, step
    <3> QED
      BY <2>1, FoldExists
  <2>3. \A T \in SUBSET S : it[T] = IF T = {} THEN <<>> ELSE step[pick[T]][it[T \ {pick[T]}]]
    BY <2>2 DEF Folds
  <2>4. ASSUME NEW T \in SUBSET S
        PROVE  it[T] = IF T = {} THEN <<>> ELSE Append(it[T \ {Pick(T)}], Pick(T))
    <3>1. CASE T = {}
      BY <2>3, <3>1
    <3>2. CASE T # {}
      <4>1. it[T] = step[pick[T]][it[T \ {pick[T]}]] /\ pick[T] = Pick(T) /\ pick[T] \in S
        BY <1>1, <2>3, <3>2
      <4>2. T \ {pick[T]} \in SUBSET S
        BY <3>2
      <4>3. it[T \ {pick[T]}] \in Seq(X)
        BY <2>2, <4>2
      <4> QED
        BY <3>2, <4>1, <4>3
    <3> QED
      BY <3>1, <3>2
  <2>5. it = [T \in SUBSET S |-> IF T = {} THEN <<>> ELSE Append(it[T \ {Pick(T)}], Pick(T))]
    BY <2>2, <2>4
  <2> QED
    BY <2>5
<1>4. Rule(it_)
  <2> HIDE DEF Rule
  <2> QED
    BY <1>3
<1>5. \A T \in SUBSET S : it_[T] = IF T = {} THEN <<>> ELSE Append(it_[T \ {Pick(T)}], Pick(T))
  <2>1. PICK it : it = it_
    OBVIOUS
  <2>2. Rule(it)
    BY <1>4, <2>1
  <2>3. \A T \in SUBSET S : it[T] = IF T = {} THEN <<>> ELSE Append(it[T \ {Pick(T)}], Pick(T))
    BY <2>2
  <2> HIDE DEF it_
  <2> QED
    BY <2>1, <2>3
<1> HIDE DEF it_
<1>6. {} \in C
  <2>1. it_[{}] = <<>> /\ {} \in SUBSET S
    BY <1>5
  <2>2. Good(<<>>, {})
    BY ShortSeqs
  <2> QED
    BY <2>1, <2>2
<1>7. ASSUME NEW T \in SUBSET S, T # {} PROVE \E x \in T : T \ {x} \in C => T \in C
  <2>1. Pick(T) \in T /\ Pick(T) \in S
    BY <1>7 DEF Pick
  <2>2. PICK x \in T : x = Pick(T)
    BY <2>1
  <2>3. ASSUME T \ {x} \in C PROVE Good(it_[T], T)
    <3>1. PICK s : s = it_[T \ {x}]
      OBVIOUS
    <3>2. Good(s, T \ {x}) /\ it_[T] = Append(s, x)
      BY <1>5, <1>7, <2>2, <2>3, <3>1
    <3>3. x \in X /\ x \in S
      BY <2>2
    <3>4. /\ Append(s, x) \in Seq(X) /\ SetOf(Append(s, x)) = SetOf(s) \cup {x}
          /\ Distinct(s) /\ x \notin SetOf(s) => Distinct(Append(s, x))
      BY <3>2, <3>3, Appended, AppendProperties
    <3> QED
      BY <2>2, <3>2, <3>4
  <2> QED
    BY <1>7, <2>3
<1>8. S \in C
  <2> HIDE DEF C
  <2> QED
    BY <1>6, <1>7, SubsetInduction
<1>9. Ordered(S) = it_[S]
  BY OrderedUnfolds DEF it_
<1> QED
  BY <1>8, <1>9 DEF ToSet, SetOf

\* Keeping the values of a sequence that are in a set.
LEMMA ThoseAre ==
  ASSUME NEW X, NEW s \in Seq(X), NEW S
  PROVE  /\ Those(s, S) \in Seq(X) /\ ToSet(Those(s, S)) = ToSet(s) \cap S
         /\ Distinct(s) => Distinct(Those(s, S))
<1> DEFINE n == Len(s)
           Rule(it) == it = [i \in 0 .. n |->
             IF i = 0 THEN <<>> ELSE IF s[i] \in S THEN Append(it[i - 1], s[i]) ELSE it[i - 1]]
           step == [i \in 1 .. n |-> [acc \in Seq(X) |-> IF s[i] \in S THEN Append(acc, s[i]) ELSE acc]]
           kept == CHOOSE it : Rule(it)
           First(i) == {s[j] : j \in 1 .. i}
           Good(t, i) == /\ t \in Seq(X) /\ SetOf(t) = First(i) \cap S
                         /\ Distinct(s) => Distinct(t)
           C == {i \in Nat : i <= n => Good(kept[i], i)}
<1>1. n \in Nat /\ DOMAIN s = 1 .. n /\ \A i \in 1 .. n : s[i] \in X
  BY LenProperties, ElementOfSeq
<1> HIDE DEF n
<1>2. step \in Steps(n, Seq(X))
  <2>1. ASSUME NEW i \in 1 .. n, NEW acc \in Seq(X)
        PROVE  (IF s[i] \in S THEN Append(acc, s[i]) ELSE acc) \in Seq(X)
    BY <1>1, AppendProperties
  <2> QED
    BY <2>1 DEF Steps
<1>3. \E it : Rule(it)
  <2>1. <<>> \in Seq(X)
    OBVIOUS
  <2>2. \E it \in [0 .. n -> Seq(X)] : it[0] = <<>> /\ \A k \in 1 .. n : it[k] = step[k][it[k - 1]]
    <3>1. PICK m, Y, first, next : m = n /\ Y = Seq(X) /\ first = <<>> /\ next = step
      OBVIOUS
    <3>2. m \in Nat /\ next \in Steps(m, Y) /\ first \in Y
      <4> HIDE DEF step
      <4> QED
        BY <1>1, <1>2, <2>1, <3>1
    <3>3. \E it \in [0 .. m -> Y] : it[0] = first /\ \A k \in 1 .. m : it[k] = next[k][it[k - 1]]
      BY <3>2, Recursion
    <3> HIDE DEF step
    <3> QED
      BY <3>1, <3>3
  <2>10. PICK it \in [0 .. n -> Seq(X)] : it[0] = <<>> /\ \A k \in 1 .. n : it[k] = step[k][it[k - 1]]
    <3> HIDE DEF step
    <3> QED
      BY <2>2
  <2>3. ASSUME NEW i \in 0 .. n
        PROVE  it[i] = IF i = 0 THEN <<>> ELSE IF s[i] \in S THEN Append(it[i - 1], s[i]) ELSE it[i - 1]
    <3>1. CASE i = 0
      BY <2>10, <3>1
    <3>2. CASE i # 0
      <4>1. i \in 1 .. n /\ i - 1 \in 0 .. n
        BY <1>1, <3>2
      <4> QED
        BY <2>10, <3>2, <4>1
    <3> QED
      BY <3>1, <3>2
  <2>4. it = [i \in 0 .. n |-> IF i = 0 THEN <<>> ELSE IF s[i] \in S THEN Append(it[i - 1], s[i]) ELSE it[i - 1]]
    BY <2>10, <2>3
  <2> QED
    BY <2>4
<1>4. Rule(kept)
  <2> HIDE DEF Rule
  <2> QED
    BY <1>3
<1>5. \A i \in 0 .. n : kept[i] = IF i = 0 THEN <<>> ELSE IF s[i] \in S THEN Append(kept[i - 1], s[i]) ELSE kept[i - 1]
  <2>1. PICK it : it = kept
    OBVIOUS
  <2>2. Rule(it)
    BY <1>4, <2>1
  <2>3. \A i \in 0 .. n : it[i] = IF i = 0 THEN <<>> ELSE IF s[i] \in S THEN Append(it[i - 1], s[i]) ELSE it[i - 1]
    BY <2>2
  <2> HIDE DEF kept
  <2> QED
    BY <2>1, <2>3
<1> HIDE DEF kept
<1>6. 0 \in C
  <2>1. kept[0] = <<>> /\ First(0) = {}
    BY <1>1, <1>5
  <2>2. Good(<<>>, 0)
    BY <2>1, ShortSeqs
  <2> QED
    BY <2>1, <2>2
<1>7. ASSUME NEW i \in Nat, i \in C PROVE i + 1 \in C
  <2>1. SUFFICES ASSUME i + 1 <= n PROVE Good(kept[i + 1], i + 1)
    OBVIOUS
  <2>2. i + 1 \in 1 .. n /\ i \in 0 .. n /\ i + 1 \in 0 .. n /\ i + 1 # 0 /\ (i + 1) - 1 = i
    BY <1>1, <2>1
  <2>3. PICK t, x : t = kept[i] /\ x = s[i + 1]
    OBVIOUS
  <2>4. Good(t, i) /\ x \in X
    BY <1>1, <1>7, <2>2, <2>3
  <2>5. kept[i + 1] = IF x \in S THEN Append(t, x) ELSE t
    BY <1>5, <2>2, <2>3
  <2>6. First(i + 1) = First(i) \cup {x}
    <3>1. 1 .. i + 1 = (1 .. i) \cup {i + 1}
      OBVIOUS
    <3> QED
      BY <2>3, <3>1
  <2>7. Distinct(s) => x \notin First(i)
    <3>1. \A j \in 1 .. i : j \in 1 .. n /\ j # i + 1
      BY <1>1, <2>1
    <3> QED
      BY <1>1, <2>2, <2>3, <3>1 DEF Distinct
  <2>8. /\ Append(t, x) \in Seq(X) /\ SetOf(Append(t, x)) = SetOf(t) \cup {x}
        /\ Distinct(t) /\ x \notin SetOf(t) => Distinct(Append(t, x))
    BY <2>4, Appended, AppendProperties
  <2> HIDE DEF First
  <2>9. CASE x \in S
    BY <2>4, <2>5, <2>6, <2>7, <2>8, <2>9
  <2>10. CASE x \notin S
    BY <2>4, <2>5, <2>6, <2>10
  <2> QED
    BY <2>9, <2>10
<1>8. n \in C
  <2> HIDE DEF C
  <2> QED
    BY <1>1, <1>6, <1>7, NumberInduction
<1>9. Those(s, S) = kept[n]
  BY DEF Those, kept, n
<1>10. First(n) = SetOf(s)
  BY <1>1 DEF SetOf
<1>11. Good(kept[n], n)
  BY <1>1, <1>8
<1>12. PICK t : t = kept[n]
  OBVIOUS
<1>13. t \in Seq(X) /\ SetOf(t) = SetOf(s) \cap S /\ (Distinct(s) => Distinct(t))
  <2> HIDE DEF kept, First
  <2> QED
    BY <1>10, <1>11, <1>12
<1>14. Those(s, S) = t
  BY <1>9, <1>12
<1> QED
  BY <1>13, <1>14 DEF ToSet, SetOf

\* A sequence without repetition is as long as it has values.
LEMMA LengthIsSize ==
  ASSUME NEW X, NEW s \in Seq(X), Distinct(s)
  PROVE  IsFiniteSet(ToSet(s)) /\ Len(s) = Cardinality(ToSet(s))
<1> DEFINE V == ToSet(s)
<1>1. Len(s) \in Nat /\ DOMAIN s = 1 .. Len(s)
  BY LenProperties
<1>2. IsFiniteSet(1 .. Len(s)) /\ Cardinality(1 .. Len(s)) = Len(s)
  <2>1. 1 \in Int /\ Len(s) \in Int
    BY <1>1
  <2> QED
    BY <1>1, <2>1, FS_Interval
<1>3. s \in [1 .. Len(s) -> V] /\ \A v \in V : \E i \in 1 .. Len(s) : s[i] = v
  <2>1. s = [i \in 1 .. Len(s) |-> s[i]]
    BY <1>1, LenProperties
  <2> QED
    BY <1>1, <2>1 DEF ToSet
<1>4. s \in Bijection(1 .. Len(s), V)
  BY <1>1, <1>3 DEF Bijection, Injection, Surjection, IsInjective, Distinct
<1>5. IsFiniteSet(V) /\ Cardinality(V) = Cardinality(1 .. Len(s))
  <2>1. PICK W, I : W = V /\ I = 1 .. Len(s)
    OBVIOUS
  <2>2. IsFiniteSet(I) /\ s \in Bijection(I, W)
    BY <1>2, <1>4, <2>1
  <2>3. ExistsBijection(I, W)
    BY <2>2 DEF ExistsBijection
  <2>4. IsFiniteSet(W) /\ Cardinality(W) = Cardinality(I)
    BY <2>2, <2>3, FS_Bijection
  <2> QED
    BY <2>1, <2>4
<1> QED
  BY <1>2, <1>5

\* The fold that Total is.
LEMMA TotalUnfolds ==
  ASSUME NEW f
  PROVE  Total(f) =
           (CHOOSE it : it = [T \in SUBSET (DOMAIN f) |-> IF T = {} THEN 0 ELSE it[T \ {Pick(T)}] + f[Pick(T)]])[DOMAIN f]
BY DEF Total, FoldSet, MapThenFoldSet, Pick

\* The sums of f over subsets of S.
Sums(it, S, f) ==
  it[{}] = 0 /\ \A T \in (SUBSET S) \ {{}} : it[T] = it[T \ {Pick(T)}] + f[Pick(T)]

\* Total takes the arguments out of its domain one at a time.
LEMMA TotalIsASum ==
  ASSUME NEW S, IsFiniteSet(S), NEW f \in [S -> Nat]
  PROVE  \E it \in [SUBSET S -> Nat] : Sums(it, S, f) /\ Total(f) = it[S]
<1> DEFINE pick == [T \in (SUBSET S) \ {{}} |-> Pick(T)]
           step == [x \in S |-> [acc \in Nat |-> acc + f[x]]]
           Rule(it) == it = [T \in SUBSET S |-> IF T = {} THEN 0 ELSE it[T \ {Pick(T)}] + f[Pick(T)]]
           it_ == CHOOSE it : Rule(it)
<1>1. pick \in [(SUBSET S) \ {{}} -> S] /\ (\A T \in (SUBSET S) \ {{}} : pick[T] \in T /\ pick[T] = Pick(T))
  BY DEF Pick
<1>2. step \in [S -> [Nat -> Nat]]
  OBVIOUS
<1>3. \E it \in [SUBSET S -> Nat] : Rule(it)
  <2>1. pick \in Picks(S)
    <3> HIDE DEF pick
    <3> QED
      BY <1>1 DEF Picks
  <2>2. step \in Builds(S, Nat)
    <3> HIDE DEF step
    <3> QED
      BY <1>2 DEF Builds
  <2>3. PICK it \in [SUBSET S -> Nat] : Folds(it, S, 0, pick, step)
    <3>1. 0 \in Nat
      OBVIOUS
    <3> HIDE DEF pick, step
    <3> QED
      BY <2>1, <2>2, <3>1, FoldExists
  <2>4. \A T \in SUBSET S : it[T] = IF T = {} THEN 0 ELSE step[pick[T]][it[T \ {pick[T]}]]
    BY <2>3 DEF Folds
  <2>5. ASSUME NEW T \in SUBSET S
        PROVE  it[T] = IF T = {} THEN 0 ELSE it[T \ {Pick(T)}] + f[Pick(T)]
    <3>1. CASE T = {}
      BY <2>4, <3>1
    <3>2. CASE T # {}
      <4>1. it[T] = step[pick[T]][it[T \ {pick[T]}]] /\ pick[T] = Pick(T) /\ pick[T] \in S
        BY <1>1, <2>4, <3>2
      <4>2. T \ {pick[T]} \in SUBSET S
        BY <3>2
      <4>3. it[T \ {pick[T]}] \in Nat
        BY <2>3, <4>2
      <4> QED
        BY <3>2, <4>1, <4>3
    <3> QED
      BY <3>1, <3>2
  <2>6. it = [T \in SUBSET S |-> IF T = {} THEN 0 ELSE it[T \ {Pick(T)}] + f[Pick(T)]]
    BY <2>3, <2>5
  <2> QED
    BY <2>6
<1>4. Rule(it_)
  <2> HIDE DEF Rule
  <2> QED
    BY <1>3
<1>5. PICK it : it = it_
  OBVIOUS
<1>6. Rule(it)
  BY <1>4, <1>5
<1> HIDE DEF it_
<1>7. \A T \in SUBSET S : it[T] = IF T = {} THEN 0 ELSE it[T \ {Pick(T)}] + f[Pick(T)]
  BY <1>6
<1>8. Sums(it, S, f)
  BY <1>7 DEF Sums
<1>9. \A T \in (SUBSET S) \ {{}} : Pick(T) \in T
  BY DEF Pick
<1>10. SUBSET S \subseteq {T \in SUBSET S : it[T] \in Nat}
  <2> DEFINE C == {T \in SUBSET S : it[T] \in Nat}
  <2>1. {} \in C
    BY <1>8 DEF Sums
  <2>2. ASSUME NEW T \in SUBSET S, T # {} PROVE \E x \in T : T \ {x} \in C => T \in C
    <3>1. PICK x \in T : x = Pick(T)
      BY <1>9, <2>2
    <3>2. it[T] = it[T \ {x}] + f[x] /\ f[x] \in Nat
      BY <1>8, <2>2, <3>1 DEF Sums
    <3>3. ASSUME T \ {x} \in C PROVE T \in C
      BY <3>2, <3>3
    <3> HIDE DEF C
    <3> QED
      BY <3>3
  <2> HIDE DEF C
  <2>3. SUBSET S \subseteq C
    BY <2>1, <2>2, SubsetInduction
  <2> QED
    BY <2>3 DEF C
<1>11. it \in [SUBSET S -> Nat]
  <2>1. it = [T \in SUBSET S |-> it[T]]
    <3>1. PICK g : g = [T \in SUBSET S |-> IF T = {} THEN 0 ELSE it[T \ {Pick(T)}] + f[Pick(T)]]
      OBVIOUS
    <3>2. it = g
      BY <1>6, <3>1
    <3>3. g = [T \in SUBSET S |-> g[T]]
      BY <3>1
    <3> QED
      BY <3>2, <3>3
  <2> QED
    BY <1>10, <2>1
<1>12. Total(f) = it[S]
  <2>1. DOMAIN f = S
    OBVIOUS
  <2> QED
    BY <1>5, <2>1, TotalUnfolds DEF it_
<1> QED
  BY <1>8, <1>11, <1>12

\* Totals of numbers are numbers, 0 if all are 0, and no less for greater ones.
LEMMA TotalsAre ==
  ASSUME NEW S, IsFiniteSet(S), NEW f \in [S -> Nat], NEW g \in [S -> Nat]
  PROVE  /\ Total(f) \in Nat
         /\ (\A x \in S : f[x] = 0) => Total(f) = 0
         /\ (\A x \in S : f[x] <= g[x]) => Total(f) <= Total(g)
<1>8. \A D : {} \in D /\ (\A T \in SUBSET S : T # {} => \E x \in T : T \ {x} \in D => T \in D) => S \in D
  <2>1. ASSUME NEW D, {} \in D, \A T \in SUBSET S : T # {} => \E x \in T : T \ {x} \in D => T \in D
        PROVE  S \in D
    <3>1. SUBSET S \subseteq D
      BY <2>1, SubsetInduction
    <3> QED
      BY <3>1
  <2> QED
    BY <2>1
<1>1. PICK a \in [SUBSET S -> Nat] : Sums(a, S, f) /\ Total(f) = a[S]
  BY TotalIsASum
<1>2. PICK b \in [SUBSET S -> Nat] : Sums(b, S, g) /\ Total(g) = b[S]
  BY TotalIsASum
<1> DEFINE Zero == \A x \in S : f[x] = 0
           Below == \A x \in S : f[x] <= g[x]
           C == {T \in SUBSET S : (Zero => a[T] = 0) /\ (Below => a[T] <= b[T])}
<1>3. {} \in C
  BY <1>1, <1>2 DEF Sums
<1>4. ASSUME NEW T \in SUBSET S, T # {} PROVE \E x \in T : T \ {x} \in C => T \in C
  <2>1. PICK x \in T : x = Pick(T)
    BY <1>4 DEF Pick
  <2>2. a[T] = a[T \ {x}] + f[x] /\ b[T] = b[T \ {x}] + g[x]
    BY <1>1, <1>2, <1>4, <2>1 DEF Sums
  <2>3. PICK m, n, y, z : m = a[T \ {x}] /\ n = b[T \ {x}] /\ y = f[x] /\ z = g[x]
    OBVIOUS
  <2>4. {m, n, y, z} \subseteq Nat
    <3>1. T \ {x} \in SUBSET S /\ x \in S
      OBVIOUS
    <3> QED
      BY <1>1, <1>2, <2>3, <3>1
  <2>5. ASSUME T \ {x} \in C PROVE T \in C
    <3>1. (Zero => m = 0) /\ (Below => m <= n)
      <4> HIDE DEF Zero, Below
      <4> QED
        BY <2>3, <2>5
    <3>2. (Zero => y = 0) /\ (Below => y <= z)
      BY <2>3
    <3>3. a[T] = m + y /\ b[T] = n + z
      BY <2>2, <2>3
    <3> HIDE DEF Zero, Below
    <3> QED
      BY <2>4, <3>1, <3>2, <3>3
  <2> HIDE DEF C
  <2> QED
    BY <2>5
<1>5. S \in C
  <2> HIDE DEF C, Zero, Below
  <2>1. PICK D : D = C
    OBVIOUS
  <2>2. {} \in D
    BY <1>3, <2>1
  <2>3. \A T \in SUBSET S : T # {} => \E x \in T : T \ {x} \in D => T \in D
    BY <1>4, <2>1
  <2> QED
    BY <1>8, <2>1, <2>2, <2>3
<1>6. (Zero => a[S] = 0) /\ (Below => a[S] <= b[S])
  BY <1>5
<1>7. a[S] \in Nat
  BY <1>1
<1> QED
  BY <1>1, <1>2, <1>6, <1>7

-----------------------------------------------------------------------------
(* Distances.                                                               *)

\* What a leaf adds to a distance.
Term(norm, p, q) ==
  [l \in Leaf |-> CASE norm = "L2" -> Gap(p[l], q[l]) * Gap(p[l], q[l])
                    [] norm = "Hamming" -> IF p[l] = q[l] THEN 0 ELSE 1
                    [] OTHER -> Gap(p[l], q[l])]

\* A distance is made of the terms of the leaves.
LEMMA DistanceByTerm ==
  ASSUME NEW norm, NEW p, NEW q
  PROVE  Distance(norm, p, q) =
           IF norm = "LInf" THEN Max({0} \cup Range(Term(norm, p, q))) ELSE Total(Term(norm, p, q))
BY DEF Distance, Term

\* Each leaf holds a number in its range.
LEMMA PointsHoldNumbers ==
  ASSUME NEW p \in Point
  PROVE  /\ p \in [Leaf -> Half] /\ \A l \in Leaf : p[l] \in Half /\ p[l] \in Int /\ p[l] \in Holds(l)
         /\ \A l \in Leaf : Lowest <= p[l] /\ p[l] <= Highest
BY LeavesAssumption DEF Point, Half

\* A greater number has a greater square.
LEMMA GreaterSquare ==
  ASSUME NEW m \in Nat, NEW n \in Nat, m <= n
  PROVE  m * m \in Nat /\ n * n \in Nat /\ m * m <= n * n
<1>1. PICK k \in Nat : n = m + k
  <2>1. n - m \in Nat /\ n = m + (n - m)
    OBVIOUS
  <2> QED
    BY <2>1
<1>2. \A x, y \in Nat : x * y \in Nat
  OBVIOUS
<1>3. n * n = m * m + (2 * (m * k) + k * k)
  BY <1>1
<1>4. m * m \in Nat /\ n * n \in Nat /\ m * k \in Nat /\ k * k \in Nat
  BY <1>2
<1>5. PICK u, v, w : u = m * m /\ v = m * k /\ w = k * k
  OBVIOUS
<1>6. u <= u + (2 * v + w)
  BY <1>4, <1>5
<1> QED
  BY <1>3, <1>4, <1>5, <1>6

\* A leaf adds a number, 0 where the points agree, and no less where they are farther apart.
LEMMA TermsAre ==
  ASSUME NEW norm, NEW p \in Point, NEW q \in Point, NEW r \in Point
  PROVE  /\ Term(norm, p, q) \in [Leaf -> Nat]
         /\ \A l \in Leaf : Term(norm, p, p)[l] = 0
         /\ \A l \in Leaf : norm = "LInf" => Term(norm, p, q)[l] <= Highest - Lowest
         /\ (\A l \in Leaf : Gap(p[l], q[l]) <= Gap(p[l], r[l])) =>
              \A l \in Leaf : Term(norm, p, q)[l] <= Term(norm, p, r)[l]
<1>1. \A l \in Leaf : p[l] \in Half /\ q[l] \in Half /\ r[l] \in Half
  BY PointsHoldNumbers
<1>2. ASSUME NEW x \in Half, NEW y \in Half
      PROVE  /\ Gap(x, y) \in Nat /\ Gap(x, y) <= Highest - Lowest /\ Gap(x, x) = 0
             /\ (Gap(x, y) = 0 <=> x = y) /\ Gap(x, y) * Gap(x, y) \in Nat
  <2>1. x \in Int /\ y \in Int /\ Lowest <= x /\ x <= Highest /\ Lowest <= y /\ y <= Highest
    BY LeavesAssumption DEF Half
  <2>2. Gap(x, y) \in Nat /\ Gap(x, y) <= Highest - Lowest /\ Gap(x, x) = 0 /\ (Gap(x, y) = 0 <=> x = y)
    BY <2>1, LeavesAssumption DEF Gap
  <2>3. Gap(x, y) * Gap(x, y) \in Nat
    BY <2>2, GreaterSquare
  <2> QED
    BY <2>2, <2>3
<1>3. ASSUME NEW l \in Leaf
      PROVE  /\ Term(norm, p, q)[l] \in Nat /\ Term(norm, p, p)[l] = 0
             /\ norm = "LInf" => Term(norm, p, q)[l] <= Highest - Lowest
             /\ Gap(p[l], q[l]) <= Gap(p[l], r[l]) => Term(norm, p, q)[l] <= Term(norm, p, r)[l]
  <2>1. PICK x, y, z : x = p[l] /\ y = q[l] /\ z = r[l]
    OBVIOUS
  <2>2. x \in Half /\ y \in Half /\ z \in Half
    BY <1>1, <2>1
  <2>3. PICK m, n, o : m = Gap(x, y) /\ n = Gap(x, z) /\ o = Gap(x, x)
    OBVIOUS
  <2>4. /\ m \in Nat /\ n \in Nat /\ o = 0 /\ m <= Highest - Lowest /\ m * m \in Nat
        /\ (m = 0 <=> x = y) /\ (n = 0 <=> x = z)
    BY <1>2, <2>2, <2>3
  <2>5. m <= n => m * m <= n * n
    BY <2>4, GreaterSquare
  <2>6. /\ Term(norm, p, q)[l] = CASE norm = "L2" -> m * m [] norm = "Hamming" -> IF x = y THEN 0 ELSE 1 [] OTHER -> m
        /\ Term(norm, p, r)[l] = CASE norm = "L2" -> n * n [] norm = "Hamming" -> IF x = z THEN 0 ELSE 1 [] OTHER -> n
        /\ Term(norm, p, p)[l] = CASE norm = "L2" -> o * o [] norm = "Hamming" -> 0 [] OTHER -> o
    BY <2>1, <2>3 DEF Term
  <2>7. CASE norm = "L2"
    BY <2>1, <2>3, <2>4, <2>5, <2>6, <2>7
  <2>8. CASE norm = "Hamming"
    BY <2>1, <2>3, <2>4, <2>6, <2>8
  <2>9. CASE norm # "L2" /\ norm # "Hamming"
    BY <2>1, <2>3, <2>4, <2>6, <2>9
  <2> QED
    BY <2>7, <2>8, <2>9
<1>4. Term(norm, p, q) \in [Leaf -> Nat]
  <2>1. Term(norm, p, q) = [l \in Leaf |-> Term(norm, p, q)[l]]
    BY DEF Term
  <2> QED
    BY <1>3, <2>1
<1> QED
  BY <1>3, <1>4

\* The greatest of 0 and the values of a bounded function.
LEMMA GreatestIs ==
  ASSUME NEW f \in [Leaf -> Nat], NEW b \in Nat, \A l \in Leaf : f[l] <= b
  PROVE  /\ Max({0} \cup Range(f)) \in Nat
         /\ Max({0} \cup Range(f)) \in {0} \cup {f[l] : l \in Leaf}
         /\ \A l \in Leaf : f[l] <= Max({0} \cup Range(f))
<1> DEFINE S == {0} \cup Range(f)
<1>1. S = {0} \cup {f[l] : l \in Leaf}
  BY DEF Range
<1>2. S \subseteq Nat /\ S # {} /\ \A x \in S : x <= b
  BY <1>1
<1>3. \E x \in S : \A y \in S : x >= y
  <2> HIDE DEF S
  <2> QED
    BY <1>2, GreatestNumber
<1>4. Max(S) \in S /\ \A y \in S : Max(S) >= y
  <2> HIDE DEF S
  <2> QED
    BY <1>3 DEF Max
<1>5. PICK m : m = Max(S)
  OBVIOUS
<1>6. m \in S /\ m \in Nat /\ \A y \in S : y <= m
  <2> HIDE DEF S
  <2> QED
    BY <1>2, <1>4, <1>5
<1>7. \A l \in Leaf : f[l] \in S
  BY <1>1
<1> QED
  BY <1>1, <1>5, <1>6, <1>7

\* A distance is a number, it is 0 from a point to itself, and it is no greater to a point
\* that is no farther along any leaf.
LEMMA DistancesAre ==
  ASSUME NEW norm, NEW p \in Point, NEW q \in Point, NEW r \in Point
  PROVE  /\ Distance(norm, p, q) \in Nat
         /\ Distance(norm, p, p) = 0
         /\ (\A l \in Leaf : Gap(p[l], q[l]) <= Gap(p[l], r[l])) =>
              Distance(norm, p, q) <= Distance(norm, p, r)
<1>1. PICK f, g, h : f = Term(norm, p, q) /\ g = Term(norm, p, r) /\ h = Term(norm, p, p)
  OBVIOUS
<1> DEFINE Nearer == \A l \in Leaf : Gap(p[l], q[l]) <= Gap(p[l], r[l])
<1>2. /\ f \in [Leaf -> Nat] /\ g \in [Leaf -> Nat] /\ h \in [Leaf -> Nat] /\ \A l \in Leaf : h[l] = 0
      /\ Nearer => \A l \in Leaf : f[l] <= g[l]
      /\ norm = "LInf" => \A l \in Leaf : f[l] <= Highest - Lowest /\ g[l] <= Highest - Lowest
  BY <1>1, TermsAre
<1> HIDE DEF Nearer
<1>3. CASE norm = "LInf"
  <2>1. /\ Distance(norm, p, q) = Max({0} \cup Range(f)) /\ Distance(norm, p, r) = Max({0} \cup Range(g))
        /\ Distance(norm, p, p) = Max({0} \cup Range(h))
    BY <1>1, <1>3, DistanceByTerm
  <2>2. PICK b : b = Highest - Lowest
    OBVIOUS
  <2>3. b \in Nat /\ \A l \in Leaf : f[l] <= b /\ g[l] <= b /\ h[l] <= b
    BY <1>2, <1>3, <2>2, LeavesAssumption
  <2>4. PICK x, y, z : x = Max({0} \cup Range(f)) /\ y = Max({0} \cup Range(g)) /\ z = Max({0} \cup Range(h))
    OBVIOUS
  <2>5. x \in Nat /\ x \in {0} \cup {f[l] : l \in Leaf}
    BY <1>2, <2>3, <2>4, GreatestIs
  <2>6. y \in Nat /\ \A l \in Leaf : g[l] <= y
    BY <1>2, <2>3, <2>4, GreatestIs
  <2>7. z \in {0} \cup {h[l] : l \in Leaf}
    BY <1>2, <2>3, <2>4, GreatestIs
  <2>8. z = 0
    BY <1>2, <2>7
  <2>9. Nearer => x <= y
    <3>1. ASSUME Nearer, NEW l \in Leaf PROVE f[l] <= y
      <4>1. f[l] \in Nat /\ g[l] \in Nat /\ f[l] <= g[l] /\ g[l] <= y
        BY <1>2, <2>6, <3>1
      <4> QED
        BY <2>6, <4>1
    <3> QED
      BY <2>5, <2>6, <3>1
  <2> QED
    BY <2>1, <2>4, <2>5, <2>8, <2>9 DEF Nearer
<1>4. CASE norm # "LInf"
  <2>1. Distance(norm, p, q) = Total(f) /\ Distance(norm, p, r) = Total(g) /\ Distance(norm, p, p) = Total(h)
    BY <1>1, <1>4, DistanceByTerm
  <2>2. IsFiniteSet(Leaf)
    BY LeavesAssumption DEF Leaf
  <2>3. Total(f) \in Nat /\ ((\A l \in Leaf : f[l] <= g[l]) => Total(f) <= Total(g))
    BY <1>2, <2>2, TotalsAre
  <2>4. Total(h) = 0
    BY <1>2, <2>2, TotalsAre
  <2> QED
    BY <1>2, <2>1, <2>3, <2>4 DEF Nearer
<1> QED
  BY <1>3, <1>4

\* Any set of points has members nearest to a point, and a member is nearest to itself.
LEMMA NearestAre ==
  ASSUME NEW norm, NEW p \in Point, NEW S, S \subseteq Point
  PROVE  /\ Nearest(norm, S, p) \subseteq S
         /\ S # {} => Nearest(norm, S, p) # {}
         /\ p \in S => p \in Nearest(norm, S, p)
<1>1. \A q \in S : Distance(norm, p, q) \in Nat /\ Distance(norm, p, p) = 0
  BY DistancesAre
<1>2. ASSUME S # {} PROVE Nearest(norm, S, p) # {}
  <2> DEFINE D == {Distance(norm, p, q) : q \in S}
  <2>1. D \subseteq Nat /\ D # {}
    BY <1>1, <1>2
  <2>2. \E x \in D : \A y \in D : x <= y
    <3> HIDE DEF D
    <3> QED
      BY <2>1, LeastNumber
  <2>3. PICK q \in S : \A y \in D : Distance(norm, p, q) <= y
    BY <2>2
  <2> QED
    BY <2>3 DEF Nearest
<1>3. ASSUME p \in S PROVE p \in Nearest(norm, S, p)
  <2>1. \A q \in S : Distance(norm, p, p) <= Distance(norm, p, q)
    BY <1>1
  <2> QED
    BY <1>3, <2>1 DEF Nearest
<1> QED
  BY <1>2, <1>3 DEF Nearest

-----------------------------------------------------------------------------
(* What the parts of a space are made of.                                   *)

\* What a draw or a projection may return: no value or one.
Outcomes == {{}} \cup {{p} : p \in Point}

\* Taking one of a set fails only if it is empty.
LEMMA OneOfIs ==
  ASSUME NEW S, S \subseteq Point
  PROVE  /\ OneOf(S) \subseteq Outcomes
         /\ \A d \in OneOf(S) : d \subseteq S
         /\ {} \in OneOf(S) <=> S = {}
BY DEF OneOf, Outcomes

\* Two lists of invariants hold where both do.
LEMMA AllIs ==
  ASSUME NEW s, NEW t, AreInvariants(s), AreInvariants(t)
  PROVE  /\ All(s) \subseteq Point
         /\ AreInvariants(s \o t)
         /\ All(s \o t) = All(s) \cap All(t)
<1>1. /\ s \in Seq(SUBSET Point) /\ t \in Seq(SUBSET Point) /\ Len(s) \in Nat /\ Len(t) \in Nat
      /\ DOMAIN s = 1 .. Len(s) /\ DOMAIN t = 1 .. Len(t)
  BY LenProperties DEF AreInvariants
<1>2. PICK X : X = SUBSET Point
  OBVIOUS
<1>3. s \in Seq(X) /\ t \in Seq(X)
  BY <1>1, <1>2
<1>4. /\ s \o t \in Seq(X) /\ Len(s \o t) = Len(s) + Len(t)
      /\ \A i \in 1 .. Len(s) + Len(t) : (s \o t)[i] = IF i <= Len(s) THEN s[i] ELSE t[i - Len(s)]
  BY <1>3, ConcatProperties
<1>5. DOMAIN (s \o t) = 1 .. Len(s) + Len(t)
  BY <1>4, LenProperties
<1>6. PICK st, m, n : st = s \o t /\ m = Len(s) /\ n = Len(t)
  OBVIOUS
<1>7. /\ \A i \in 1 .. m : i \in DOMAIN st /\ st[i] = s[i]
      /\ \A i \in 1 .. n : m + i \in DOMAIN st /\ st[m + i] = t[i]
  BY <1>1, <1>4, <1>5, <1>6
<1>8. \A i \in DOMAIN st : (i \in 1 .. m /\ st[i] = s[i]) \/ (i - m \in 1 .. n /\ st[i] = t[i - m])
  BY <1>1, <1>4, <1>5, <1>6
<1>9. All(st) = All(s) \cap All(t)
  BY <1>1, <1>6, <1>7, <1>8 DEF All
<1> QED
  BY <1>2, <1>4, <1>6, <1>9 DEF All, AreInvariants

\* A list of one invariant.
LEMMA AllOfOne ==
  ASSUME NEW S, S \subseteq Point
  PROVE  AreInvariants(<<S>>) /\ All(<<S>>) = S
<1>1. <<S>> \in Seq(SUBSET Point)
  OBVIOUS
<1>2. DOMAIN <<S>> = {1} /\ <<S>>[1] = S
  OBVIOUS
<1> QED
  BY <1>1, <1>2 DEF All, AreInvariants

\* No invariant excludes a point.
LEMMA AllOfNone == AreInvariants(<<>>) /\ All(<<>>) = Point
<1>1. <<>> \in Seq(SUBSET Point) /\ DOMAIN <<>> = {}
  OBVIOUS
<1> QED
  BY <1>1 DEF All, AreInvariants

\* A listing is empty if it lists nothing.
LEMMA EmptyList ==
  ASSUME NEW s \in Seq(Point)
  PROVE  /\ ToSet(s) \subseteq Point
         /\ ToSet(s) = {} <=> s = <<>>
         /\ ToSet(<<>>) = {} /\ <<>> \in Seq(Point) /\ Distinct(<<>>)
<1>1. Len(s) \in Nat /\ DOMAIN s = 1 .. Len(s) /\ \A i \in 1 .. Len(s) : s[i] \in Point
  BY LenProperties, ElementOfSeq
<1>2. <<>> \in Seq(Point) /\ DOMAIN <<>> = {} /\ ToSet(<<>>) = {}
  BY DEF ToSet
<1>3. ASSUME s # <<>> PROVE ToSet(s) # {}
  <2>1. Len(s) # 0
    BY <1>3, EmptySeq
  <2>2. 1 \in DOMAIN s
    BY <1>1, <2>1
  <2> QED
    BY <2>2 DEF ToSet
<1> QED
  BY <1>1, <1>2, <1>3 DEF ToSet, Distinct

\* What Project makes of a listing and of draws.
LEMMA ProjectIs ==
  ASSUME NEW member, member \subseteq Point, NEW finite \in BOOLEAN, NEW list \in Seq(Point), NEW norm,
         NEW draws, draws \subseteq Outcomes, NEW p \in Point
  PROVE  LET outcomes == Project(member, finite, list, norm, draws)[p]
         IN /\ outcomes \subseteq Outcomes
            /\ finite /\ {} \in outcomes => list = <<>>
            /\ (finite /\ ToSet(list) = member) \/ (~finite /\ \A d \in draws : d \subseteq member) =>
                 \A d \in outcomes : d \subseteq member
            /\ finite /\ ToSet(list) = member /\ member # {} =>
                 \A d \in outcomes : d # {} /\ d \subseteq Nearest(norm, member, p)
<1>1. PICK outcomes : outcomes = Project(member, finite, list, norm, draws)[p]
  OBVIOUS
<1>2. PICK L, N : L = ToSet(list) /\ N = Nearest(norm, L, p)
  OBVIOUS
<1>3. L \subseteq Point /\ (L = {} <=> list = <<>>) /\ N \subseteq L /\ (L # {} => N # {})
  BY <1>2, EmptyList, NearestAre
<1>4. CASE p \in member
  <2>1. outcomes = {{p}}
    BY <1>1, <1>4 DEF Project
  <2>2. p \in Nearest(norm, member, p)
    BY <1>4, NearestAre
  <2> QED
    BY <1>1, <1>4, <2>1, <2>2 DEF Outcomes
<1>5. CASE p \notin member /\ finite
  <2>1. outcomes = OneOf(N)
    BY <1>1, <1>2, <1>5 DEF Project
  <2>2. outcomes \subseteq Outcomes /\ (\A d \in outcomes : d \subseteq N) /\ ({} \in outcomes <=> N = {})
    BY <1>3, <2>1, OneOfIs
  <2> QED
    BY <1>1, <1>2, <1>3, <1>5, <2>2
<1>6. CASE p \notin member /\ ~finite
  <2>1. outcomes = draws
    BY <1>1, <1>6 DEF Project
  <2> QED
    BY <1>1, <1>6, <2>1
<1> QED
  BY <1>4, <1>5, <1>6

\* Rejection keeps draws that are members.
LEMMA KeptAre ==
  ASSUME NEW draws, draws \subseteq Outcomes, NEW member
  PROVE  Kept(draws, member) \subseteq Outcomes /\ \A d \in Kept(draws, member) : d \subseteq member /\ (d # {} => d \in draws)
BY DEF Kept, Outcomes

-----------------------------------------------------------------------------
(* The algebra.                                                             *)

\* The members are what the reported invariants say.
Described(s) ==
  /\ AreInvariants(s.structural) /\ AreInvariants(s.semantic)
  /\ s.member = Invariant(s)

\* The listing has the members of a finite space.
Listing(s) ==
  /\ s.finite \in BOOLEAN /\ s.list \in Seq(Point)
  /\ s.finite /\ s.storable => ToSet(s.list) = s.member /\ Distinct(s.list)

\* Outcomes are members, and a space that is finite does not fail to find one.
Finding(s, outcomes) ==
  /\ outcomes \subseteq Outcomes
  /\ s.finite /\ {} \in outcomes => s.list = <<>>
  /\ s.storable => \A d \in outcomes : d \subseteq s.member

Drawing(s) == Finding(s, s.draws)

Projecting(s) ==
  \A p \in Point :
    /\ Finding(s, s.project[p])
    /\ s.storable /\ s.nearest /\ s.member # {} =>
         \A d \in s.project[p] : d # {} /\ d \subseteq Nearest(s.norm, s.member, p)

\* What every space keeps to.
Sound(s) == Described(s) /\ Listing(s) /\ Drawing(s) /\ Projecting(s)

\* A space is described by its structural and its semantic invariants.
LEMMA InvariantIs ==
  ASSUME NEW s, AreInvariants(s.structural), AreInvariants(s.semantic)
  PROVE  Invariant(s) = All(s.structural) \cap All(s.semantic) /\ Invariant(s) \subseteq Point
<1>1. PICK x, y : x = s.structural /\ y = s.semantic
  OBVIOUS
<1>2. AreInvariants(x) /\ AreInvariants(y)
  BY <1>1
<1>3. All(x) \subseteq Point /\ All(x \o y) = All(x) \cap All(y)
  BY <1>2, AllIs
<1> QED
  BY <1>1, <1>3 DEF Invariant

\* The same of listings.
LEMMA ThoseOf ==
  ASSUME NEW s \in Seq(Point), NEW S
  PROVE  /\ Those(s, S) \in Seq(Point) /\ ToSet(Those(s, S)) = ToSet(s) \cap S
         /\ Distinct(s) => Distinct(Those(s, S))
         /\ s = <<>> => Those(s, S) = <<>>
<1>1. PICK t : t = Those(s, S)
  OBVIOUS
<1>2. t \in Seq(Point) /\ ToSet(t) = ToSet(s) \cap S /\ (Distinct(s) => Distinct(t))
  BY <1>1, ThoseAre
<1>3. (s = <<>> <=> ToSet(s) = {}) /\ (t = <<>> <=> ToSet(t) = {})
  BY <1>2, EmptyList
<1> QED
  BY <1>1, <1>2, <1>3

\* The parts of a space that Project makes the projection of.
LEMMA ProjectsSoundly ==
  ASSUME NEW s, s.member \subseteq Point, Listing(s), Drawing(s),
         s.project = Project(s.member, s.finite, s.list, s.norm, s.draws),
         s.nearest => s.finite
  PROVE  Projecting(s)
<1>1. PICK member, finite, list, norm, draws :
        member = s.member /\ finite = s.finite /\ list = s.list /\ norm = s.norm /\ draws = s.draws
  OBVIOUS
<1>2. SUFFICES ASSUME NEW p \in Point
               PROVE  /\ Finding(s, s.project[p])
                      /\ s.storable /\ s.nearest /\ s.member # {} =>
                           \A d \in s.project[p] : d # {} /\ d \subseteq Nearest(s.norm, s.member, p)
  BY DEF Projecting
<1>3. PICK outcomes : outcomes = Project(member, finite, list, norm, draws)[p]
  OBVIOUS
<1>4. member \subseteq Point /\ finite \in BOOLEAN /\ list \in Seq(Point) /\ draws \subseteq Outcomes
  BY <1>1 DEF Listing, Drawing, Finding
<1>5. /\ outcomes \subseteq Outcomes
      /\ finite /\ {} \in outcomes => list = <<>>
      /\ (finite /\ ToSet(list) = member) \/ (~finite /\ \A d \in draws : d \subseteq member) =>
           \A d \in outcomes : d \subseteq member
      /\ finite /\ ToSet(list) = member /\ member # {} =>
           \A d \in outcomes : d # {} /\ d \subseteq Nearest(norm, member, p)
  BY <1>3, <1>4, ProjectIs
<1>6. s.project[p] = outcomes
  BY <1>1, <1>3
<1>7. s.storable => (finite /\ ToSet(list) = member) \/ (~finite /\ \A d \in draws : d \subseteq member)
  BY <1>1, <1>4 DEF Listing, Drawing, Finding
<1>8. s.storable /\ s.nearest => finite /\ ToSet(list) = member
  BY <1>1 DEF Listing
<1> QED
  BY <1>1, <1>5, <1>6, <1>7, <1>8 DEF Finding

\* A space that lists what it cannot draw.
LEMMA DrawsSoundly ==
  ASSUME NEW s, NEW kept, Listing(s), kept \subseteq Outcomes,
         s.draws = OrListed(kept, s.finite, s.list),
         s.storable => \A d \in kept : d \subseteq s.member
  PROVE  Drawing(s)
<1>1. PICK L : L = ToSet(s.list)
  OBVIOUS
<1>2. L \subseteq Point /\ (L = {} <=> s.list = <<>>)
  BY <1>1, EmptyList DEF Listing
<1>3. OneOf(L) \subseteq Outcomes /\ (\A d \in OneOf(L) : d \subseteq L) /\ ({} \in OneOf(L) <=> L = {})
  BY <1>2, OneOfIs
<1>4. CASE {} \in kept /\ s.finite
  <2>1. s.draws = (kept \ {{}}) \cup OneOf(L)
    BY <1>1, <1>4 DEF OrListed
  <2>2. s.storable => L = s.member
    BY <1>1, <1>4 DEF Listing
  <2> QED
    BY <1>2, <1>3, <2>1, <2>2 DEF Drawing, Finding
<1>5. CASE ~({} \in kept /\ s.finite)
  <2>1. s.draws = kept
    BY <1>5 DEF OrListed
  <2> QED
    BY <1>5, <2>1 DEF Drawing, Finding
<1> QED
  BY <1>4, <1>5

\* An intersection filters a listing, and rejects draws, by the other space.
LEMMA IntersectionIsSound ==
  ASSUME NEW a, NEW b, Sound(a), Sound(b)
  PROVE  Sound(Intersection(a, b))
<1>1. PICK s : s = Intersection(a, b)
  OBVIOUS
<1>2. PICK fromA, fromB, kept :
        /\ fromA = Kept(a.draws, b.member) /\ fromB = Kept(b.draws, a.member)
        /\ kept = IF {} \notin fromA THEN fromA ELSE IF {} \notin fromB THEN (fromA \ {{}}) \cup fromB ELSE fromA \cup fromB
  OBVIOUS
<1>3. /\ s.structural = a.structural \o b.structural /\ s.semantic = a.semantic \o b.semantic
      /\ s.member = a.member \cap b.member /\ s.norm = a.norm /\ s.finite = (a.finite \/ b.finite)
      /\ s.list = IntersectionList(a, b) /\ s.storable = (a.storable /\ b.storable) /\ s.nearest = s.finite
      /\ s.draws = OrListed(kept, s.finite, s.list)
      /\ s.project = Project(s.member, s.finite, s.list, s.norm, s.draws)
  BY <1>1, <1>2 DEF Intersection
<1>4. Described(s) /\ s.member \subseteq Point
  <2>1. PICK x, y, z, w : x = a.structural /\ y = a.semantic /\ z = b.structural /\ w = b.semantic
    OBVIOUS
  <2>2. AreInvariants(x) /\ AreInvariants(y) /\ AreInvariants(z) /\ AreInvariants(w)
    BY <2>1 DEF Sound, Described
  <2>3. /\ AreInvariants(x \o z) /\ All(x \o z) = All(x) \cap All(z)
        /\ AreInvariants(y \o w) /\ All(y \o w) = All(y) \cap All(w)
    BY <2>2, AllIs
  <2>4. a.member = All(x) \cap All(y) /\ b.member = All(z) \cap All(w)
    BY <2>1, <2>2, InvariantIs DEF Sound, Described
  <2>5. s.structural = x \o z /\ s.semantic = y \o w
    BY <1>3, <2>1
  <2>6. Invariant(s) = All(x \o z) \cap All(y \o w) /\ Invariant(s) \subseteq Point
    BY <2>3, <2>5, InvariantIs
  <2> QED
    BY <1>3, <2>3, <2>4, <2>5, <2>6 DEF Described
<1>5. Listing(s)
  <2>1. a.list \in Seq(Point) /\ b.list \in Seq(Point) /\ s.finite \in BOOLEAN
    BY <1>3 DEF Sound, Listing
  <2>2. CASE a.finite
    <3>1. s.list = Those(a.list, b.member)
      BY <1>3, <2>2 DEF IntersectionList
    <3> QED
      BY <1>3, <2>1, <2>2, <3>1, ThoseOf DEF Sound, Listing
  <2>3. CASE ~a.finite
    <3>1. s.list = Those(b.list, a.member)
      BY <1>3, <2>3 DEF IntersectionList
    <3> QED
      BY <1>3, <2>1, <2>3, <3>1, ThoseOf DEF Sound, Listing
  <2> QED
    BY <2>2, <2>3
<1>6. Drawing(s)
  <2>1. a.draws \subseteq Outcomes /\ b.draws \subseteq Outcomes
    BY DEF Sound, Drawing, Finding
  <2>2. /\ fromA \subseteq Outcomes /\ \A d \in fromA : d \subseteq b.member /\ (d # {} => d \in a.draws)
        /\ fromB \subseteq Outcomes /\ \A d \in fromB : d \subseteq a.member /\ (d # {} => d \in b.draws)
    BY <1>2, <2>1, KeptAre
  <2>3. kept \subseteq fromA \cup fromB
    BY <1>2
  <2>4. s.storable => \A d \in kept : d \subseteq s.member
    <3>1. ASSUME s.storable, NEW d \in kept PROVE d \subseteq s.member
      <4>1. a.storable /\ b.storable
        BY <1>3, <3>1
      <4>2. (\A e \in a.draws : e \subseteq a.member) /\ (\A e \in b.draws : e \subseteq b.member)
        BY <4>1 DEF Sound, Drawing, Finding
      <4> QED
        BY <1>3, <2>2, <2>3, <4>2
    <3> QED
      BY <3>1
  <2>5. kept \subseteq Outcomes
    BY <2>2, <2>3
  <2> QED
    BY <1>3, <1>5, <2>4, <2>5, DrawsSoundly
<1>7. Projecting(s)
  BY <1>3, <1>4, <1>5, <1>6, ProjectsSoundly
<1> QED
  BY <1>1, <1>4, <1>5, <1>6, <1>7 DEF Sound

\* A difference filters by what it takes away.
LEMMA DifferenceIsSound ==
  ASSUME NEW a, NEW b, Sound(a), Sound(b)
  PROVE  Sound(Difference(a, b))
<1>1. PICK s : s = Difference(a, b)
  OBVIOUS
<1>2. PICK kept : kept = Kept(a.draws, Point \ b.member)
  OBVIOUS
<1>3. /\ s.structural = a.structural /\ s.semantic = Append(a.semantic, Not(b))
      /\ s.member = a.member \ b.member /\ s.norm = a.norm /\ s.finite = a.finite
      /\ s.list = Those(a.list, Point \ b.member) /\ s.storable = (a.storable /\ b.storable) /\ s.nearest = a.finite
      /\ s.draws = OrListed(kept, s.finite, s.list)
      /\ s.project = Project(s.member, s.finite, s.list, s.norm, s.draws)
  BY <1>1, <1>2 DEF Difference
<1>4. a.member \subseteq Point /\ b.member \subseteq Point
  BY InvariantIs DEF Sound, Described
<1>5. Described(s)
  <2>1. PICK x, y, N : x = a.structural /\ y = a.semantic /\ N = Not(b)
    OBVIOUS
  <2>2. AreInvariants(x) /\ AreInvariants(y) /\ N = Point \ b.member
    BY <2>1 DEF Sound, Described, Not
  <2>3. y \o <<N>> = Append(y, N)
    <3>1. PICK X : X = SUBSET Point
      OBVIOUS
    <3>2. y \in Seq(X) /\ N \in X
      BY <2>2, <3>1 DEF AreInvariants
    <3> QED
      BY <3>2, AppendIsConcat
  <2>4. AreInvariants(<<N>>) /\ All(<<N>>) = N
    BY <2>2, AllOfOne
  <2>5. PICK n : n = <<N>>
    OBVIOUS
  <2>10. AreInvariants(n) /\ All(n) = N
    BY <2>4, <2>5
  <2>6. AreInvariants(y \o n) /\ All(y \o n) = All(y) \cap N
    <3>1. AreInvariants(y \o n) /\ All(y \o n) = All(y) \cap All(n)
      BY <2>2, <2>10, AllIs
    <3> QED
      BY <2>10, <3>1
  <2>7. a.member = All(x) \cap All(y)
    BY <2>1, <2>2, InvariantIs DEF Sound, Described
  <2>8. s.structural = x /\ s.semantic = y \o n
    BY <1>3, <2>1, <2>3, <2>5
  <2>9. Invariant(s) = All(x) \cap All(y \o n)
    BY <2>2, <2>6, <2>8, InvariantIs
  <2> QED
    BY <1>3, <1>4, <2>2, <2>6, <2>7, <2>8, <2>9 DEF Described
<1>6. Listing(s)
  <2>1. a.list \in Seq(Point) /\ s.finite \in BOOLEAN
    BY <1>3 DEF Sound, Listing
  <2>2. PICK N : N = Point \ b.member
    OBVIOUS
  <2>3. /\ s.list \in Seq(Point) /\ ToSet(s.list) = ToSet(a.list) \cap N
        /\ Distinct(a.list) => Distinct(s.list)
    BY <1>3, <2>1, <2>2, ThoseOf
  <2>4. s.finite /\ s.storable => ToSet(a.list) = a.member /\ Distinct(a.list)
    BY <1>3 DEF Sound, Listing
  <2> QED
    BY <1>3, <1>4, <2>1, <2>2, <2>3, <2>4 DEF Listing
<1>7. Drawing(s)
  <2>1. a.draws \subseteq Outcomes
    BY DEF Sound, Drawing, Finding
  <2>2. kept \subseteq Outcomes /\ \A d \in kept : d \subseteq Point \ b.member /\ (d # {} => d \in a.draws)
    BY <1>2, <2>1, KeptAre
  <2>3. s.storable => \A d \in kept : d \subseteq s.member
    <3>1. ASSUME s.storable, NEW d \in kept PROVE d \subseteq s.member
      <4>1. \A e \in a.draws : e \subseteq a.member
        BY <1>3, <3>1 DEF Sound, Drawing, Finding
      <4> QED
        BY <1>3, <2>2, <4>1
    <3> QED
      BY <3>1
  <2> QED
    BY <1>3, <1>6, <2>2, <2>3, DrawsSoundly
<1>8. Projecting(s)
  <2>1. s.member \subseteq Point
    BY <1>3, <1>4
  <2> QED
    BY <1>3, <1>6, <1>7, <2>1, ProjectsSoundly
<1> QED
  BY <1>1, <1>5, <1>6, <1>7, <1>8 DEF Sound

\* The nearer of two outcomes.
Better(norm, p, d, e) ==
  LET better(x, y) == CASE x = {} -> y [] x # {} /\ y = {} -> x
                        [] OTHER -> LET near(f) == Distance(norm, p, CHOOSE q \in f : TRUE)
                                    IN IF near(x) <= near(y) THEN x ELSE y
  IN better(d, e)

\* A union has the better of any two projections.
LEMMA NearerByBetter ==
  ASSUME NEW a, NEW b, NEW p
  PROVE  NearerProjection(a, b, p) = {Better(a.norm, p, d, e) : d \in a.project[p], e \in b.project[p]}
BY DEF NearerProjection, Better

\* The better of two outcomes is one of them, the one that is nearer if both have a value.
LEMMA BetterIs ==
  ASSUME NEW norm, NEW p, NEW d \in Outcomes, NEW e \in Outcomes
  PROVE  /\ Better(norm, p, d, e) \in {d, e}
         /\ Better(norm, p, d, e) = {} <=> d = {} /\ e = {}
         /\ d = {} => Better(norm, p, d, e) = e
         /\ e = {} => Better(norm, p, d, e) = d
         /\ \A q, r : d = {q} /\ e = {r} =>
              Better(norm, p, d, e) = IF Distance(norm, p, q) <= Distance(norm, p, r) THEN d ELSE e
<1>1. CASE d = {}
  <2>1. Better(norm, p, d, e) = e
    BY <1>1 DEF Better
  <2> QED
    BY <1>1, <2>1
<1>2. CASE d # {} /\ e = {}
  <2>1. Better(norm, p, d, e) = d
    BY <1>2 DEF Better
  <2> QED
    BY <1>2, <2>1
<1>3. CASE d # {} /\ e # {}
  <2>1. PICK q, r : d = {q} /\ e = {r}
    BY <1>3 DEF Outcomes
  <2>2. (CHOOSE x \in d : TRUE) = q /\ (CHOOSE x \in e : TRUE) = r
    BY <2>1
  <2>3. Better(norm, p, d, e) = IF Distance(norm, p, q) <= Distance(norm, p, r) THEN d ELSE e
    BY <1>3, <2>2 DEF Better
  <2>4. \A x, y : d = {x} /\ e = {y} => x = q /\ y = r
    BY <2>1
  <2> QED
    BY <1>3, <2>3, <2>4
<1> QED
  BY <1>1, <1>2, <1>3

\* A union lists the rest of the second space after the first one.
LEMMA UnionIsSound ==
  ASSUME NEW a, NEW b, Sound(a), Sound(b)
  PROVE  Sound(Union(a, b))
<1>1. PICK s : s = Union(a, b)
  OBVIOUS
<1>2. PICK either : either = (a.draws \cup b.draws) \ {{}}
  OBVIOUS
<1>3. /\ s.structural = <<>> /\ s.semantic = <<Invariant(a) \cup Invariant(b)>>
      /\ s.member = a.member \cup b.member /\ s.norm = a.norm /\ s.finite = (a.finite /\ b.finite)
      /\ s.list = a.list \o Those(b.list, Point \ a.member)
      /\ s.storable = (a.storable /\ b.storable) /\ s.nearest = (a.nearest /\ b.nearest /\ a.norm = b.norm)
      /\ s.draws = either \cup (IF {} \in a.draws /\ {} \in b.draws THEN {{}} ELSE {})
      /\ \A p \in Point : s.project[p] = NearerProjection(a, b, p)
  BY <1>1, <1>2 DEF Union
<1>4. a.member \subseteq Point /\ b.member \subseteq Point /\ s.member \subseteq Point
  BY <1>3, InvariantIs DEF Sound, Described
<1>5. Described(s)
  <2>1. PICK N : N = Invariant(a) \cup Invariant(b)
    OBVIOUS
  <2>2. N = a.member \cup b.member /\ N \subseteq Point
    BY <1>4, <2>1 DEF Sound, Described
  <2>3. PICK x, y : x = <<>> /\ y = <<N>>
    OBVIOUS
  <2>4. AreInvariants(x) /\ All(x) = Point /\ AreInvariants(y) /\ All(y) = N
    BY <2>2, <2>3, AllOfNone, AllOfOne
  <2>5. s.structural = x /\ s.semantic = y
    BY <1>3, <2>1, <2>3
  <2>6. Invariant(s) = All(x) \cap All(y)
    BY <2>4, <2>5, InvariantIs
  <2> QED
    BY <1>3, <2>2, <2>4, <2>5, <2>6 DEF Described
<1>6. Listing(s)
  <2>1. a.list \in Seq(Point) /\ b.list \in Seq(Point) /\ s.finite \in BOOLEAN
    BY <1>3 DEF Sound, Listing
  <2>2. PICK x, y, N : x = a.list /\ N = Point \ a.member /\ y = Those(b.list, N)
    OBVIOUS
  <2>3. y \in Seq(Point) /\ ToSet(y) = ToSet(b.list) \cap N /\ (Distinct(b.list) => Distinct(y))
    BY <2>1, <2>2, ThoseOf
  <2>4. x \o y \in Seq(Point)
    BY <2>1, <2>2, <2>3, ConcatProperties
  <2>5. /\ ToSet(x \o y) = ToSet(x) \cup ToSet(y)
        /\ Distinct(x) /\ Distinct(y) /\ ToSet(x) \cap ToSet(y) = {} => Distinct(x \o y)
    <3>1. x \in Seq(Point)
      BY <2>1, <2>2
    <3>2. /\ SetOf(x \o y) = SetOf(x) \cup SetOf(y)
          /\ Distinct(x) /\ Distinct(y) /\ SetOf(x) \cap SetOf(y) = {} => Distinct(x \o y)
      BY <2>3, <3>1, Joined
    <3> QED
      BY <3>2 DEF ToSet, SetOf
  <2>6. s.list = x \o y
    BY <1>3, <2>2
  <2>7. ASSUME s.finite, s.storable PROVE ToSet(x \o y) = s.member /\ Distinct(x \o y)
    <3>1. ToSet(x) = a.member /\ Distinct(x) /\ ToSet(b.list) = b.member /\ Distinct(b.list)
      BY <1>3, <2>2, <2>7 DEF Sound, Listing
    <3>2. Distinct(y) /\ ToSet(y) = b.member \ a.member
      BY <1>4, <2>2, <2>3, <3>1
    <3>3. ToSet(x \o y) = a.member \cup ToSet(y) /\ ToSet(x) \cap ToSet(y) = {}
      BY <2>5, <3>1, <3>2
    <3>4. ToSet(x \o y) = s.member
      BY <1>3, <3>2, <3>3
    <3> QED
      BY <2>5, <3>1, <3>2, <3>3, <3>4
  <2> QED
    BY <2>1, <2>4, <2>6, <2>7 DEF Listing
<1>7. s.finite /\ a.list = <<>> /\ b.list = <<>> => s.list = <<>>
  <2>1. ASSUME a.list = <<>>, b.list = <<>> PROVE s.list = <<>>
    <3>1. PICK N : N = Point \ a.member
      OBVIOUS
    <3>2. Those(b.list, N) = <<>>
      BY <2>1, ThoseOf DEF Sound, Listing
    <3> QED
      BY <1>3, <2>1, <3>1, <3>2
  <2> QED
    BY <2>1
<1>8. /\ a.draws \subseteq Outcomes /\ b.draws \subseteq Outcomes
      /\ s.finite /\ {} \in a.draws => a.list = <<>>
      /\ s.finite /\ {} \in b.draws => b.list = <<>>
      /\ s.storable => (\A d \in a.draws : d \subseteq a.member) /\ (\A d \in b.draws : d \subseteq b.member)
  BY <1>3 DEF Sound, Drawing, Finding
<1>9. Drawing(s)
  <2>1. s.draws \subseteq a.draws \cup b.draws /\ ({} \in s.draws => {} \in a.draws /\ {} \in b.draws)
    BY <1>2, <1>3
  <2>2. s.finite /\ {} \in s.draws => s.list = <<>>
    BY <1>7, <1>8, <2>1
  <2>3. s.storable => \A d \in s.draws : d \subseteq s.member
    BY <1>3, <1>8, <2>1
  <2> QED
    BY <1>8, <2>1, <2>2, <2>3 DEF Drawing, Finding
<1>10. Projecting(s)
  <2>1. SUFFICES ASSUME NEW p \in Point
                 PROVE  /\ Finding(s, s.project[p])
                        /\ s.storable /\ s.nearest /\ s.member # {} =>
                             \A d \in s.project[p] : d # {} /\ d \subseteq Nearest(s.norm, s.member, p)
    BY DEF Projecting
  <2>2. /\ a.project[p] \subseteq Outcomes /\ b.project[p] \subseteq Outcomes
        /\ s.finite /\ {} \in a.project[p] => a.list = <<>>
        /\ s.finite /\ {} \in b.project[p] => b.list = <<>>
        /\ s.storable => (\A d \in a.project[p] : d \subseteq a.member) /\ (\A d \in b.project[p] : d \subseteq b.member)
    BY <1>3 DEF Sound, Projecting, Finding
  <2>3. ASSUME NEW d \in a.project[p], NEW e \in b.project[p], NEW f, f = Better(a.norm, p, d, e)
        PROVE  /\ f \in {d, e} /\ (f = {} => d = {} /\ e = {})
               /\ s.storable /\ s.nearest /\ s.member # {} => f # {} /\ f \subseteq Nearest(s.norm, s.member, p)
    <3>1. d \in Outcomes /\ e \in Outcomes
      BY <2>2
    <3>2. /\ f \in {d, e} /\ (f = {} <=> d = {} /\ e = {}) /\ (d = {} => f = e) /\ (e = {} => f = d)
          /\ \A q, r : d = {q} /\ e = {r} =>
               f = IF Distance(a.norm, p, q) <= Distance(a.norm, p, r) THEN d ELSE e
      BY <2>3, <3>1, BetterIs
    <3>3. ASSUME s.storable, s.nearest, s.member # {} PROVE f # {} /\ f \subseteq Nearest(s.norm, s.member, p)
      <4>1. PICK n : n = a.norm
        OBVIOUS
      <4>2. n = b.norm /\ n = s.norm /\ a.storable /\ b.storable /\ a.nearest /\ b.nearest
        BY <1>3, <3>3, <4>1
      <4>3. /\ a.member # {} => d # {} /\ d \subseteq Nearest(n, a.member, p)
            /\ b.member # {} => e # {} /\ e \subseteq Nearest(n, b.member, p)
            /\ d \subseteq a.member /\ e \subseteq b.member
        BY <2>2, <3>3, <4>1, <4>2 DEF Sound, Projecting
      <4>4. CASE a.member = {}
        <5>1. d = {} /\ f = e /\ s.member = b.member
          BY <1>3, <3>2, <4>3, <4>4
        <5> QED
          BY <3>3, <4>2, <4>3, <5>1
      <4>5. CASE b.member = {}
        <5>1. e = {} /\ f = d /\ s.member = a.member
          BY <1>3, <3>2, <4>3, <4>5
        <5> QED
          BY <3>3, <4>2, <4>3, <5>1
      <4>6. CASE a.member # {} /\ b.member # {}
        <5>1. PICK q, r \in Point : d = {q} /\ e = {r}
          BY <3>1, <4>3, <4>6 DEF Outcomes
        <5>2. /\ q \in a.member /\ \A x \in a.member : Distance(n, p, q) <= Distance(n, p, x)
              /\ r \in b.member /\ \A x \in b.member : Distance(n, p, r) <= Distance(n, p, x)
          BY <4>3, <4>6, <5>1 DEF Nearest
        <5>3. \A x \in Point : Distance(n, p, x) \in Nat
          BY DistancesAre
        <5>4. f = IF Distance(n, p, q) <= Distance(n, p, r) THEN d ELSE e
          BY <3>2, <4>1, <5>1
        <5>5. PICK x, y : x = Distance(n, p, q) /\ y = Distance(n, p, r)
          OBVIOUS
        <5>6. x \in Nat /\ y \in Nat
          BY <5>1, <5>3, <5>5
        <5>7. ASSUME NEW z \in s.member
              PROVE  (x <= y => x <= Distance(n, p, z)) /\ (~(x <= y) => y <= Distance(n, p, z))
          <6>1. PICK w : w = Distance(n, p, z)
            OBVIOUS
          <6>2. w \in Nat /\ (x <= w \/ y <= w)
            BY <1>3, <1>4, <5>2, <5>3, <5>5, <6>1
          <6> QED
            BY <5>6, <6>1, <6>2
        <5>8. CASE x <= y
          <6>1. f = {q} /\ q \in s.member /\ \A z \in s.member : Distance(n, p, q) <= Distance(n, p, z)
            BY <1>3, <5>1, <5>2, <5>4, <5>5, <5>7, <5>8
          <6> QED
            BY <4>2, <6>1 DEF Nearest
        <5>9. CASE ~(x <= y)
          <6>1. f = {r} /\ r \in s.member /\ \A z \in s.member : Distance(n, p, r) <= Distance(n, p, z)
            BY <1>3, <5>1, <5>2, <5>4, <5>5, <5>7, <5>9
          <6> QED
            BY <4>2, <6>1 DEF Nearest
        <5> QED
          BY <5>8, <5>9
      <4> QED
        BY <4>4, <4>5, <4>6
    <3> QED
      BY <3>2, <3>3
  <2>4. \A f \in s.project[p] : \E d \in a.project[p], e \in b.project[p] : f = Better(a.norm, p, d, e)
    BY <1>3, NearerByBetter
  <2>5. s.project[p] \subseteq Outcomes
    BY <2>2, <2>3, <2>4
  <2>6. s.finite /\ {} \in s.project[p] => s.list = <<>>
    <3>1. ASSUME s.finite, {} \in s.project[p] PROVE s.list = <<>>
      <4>1. PICK d \in a.project[p], e \in b.project[p] : {} = Better(a.norm, p, d, e)
        BY <2>4, <3>1
      <4>2. d = {} /\ e = {}
        BY <2>3, <4>1
      <4> QED
        BY <1>7, <2>2, <3>1, <4>2
    <3> QED
      BY <3>1
  <2>7. s.storable => \A f \in s.project[p] : f \subseteq s.member
    BY <1>3, <2>2, <2>3, <2>4
  <2>8. s.storable /\ s.nearest /\ s.member # {} =>
          \A f \in s.project[p] : f # {} /\ f \subseteq Nearest(s.norm, s.member, p)
    BY <2>3, <2>4
  <2> QED
    BY <2>5, <2>6, <2>7, <2>8 DEF Finding
<1> QED
  BY <1>1, <1>5, <1>6, <1>9, <1>10 DEF Sound

-----------------------------------------------------------------------------
(* Spaces of domains, and boxes.                                            *)

\* What a leaf keeps of a number.
LEMMA StoreIs ==
  ASSUME NEW l \in Leaf, NEW x \in Int
  PROVE  /\ Store(l, x) \in Holds(l)
         /\ x \in Holds(l) => Store(l, x) = x
<1>1. Kinds[l] \in {"int", "float"}
  BY LeavesAssumption DEF Leaf
<1>2. PICK t : t = IF Kinds[l] = "float" THEN x ELSE IF x >= 0 THEN Floor(x) ELSE Ceil(x)
  OBVIOUS
<1>3. Store(l, x) = Clamp(t, Lowest, Highest)
  BY <1>2 DEF Store
<1>4. t \in Int /\ (Kinds[l] = "int" => t % 2 = 0) /\ ((Kinds[l] = "int" => x % 2 = 0) => t = x)
  BY <1>1, <1>2 DEF Floor, Ceil
<1>5. PICK c : c = Clamp(t, Lowest, Highest)
  OBVIOUS
<1>6. /\ c \in Int /\ Lowest <= c /\ c <= Highest /\ (t % 2 = 0 => c % 2 = 0)
      /\ Lowest <= t /\ t <= Highest => c = t
  BY <1>4, <1>5, LeavesAssumption DEF Clamp
<1>7. c \in Holds(l)
  BY <1>4, <1>6 DEF Holds, Half
<1>8. ASSUME x \in Holds(l) PROVE c = x
  <2>1. Lowest <= x /\ x <= Highest /\ (Kinds[l] = "int" => x % 2 = 0)
    BY <1>8, LeavesAssumption DEF Holds, Half
  <2> QED
    BY <1>4, <1>6, <2>1
<1> QED
  BY <1>3, <1>5, <1>7, <1>8

\* What holds for all of an ordered collection of invariants.
LEMMA AllOfOrdered ==
  ASSUME NEW C, IsFiniteSet(C), C \subseteq SUBSET Point
  PROVE  AreInvariants(Ordered(C)) /\ All(Ordered(C)) = {p \in Point : \A S \in C : p \in S}
<1>1. PICK o, X : o = Ordered(C) /\ X = SUBSET Point
  OBVIOUS
<1>2. C \subseteq X
  BY <1>1
<1>3. o \in Seq(X) /\ ToSet(o) = C
  BY <1>1, <1>2, OrderedIs
<1>4. All(o) = {p \in Point : \A S \in C : p \in S}
  BY <1>3 DEF All, ToSet
<1> QED
  BY <1>1, <1>3, <1>4 DEF AreInvariants

\* What a client gives to the constructor of a constrained space.
AreDomains(domains) ==
  /\ DOMAIN domains \subseteq Leaf
  /\ \A l \in DOMAIN domains : domains[l] \subseteq Int /\ IsFiniteSet(domains[l])

\* Points with the values of the domains, and of base elsewhere.
Spanned(domains, base) ==
  {p \in Point : /\ \A l \in DOMAIN domains : p[l] \in domains[l]
                 /\ \A l \in Leaf \ DOMAIN domains : p[l] = base[l]}

\* The structural invariants of a constrained space span its domains.
LEMMA StructuralIs ==
  ASSUME NEW domains, AreDomains(domains), NEW base
  PROVE  AreInvariants(Structural(domains, base)) /\ All(Structural(domains, base)) = Spanned(domains, base)
<1> DEFINE C == {{p \in Point : p[l] \in domains[l]} : l \in DOMAIN domains}
           F == {p \in Point : \A l \in Leaf \ DOMAIN domains : p[l] = base[l]}
<1>1. IsFiniteSet(DOMAIN domains)
  <2>1. IsFiniteSet(Leaf)
    BY LeavesAssumption DEF Leaf
  <2> QED
    BY <2>1, FS_Subset DEF AreDomains
<1>2. IsFiniteSet(C)
  <2> DEFINE f == [l \in DOMAIN domains |-> {p \in Point : p[l] \in domains[l]}]
  <2>1. C = {f[l] : l \in DOMAIN domains}
    OBVIOUS
  <2>2. f \in [DOMAIN domains -> C] /\ \A S \in C : \E l \in DOMAIN domains : f[l] = S
    OBVIOUS
  <2>3. f \in Surjection(DOMAIN domains, C)
    <3> HIDE DEF f, C
    <3> QED
      BY <2>2 DEF Surjection
  <2> HIDE DEF f, C
  <2> QED
    BY <1>1, <2>3, FS_Surjection
<1>3. C \subseteq SUBSET Point
  OBVIOUS
<1>4. PICK o, D, n : o = Ordered(C) /\ D = C /\ n = <<F>>
  OBVIOUS
<1>5. AreInvariants(o) /\ All(o) = {p \in Point : \A S \in D : p \in S}
  <2>1. IsFiniteSet(D) /\ D \subseteq SUBSET Point /\ o = Ordered(D)
    BY <1>2, <1>3, <1>4
  <2> QED
    BY <2>1, AllOfOrdered
<1>6. AreInvariants(n) /\ All(n) = F
  <2>1. F \subseteq Point
    OBVIOUS
  <2> HIDE DEF F
  <2> QED
    BY <1>4, <2>1, AllOfOne
<1>7. AreInvariants(o \o n) /\ All(o \o n) = All(o) \cap All(n)
  BY <1>5, <1>6, AllIs
<1>8. Structural(domains, base) = o \o n
  BY <1>4 DEF Structural
<1>9. All(o) = {p \in Point : \A l \in DOMAIN domains : p[l] \in domains[l]}
  <2>1. All(o) = {p \in Point : \A S \in C : p \in S}
    <3> HIDE DEF C
    <3> QED
      BY <1>4, <1>5
  <2>2. ASSUME NEW p \in Point
        PROVE  (\A S \in C : p \in S) <=> \A l \in DOMAIN domains : p[l] \in domains[l]
    OBVIOUS
  <2> HIDE DEF C
  <2> QED
    BY <2>1, <2>2
<1>10. All(o) \cap F = Spanned(domains, base)
  BY <1>9 DEF Spanned
<1> QED
  BY <1>6, <1>7, <1>8, <1>10

\* The search does not come to an assignment before itself, and to one of any two first.
LEMMA BeforeIsAnOrder ==
  ASSUME NEW D, NEW order \in Seq(D), ToSet(order) = D, NEW S, S \subseteq [D -> Int]
  PROVE  /\ \A a \in S : ~Before(order, a, a)
         /\ \A a, b, c \in S : Before(order, a, b) /\ Before(order, b, c) => Before(order, a, c)
         /\ \A a, b \in S : a = b \/ Before(order, a, b) \/ Before(order, b, a)
<1> DEFINE n == Len(order)
           At(a, i) == a[order[i]]
<1>1. /\ n \in Nat /\ DOMAIN order = 1 .. n /\ \A l \in D : \E i \in 1 .. n : order[i] = l
      /\ \A i \in 1 .. n : order[i] \in D
  BY DEF ToSet
<1>2. \A a \in S : \A i \in 1 .. n : At(a, i) \in Int
  BY <1>1
<1>3. \A a, b : Before(order, a, b) <=>
        \E i \in 1 .. n : At(a, i) < At(b, i) /\ \A j \in 1 .. i - 1 : At(a, j) = At(b, j)
  BY <1>1 DEF Before
<1>4. ASSUME NEW a \in S PROVE ~Before(order, a, a)
  <2> HIDE DEF n, At
  <2> QED
    BY <1>2, <1>3
<1>5. ASSUME NEW a \in S, NEW b \in S, NEW c \in S, Before(order, a, b), Before(order, b, c)
      PROVE  Before(order, a, c)
  <2> HIDE DEF n, At
  <2>1. PICK i \in 1 .. n : At(a, i) < At(b, i) /\ \A j \in 1 .. i - 1 : At(a, j) = At(b, j)
    BY <1>3, <1>5
  <2>2. PICK k \in 1 .. n : At(b, k) < At(c, k) /\ \A j \in 1 .. k - 1 : At(b, j) = At(c, j)
    BY <1>3, <1>5
  <2>3. PICK m \in 1 .. n : m = IF i < k THEN i ELSE k
    OBVIOUS
  <2>4. At(a, m) < At(c, m)
    <3>1. At(a, m) \in Int /\ At(b, m) \in Int /\ At(c, m) \in Int
      BY <1>2
    <3>2. CASE i < k
      <4>1. m = i /\ i \in 1 .. k - 1
        BY <1>1, <2>3, <3>2
      <4> QED
        BY <2>1, <2>2, <4>1
    <3>3. CASE i = k
      BY <2>1, <2>2, <2>3, <3>1, <3>3
    <3>4. CASE k < i
      <4>1. m = k /\ k \in 1 .. i - 1
        BY <1>1, <2>3, <3>4
      <4> QED
        BY <2>1, <2>2, <4>1
    <3> QED
      BY <1>1, <3>2, <3>3, <3>4
  <2>5. ASSUME NEW j \in 1 .. m - 1 PROVE At(a, j) = At(c, j)
    <3>1. j \in 1 .. i - 1 /\ j \in 1 .. k - 1
      BY <1>1, <2>3
    <3> QED
      BY <2>1, <2>2, <3>1
  <2> QED
    BY <1>3, <2>4, <2>5
<1>6. ASSUME NEW a \in S, NEW b \in S, a # b PROVE Before(order, a, b) \/ Before(order, b, a)
  <2> DEFINE T == {i \in 1 .. n : At(a, i) # At(b, i)}
  <2>1. \E l \in D : a[l] # b[l]
    <3>1. a = [l \in D |-> a[l]] /\ b = [l \in D |-> b[l]]
      OBVIOUS
    <3> QED
      BY <1>6, <3>1
  <2>2. T # {} /\ T \subseteq Nat
    <3>1. PICK l \in D, i \in 1 .. n : a[l] # b[l] /\ order[i] = l
      BY <1>1, <2>1
    <3>2. i \in T
      BY <3>1
    <3>3. T \subseteq 1 .. n
      OBVIOUS
    <3> HIDE DEF T, n
    <3> QED
      BY <1>1, <3>2, <3>3
  <2>3. PICK i \in T : \A j \in T : i <= j
    <3> HIDE DEF T
    <3> QED
      BY <2>2, LeastNumber
  <2> HIDE DEF n, At
  <2>4. i \in 1 .. n /\ At(a, i) # At(b, i)
    OBVIOUS
  <2>5. ASSUME NEW j \in 1 .. i - 1 PROVE At(a, j) = At(b, j)
    <3>1. j \in 1 .. n /\ ~(i <= j)
      BY <1>1, <2>4
    <3> QED
      BY <2>3, <3>1
  <2>6. At(a, i) \in Int /\ At(b, i) \in Int
    BY <1>2, <2>4
  <2>7. At(a, i) < At(b, i) \/ At(b, i) < At(a, i)
    BY <2>4, <2>6
  <2> QED
    BY <1>3, <2>4, <2>5, <2>7
<1> QED
  BY <1>4, <1>5, <1>6

\* It comes to each assignment once.
LEMMA AscendingIs ==
  ASSUME NEW D, NEW order \in Seq(D), ToSet(order) = D, NEW S, IsFiniteSet(S), S \subseteq [D -> Int]
  PROVE  /\ Ascending(order, S) \in Seq(S) /\ ToSet(Ascending(order, S)) = S
         /\ Distinct(Ascending(order, S))
<1> DEFINE earlier == [a \in S |-> {b \in S : Before(order, b, a)}]
           rank == [a \in S |-> Cardinality({b \in S : Before(order, b, a)})]
<1>1. PICK n : n = Cardinality(S)
  OBVIOUS
<1>2. n \in Nat
  BY <1>1, FS_CardinalityType
<1>3. ASSUME NEW a \in S PROVE rank[a] \in 0 .. n - 1 /\ IsFiniteSet(earlier[a]) /\ rank[a] = Cardinality(earlier[a])
  <2>1. a \notin earlier[a] /\ earlier[a] \in SUBSET S
    BY BeforeIsAnOrder
  <2>2. PICK T : T = earlier[a]
    OBVIOUS
  <2>3. IsFiniteSet(T) /\ Cardinality(T) <= n /\ (n = Cardinality(T) => S = T) /\ T # S
    BY <1>1, <2>1, <2>2, FS_Subset
  <2>4. Cardinality(T) \in Nat
    BY <2>3, FS_CardinalityType
  <2> QED
    BY <1>2, <2>2, <2>3, <2>4
<1>4. ASSUME NEW a \in S, NEW b \in S, Before(order, a, b) PROVE rank[a] < rank[b]
  <2>1. earlier[a] \subseteq earlier[b] /\ a \in earlier[b] /\ a \notin earlier[a]
    BY <1>4, BeforeIsAnOrder
  <2>2. PICK A, B : A = earlier[a] /\ B = earlier[b]
    OBVIOUS
  <2>3. IsFiniteSet(A) /\ IsFiniteSet(B) /\ A \in SUBSET B /\ A # B
    BY <1>3, <2>1, <2>2
  <2>4. Cardinality(A) <= Cardinality(B) /\ Cardinality(B) # Cardinality(A)
    BY <2>3, FS_Subset
  <2>5. rank[a] = Cardinality(A) /\ rank[b] = Cardinality(B) /\ rank[a] \in Int /\ rank[b] \in Int
    BY <1>3, <2>2
  <2> QED
    BY <2>4, <2>5
<1>5. PICK r : r = rank
  OBVIOUS
<1>6. r \in [S -> 0 .. n - 1] /\ \A a, b \in S : r[a] = r[b] => a = b
  <2>1. \A a \in S : rank[a] \in 0 .. n - 1
    BY <1>3
  <2>2. ASSUME NEW a \in S, NEW b \in S, a # b PROVE rank[a] # rank[b]
    <3>1. Before(order, a, b) \/ Before(order, b, a)
      BY <2>2, BeforeIsAnOrder
    <3> HIDE DEF rank
    <3> QED
      BY <1>2, <1>4, <2>1, <3>1
  <2> QED
    BY <1>5, <2>1, <2>2
<1>7. \A k \in 0 .. n - 1 : \E a \in S : r[a] = k
  <2>1. IsFiniteSet(0 .. n - 1) /\ Cardinality(0 .. n - 1) = n
    <3>1. PICK k : k = n - 1
      OBVIOUS
    <3>2. k \in Int /\ 0 \in Int /\ (0 > k <=> n = 0) /\ k - 0 + 1 = n
      BY <1>2, <3>1
    <3> QED
      BY <3>1, <3>2, FS_Interval
  <2>2. PICK R : R = 0 .. n - 1
    OBVIOUS
  <2>3. r \in Injection(S, R)
    BY <1>6, <2>2 DEF Injection, IsInjective
  <2>4. r \in Surjection(S, R)
    BY <1>1, <2>1, <2>2, <2>3, FS_Injection
  <2> QED
    BY <2>2, <2>4 DEF Surjection
<1>8. PICK e : e = [i \in 1 .. n |-> CHOOSE a \in S : r[a] = i - 1]
  OBVIOUS
<1>9. Ascending(order, S) = e
  BY <1>1, <1>5, <1>8 DEF Ascending
<1>10. ASSUME NEW i \in 1 .. n PROVE e[i] \in S /\ r[e[i]] = i - 1
  <2>1. i - 1 \in 0 .. n - 1
    BY <1>2
  <2>2. \E a \in S : r[a] = i - 1
    BY <1>7, <2>1
  <2>3. e[i] = CHOOSE a \in S : r[a] = i - 1
    BY <1>8
  <2> QED
    BY <2>2, <2>3
<1>11. e \in [1 .. n -> S] /\ DOMAIN e = 1 .. n
  BY <1>8, <1>10
<1>12. e \in Seq(S)
  BY <1>2, <1>11
<1>13. ASSUME NEW a \in S PROVE \E i \in DOMAIN e : e[i] = a
  <2>1. PICK i \in 1 .. n : i = r[a] + 1
    <3>1. r[a] \in 0 .. n - 1
      BY <1>6
    <3> QED
      BY <1>2, <3>1
  <2>2. r[e[i]] = r[a] /\ e[i] \in S
    <3>1. r[a] \in Int
      BY <1>6
    <3> QED
      BY <1>10, <2>1, <3>1
  <2> QED
    BY <1>6, <1>11, <2>2
<1>14. ToSet(e) = S
  BY <1>10, <1>11, <1>13 DEF ToSet
<1>15. Distinct(e)
  <2>1. ASSUME NEW i \in 1 .. n, NEW j \in 1 .. n, e[i] = e[j] PROVE i = j
    BY <1>10, <2>1
  <2> QED
    BY <1>11, <2>1 DEF Distinct
<1> QED
  BY <1>9, <1>12, <1>14, <1>15

\* Assignments of domain values, and what is stored of one.
Assigned(domains) == {a \in [DOMAIN domains -> UNION Range(domains)] : \A l \in DOMAIN a : a[l] \in domains[l]}
StoredOf(domains, base, a) == [l \in Leaf |-> IF l \in DOMAIN domains THEN Store(l, a[l]) ELSE base[l]]

\* The synthesizer finds every point of the domains that satisfies the semantic invariants, once,
\* if leaves can hold the domain values.
LEMMA SolutionsAre ==
  ASSUME NEW domains, AreDomains(domains), NEW order, IsSearchOrder(order, DOMAIN domains),
         NEW base \in Point, NEW semantic, AreInvariants(semantic)
  PROVE  /\ Solutions(domains, order, base, semantic) \in Seq(Point)
         /\ (\A l \in DOMAIN domains : domains[l] \subseteq Holds(l)) =>
              /\ ToSet(Solutions(domains, order, base, semantic)) = Spanned(domains, base) \cap All(semantic)
              /\ Distinct(Solutions(domains, order, base, semantic))
<1>1. PICK D, A : D = DOMAIN domains /\ A = Assigned(domains)
  OBVIOUS
<1>2. D \subseteq Leaf /\ IsFiniteSet(D)
  <2>1. IsFiniteSet(Leaf)
    BY LeavesAssumption DEF Leaf
  <2> QED
    BY <1>1, <2>1, FS_Subset DEF AreDomains
<1>3. \A a : a \in A <=> a \in [D -> UNION Range(domains)] /\ \A l \in D : a[l] \in domains[l]
  BY <1>1 DEF Assigned
<1>4. IsFiniteSet(A)
  <2>1. IsFiniteSet(Range(domains))
    <3>1. PICK f, R : f = [l \in D |-> domains[l]] /\ R = Range(domains)
      OBVIOUS
    <3>2. R = {domains[l] : l \in D}
      BY <1>1, <3>1 DEF Range
    <3>3. f \in Surjection(D, R)
      BY <3>1, <3>2 DEF Surjection
    <3> QED
      BY <1>2, <3>1, <3>3, FS_Surjection
  <2>2. IsFiniteSet(UNION Range(domains))
    <3>1. \A S \in Range(domains) : IsFiniteSet(S)
      BY <1>1 DEF Range, AreDomains
    <3> QED
      BY <2>1, <3>1, FS_UNION
  <2>3. PICK U : U = UNION Range(domains)
    OBVIOUS
  <2>4. IsFiniteSet([D -> U])
    BY <1>2, <2>2, <2>3, FunctionsAreFinite
  <2>5. A \subseteq [D -> U]
    BY <1>3, <2>3
  <2> QED
    BY <2>4, <2>5, FS_Subset
<1>5. PICK f : f = [a \in A |-> StoredOf(domains, base, a)]
  OBVIOUS
<1>6. ASSUME NEW a \in A PROVE f[a] \in Point /\ \A l \in Leaf : f[a][l] = IF l \in D THEN Store(l, a[l]) ELSE base[l]
  <2>1. f[a] = [l \in Leaf |-> IF l \in D THEN Store(l, a[l]) ELSE base[l]]
    BY <1>1, <1>5 DEF StoredOf
  <2>2. ASSUME NEW l \in Leaf
        PROVE  (IF l \in D THEN Store(l, a[l]) ELSE base[l]) \in Holds(l)
    <3>1. CASE l \in D
      <4>1. a[l] \in Int
        BY <1>1, <1>3, <3>1 DEF AreDomains
      <4> QED
        BY <3>1, <4>1, StoreIs
    <3>2. CASE l \notin D
      BY <3>2, PointsHoldNumbers
    <3> QED
      BY <3>1, <3>2
  <2>3. \A l \in Leaf : Holds(l) \subseteq Half
    BY DEF Holds
  <2> QED
    BY <2>1, <2>2, <2>3 DEF Point
<1>7. f \in [A -> Point]
  BY <1>5, <1>6
<1>8. PICK found, e : found = Ascending(order, A) /\ e = [i \in DOMAIN found |-> StoredOf(domains, base, found[i])]
  OBVIOUS
<1>9. e \in Seq(Point) /\ ToSet(e) = {f[a] : a \in A} /\ ((\A a, c \in A : f[a] = f[c] => a = c) => Distinct(e))
  <2>1. A \subseteq [D -> Int]
    BY <1>1, <1>3 DEF AreDomains
  <2>2. order \in Seq(D) /\ ToSet(order) = D
    BY <1>1 DEF IsSearchOrder
  <2>3. found \in Seq(A) /\ ToSet(found) = A /\ Distinct(found)
    BY <1>4, <1>8, <2>1, <2>2, AscendingIs
  <2>4. /\ Len(found) \in Nat /\ DOMAIN found = 1 .. Len(found) /\ DOMAIN e = DOMAIN found
        /\ \A i \in DOMAIN found : found[i] \in A /\ e[i] = f[found[i]]
    BY <1>5, <1>8, <2>3
  <2>5. e = [i \in 1 .. Len(found) |-> f[found[i]]]
    BY <1>8, <2>4
  <2>6. e \in Seq(Point)
    BY <1>7, <2>4, <2>5
  <2>7. ToSet(e) = {f[a] : a \in A}
    <3>1. \A a \in A : \E i \in DOMAIN found : found[i] = a
      BY <2>3 DEF ToSet
    <3> QED
      BY <2>4, <3>1 DEF ToSet
  <2>8. (\A a, c \in A : f[a] = f[c] => a = c) => Distinct(e)
    BY <2>3, <2>4 DEF Distinct
  <2> QED
    BY <2>6, <2>7, <2>8
<1>10. PICK N, list : N = All(semantic) /\ list = Those(e, N)
  OBVIOUS
<1>11. list \in Seq(Point) /\ ToSet(list) = ToSet(e) \cap N /\ (Distinct(e) => Distinct(list))
  BY <1>9, <1>10, ThoseOf
<1>12. Solutions(domains, order, base, semantic) = list
  <2>1. Solutions(domains, order, base, semantic) =
          Those([i \in DOMAIN Ascending(order, Assigned(domains)) |->
                   StoredOf(domains, base, Ascending(order, Assigned(domains))[i])], All(semantic))
    BY DEF Solutions, Assigned, StoredOf
  <2> QED
    BY <1>1, <1>8, <1>10, <2>1
<1>13. ASSUME \A l \in DOMAIN domains : domains[l] \subseteq Holds(l)
       PROVE  ToSet(e) = Spanned(domains, base) /\ Distinct(e)
  <2>1. ASSUME NEW a \in A, NEW l \in D PROVE f[a][l] = a[l] /\ a[l] \in domains[l]
    <3>1. a[l] \in Holds(l) /\ a[l] \in domains[l] /\ l \in Leaf
      BY <1>1, <1>2, <1>3, <1>13
    <3>2. a[l] \in Int
      BY <1>1, <3>1 DEF AreDomains
    <3>3. Store(l, a[l]) = a[l]
      BY <3>1, <3>2, StoreIs
    <3> QED
      BY <1>6, <3>1, <3>3
  <2>2. ASSUME NEW a \in A, NEW c \in A, f[a] = f[c] PROVE a = c
    <3>1. \A l \in D : a[l] = c[l]
      BY <2>1, <2>2
    <3>2. a = [l \in D |-> a[l]] /\ c = [l \in D |-> c[l]]
      BY <1>3
    <3> QED
      BY <3>1, <3>2
  <2>3. ASSUME NEW a \in A PROVE f[a] \in Spanned(domains, base)
    BY <1>1, <1>6, <2>1 DEF Spanned
  <2>4. ASSUME NEW p \in Spanned(domains, base) PROVE \E a \in A : f[a] = p
    <3>1. PICK a : a = [l \in D |-> p[l]]
      OBVIOUS
    <3>2. p \in Point /\ (\A l \in D : p[l] \in domains[l]) /\ \A l \in Leaf \ D : p[l] = base[l]
      BY <1>1 DEF Spanned
    <3>3. a \in A
      <4>1. \A l \in D : a[l] \in domains[l] /\ domains[l] \in Range(domains)
        BY <1>1, <3>1, <3>2 DEF Range
      <4>2. a \in [D -> UNION Range(domains)]
        BY <3>1, <4>1
      <4> QED
        BY <1>3, <4>1, <4>2
    <3>4. \A l \in Leaf : f[a][l] = p[l]
      BY <1>6, <2>1, <3>1, <3>2, <3>3
    <3>5. f[a] \in Point
      BY <1>6, <3>3
    <3>6. f[a] = p
      BY <3>2, <3>4, <3>5 DEF Point
    <3> QED
      BY <3>3, <3>6
  <2> QED
    BY <1>9, <2>2, <2>3, <2>4
<1> QED
  BY <1>10, <1>11, <1>12, <1>13

\* Constrained spaces list what the synthesizer finds.
LEMMA ConstrainedIsSound ==
  ASSUME NEW domains, AreDomains(domains), NEW order, IsSearchOrder(order, DOMAIN domains),
         NEW base \in Point, NEW semantic, AreInvariants(semantic), NEW norm
  PROVE  Sound(Constrained(domains, order, base, semantic, norm))
<1>1. PICK s, structural : s = Constrained(domains, order, base, semantic, norm) /\ structural = Structural(domains, base)
  OBVIOUS
<1>2. /\ s.structural = structural /\ s.semantic = semantic /\ s.member = All(structural \o semantic)
      /\ s.norm = norm /\ s.finite = TRUE /\ s.list = Solutions(domains, order, base, semantic)
      /\ s.draws = OneOf(ToSet(s.list)) /\ s.project = Project(s.member, TRUE, s.list, norm, s.draws)
      /\ s.storable = (\A l \in DOMAIN domains : domains[l] \subseteq Holds(l)) /\ s.nearest = TRUE
  BY <1>1 DEF Constrained
<1>3. AreInvariants(structural) /\ All(structural) = Spanned(domains, base)
  BY <1>1, StructuralIs
<1>4. s.member = Spanned(domains, base) \cap All(semantic) /\ s.member \subseteq Point
  BY <1>2, <1>3, AllIs
<1>5. Described(s)
  BY <1>2, <1>3 DEF Described, Invariant
<1>6. Listing(s)
  <2>1. /\ s.list \in Seq(Point)
        /\ s.storable => ToSet(s.list) = Spanned(domains, base) \cap All(semantic) /\ Distinct(s.list)
    BY <1>2, SolutionsAre
  <2> QED
    BY <1>2, <1>4, <2>1 DEF Listing
<1>7. Drawing(s)
  <2>1. PICK L : L = ToSet(s.list)
    OBVIOUS
  <2>2. L \subseteq Point /\ (L = {} <=> s.list = <<>>)
    BY <1>6, <2>1, EmptyList DEF Listing
  <2>3. OneOf(L) \subseteq Outcomes /\ (\A d \in OneOf(L) : d \subseteq L) /\ ({} \in OneOf(L) <=> L = {})
    BY <2>2, OneOfIs
  <2>4. s.storable => L = s.member
    BY <1>2, <1>6, <2>1 DEF Listing
  <2> QED
    BY <1>2, <2>1, <2>2, <2>3, <2>4 DEF Drawing, Finding
<1>8. Projecting(s)
  <2>1. s.project = Project(s.member, s.finite, s.list, s.norm, s.draws) /\ (s.nearest => s.finite)
    BY <1>2
  <2> QED
    BY <1>4, <1>6, <1>7, <2>1, ProjectsSoundly
<1> QED
  BY <1>1, <1>5, <1>6, <1>7, <1>8 DEF Sound

\* Predicate spaces reject what a generator draws.
LEMMA PredicateIsSound ==
  ASSUME NEW semantic, AreInvariants(semantic), NEW structural, AreInvariants(structural),
         NEW generator, generator \subseteq Outcomes
  PROVE  Sound(PredicateSpace(semantic, structural, generator))
<1>1. PICK s : s = PredicateSpace(semantic, structural, generator)
  OBVIOUS
<1>2. /\ s.structural = structural /\ s.semantic = semantic /\ s.member = All(structural \o semantic)
      /\ s.norm = "L2" /\ s.finite = FALSE /\ s.list = <<>>
      /\ s.draws = Kept(generator, s.member) /\ s.project = Project(s.member, FALSE, <<>>, "L2", s.draws)
      /\ s.storable = TRUE /\ s.nearest = FALSE
  BY <1>1 DEF PredicateSpace
<1>3. s.member \subseteq Point
  BY <1>2, AllIs
<1>4. Described(s)
  BY <1>2 DEF Described, Invariant
<1>5. Listing(s)
  <2>1. <<>> \in Seq(Point)
    OBVIOUS
  <2> QED
    BY <1>2, <2>1 DEF Listing
<1>6. Drawing(s)
  <2>1. PICK m : m = s.member
    OBVIOUS
  <2>2. Kept(generator, m) \subseteq Outcomes /\ \A d \in Kept(generator, m) : d \subseteq m
    BY KeptAre
  <2> QED
    BY <1>2, <2>1, <2>2 DEF Drawing, Finding
<1>7. Projecting(s)
  <2>1. s.project = Project(s.member, s.finite, s.list, s.norm, s.draws) /\ (s.nearest => s.finite)
    BY <1>2
  <2> QED
    BY <1>3, <1>5, <1>6, <2>1, ProjectsSoundly
<1> QED
  BY <1>1, <1>4, <1>5, <1>6, <1>7 DEF Sound

\* The bounds of a leaf of a box: what is drawn and what a value is moved to lie between them.
LEMMA BoundsOfALeaf ==
  ASSUME NEW l \in Leaf, NEW b, Interval(b), NEW i, i = Rounded(l, b), NEW x \in Int
  PROVE  /\ i.lo \in Int /\ i.hi \in Int /\ Clamp(x, i.lo, i.hi) \in Int
         /\ (\E y \in Holds(l) : y \in i.lo .. i.hi) =>
              /\ x \in i.lo .. i.hi /\ (Kinds[l] = "int" => x % 2 = 0) =>
                   b.lo <= Store(l, x) /\ Store(l, x) <= b.hi
              /\ x \in Holds(l) =>
                   LET c == Store(l, Clamp(x, i.lo, i.hi))
                   IN /\ b.lo <= c /\ c <= b.hi
                      /\ \A r \in Holds(l) : b.lo <= r /\ r <= b.hi => Gap(x, c) <= Gap(x, r)
<1>1. Kinds[l] \in {"int", "float"}
  BY LeavesAssumption DEF Leaf
<1>2. PICK lo, hi, low, high : lo = b.lo /\ hi = b.hi /\ low = i.lo /\ high = i.hi
  OBVIOUS
<1>3. /\ lo \in Int /\ hi \in Int /\ low \in Int /\ high \in Int /\ lo <= low /\ high <= hi
      /\ Kinds[l] = "int" => low % 2 = 0 /\ high % 2 = 0
      /\ \A r \in Int : lo <= r /\ r <= hi /\ (Kinds[l] = "int" => r % 2 = 0) => low <= r /\ r <= high
  <2>1. CASE Kinds[l] = "float"
    BY <1>2, <2>1 DEF Interval, Rounded
  <2>2. CASE Kinds[l] = "int"
    <3>1. lo \in Int /\ hi \in Int /\ low = lo + (lo % 2) /\ high = hi - (hi % 2)
      BY <1>2, <2>2 DEF Interval, Rounded, Ceil, Floor
    <3>2. low % 2 = 0 /\ high % 2 = 0 /\ lo <= low /\ high <= hi /\ low \in Int /\ high \in Int
      BY <3>1
    <3>3. ASSUME NEW r \in Int, lo <= r, r <= hi, r % 2 = 0 PROVE low <= r /\ r <= high
      BY <3>1, <3>3
    <3> QED
      BY <2>2, <3>1, <3>2, <3>3
  <2> QED
    BY <1>1, <2>1, <2>2
<1>4. \A r \in Holds(l) : r \in Int /\ Lowest <= r /\ r <= Highest /\ (Kinds[l] = "int" => r % 2 = 0)
  BY LeavesAssumption DEF Holds, Half
<1>5. ASSUME NEW z \in Int, Kinds[l] = "int" => z % 2 = 0
      PROVE  Store(l, z) = Clamp(z, Lowest, Highest)
  <2>1. Kinds[l] = "int" => Floor(z) = z /\ Ceil(z) = z
    BY <1>5 DEF Floor, Ceil
  <2> QED
    BY <1>1, <2>1 DEF Store
<1>6. Clamp(x, low, high) \in Int
  BY <1>3 DEF Clamp
<1>7. ASSUME NEW y \in Holds(l), y \in low .. high, x \in low .. high, Kinds[l] = "int" => x % 2 = 0
      PROVE  lo <= Store(l, x) /\ Store(l, x) <= hi
  <2>1. y \in Int /\ Lowest <= y /\ y <= Highest /\ low <= y /\ y <= high /\ low <= x /\ x <= high
    BY <1>3, <1>4, <1>7
  <2>2. Store(l, x) = Clamp(x, Lowest, Highest)
    BY <1>5, <1>7
  <2> QED
    BY <1>3, <2>1, <2>2, LeavesAssumption DEF Clamp
<1>8. ASSUME NEW y \in Holds(l), y \in low .. high, x \in Holds(l), NEW c, c = Store(l, Clamp(x, low, high))
      PROVE  /\ lo <= c /\ c <= hi
             /\ \A r \in Holds(l) : lo <= r /\ r <= hi => Gap(x, c) <= Gap(x, r)
  <2>1. y \in Int /\ Lowest <= y /\ y <= Highest /\ low <= y /\ y <= high
    BY <1>3, <1>4, <1>8
  <2>2. Lowest <= x /\ x <= Highest /\ (Kinds[l] = "int" => x % 2 = 0)
    BY <1>4, <1>8
  <2>3. PICK z : z = Clamp(x, low, high)
    OBVIOUS
  <2>4. z = IF x < low THEN low ELSE IF high < x THEN high ELSE x
    BY <2>3 DEF Clamp
  <2>5. z \in Int /\ (Kinds[l] = "int" => z % 2 = 0) /\ low <= z /\ z <= high /\ Lowest <= z /\ z <= Highest
    <3>1. Lowest \in Int /\ Highest \in Int
      BY LeavesAssumption
    <3>2. CASE x < low
      BY <1>3, <2>1, <2>2, <2>4, <3>1, <3>2
    <3>3. CASE high < x /\ ~(x < low)
      BY <1>3, <2>1, <2>2, <2>4, <3>1, <3>3
    <3>4. CASE ~(high < x) /\ ~(x < low)
      BY <1>3, <2>1, <2>2, <2>4, <3>1, <3>4
    <3> QED
      BY <3>2, <3>3, <3>4
  <2>6. c = z
    <3>1. Store(l, z) = Clamp(z, Lowest, Highest)
      BY <1>5, <2>5
    <3> QED
      BY <1>8, <2>3, <2>5, <3>1, LeavesAssumption DEF Clamp
  <2>7. ASSUME NEW r \in Holds(l), lo <= r, r <= hi PROVE Gap(x, z) <= Gap(x, r)
    <3>1. r \in Int /\ low <= r /\ r <= high
      BY <1>3, <1>4, <2>7
    <3> QED
      BY <1>3, <2>4, <3>1 DEF Gap
  <2> QED
    BY <1>3, <2>5, <2>6, <2>7
<1> QED
  BY <1>2, <1>3, <1>6, <1>7, <1>8

\* The bounds of a leaf, and those of its values.
SlotOf(bounds, overrides, l)  == IF l \in DOMAIN overrides THEN overrides[l] ELSE bounds
InnerOf(bounds, overrides, l) == Rounded(l, SlotOf(bounds, overrides, l))

Inside(bounds, overrides) ==
  {p \in Point : \A l \in Leaf : SlotOf(bounds, overrides, l).lo <= p[l] /\ p[l] <= SlotOf(bounds, overrides, l).hi}

\* A box draws between its bounds and moves each leaf to the nearer one.
LEMMA BoxIsSound ==
  ASSUME NEW bounds, Interval(bounds), NEW overrides, \A l \in DOMAIN overrides : Interval(overrides[l]), NEW norm
  PROVE  Sound(Box(bounds, overrides, norm))
<1> DEFINE slot(l)  == SlotOf(bounds, overrides, l)
           inner(l) == InnerOf(bounds, overrides, l)
           within(l) == {p \in Point : slot(l).lo <= p[l] /\ p[l] <= slot(l).hi}
           drawn(l) == {x \in inner(l).lo .. inner(l).hi : Kinds[l] = "int" => x % 2 = 0}
           C == {within(l) : l \in Leaf}
           D == {p \in Point : \A l \in Leaf : p[l] \in {Store(l, x) : x \in drawn(l)}}
           landed(p) == {q \in Point : \A l \in Leaf : q[l] \in {Store(l, x) : x \in Clamped(p[l], inner(l))}}
<1>1. PICK s, structural : s = Box(bounds, overrides, norm) /\ structural = Ordered(C)
  OBVIOUS
<1>2. /\ s.structural = structural /\ s.semantic = <<>> /\ s.member = All(structural) /\ s.norm = norm
      /\ s.finite = FALSE /\ s.list = <<>> /\ s.draws = OneOf(D)
      /\ \A p \in Point : s.project[p] = {{q} : q \in landed(p)}
      /\ s.storable = (\A l \in Leaf : \E x \in Holds(l) : x \in inner(l).lo .. inner(l).hi) /\ s.nearest = TRUE
  BY <1>1 DEF Box, SlotOf, InnerOf
<1>3. \A l \in Leaf : Interval(slot(l)) /\ inner(l) = Rounded(l, slot(l))
  BY DEF SlotOf, InnerOf
<1> HIDE DEF slot, inner
<1>4. AreInvariants(structural) /\ All(structural) = {p \in Point : \A S \in C : p \in S}
  <2>1. IsFiniteSet(C)
    <3> DEFINE f == [l \in Leaf |-> within(l)]
    <3>1. f \in [Leaf -> C] /\ \A S \in C : \E l \in Leaf : f[l] = S
      OBVIOUS
    <3>2. f \in Surjection(Leaf, C)
      <4> HIDE DEF f, C
      <4> QED
        BY <3>1 DEF Surjection
    <3>3. IsFiniteSet(Leaf)
      BY LeavesAssumption DEF Leaf
    <3> HIDE DEF f, C
    <3> QED
      BY <3>2, <3>3, FS_Surjection
  <2>2. C \subseteq SUBSET Point
    OBVIOUS
  <2>3. PICK E : E = C
    OBVIOUS
  <2>4. IsFiniteSet(E) /\ E \subseteq SUBSET Point
    BY <2>1, <2>2, <2>3
  <2>5. AreInvariants(Ordered(E)) /\ All(Ordered(E)) = {p \in Point : \A S \in E : p \in S}
    BY <2>4, AllOfOrdered
  <2> HIDE DEF C
  <2> QED
    BY <1>1, <2>3, <2>5
<1>5. \A p : p \in s.member <=> p \in Point /\ \A l \in Leaf : slot(l).lo <= p[l] /\ p[l] <= slot(l).hi
  <2>1. \A p \in Point : (\A S \in C : p \in S) <=> \A l \in Leaf : p \in within(l)
    OBVIOUS
  <2>2. s.member = {p \in Point : \A S \in C : p \in S}
    <3> HIDE DEF C
    <3> QED
      BY <1>2, <1>4
  <2>3. \A p : p \in s.member <=> p \in Point /\ \A l \in Leaf : p \in within(l)
    <3> HIDE DEF C, within
    <3> QED
      BY <2>1, <2>2
  <2> QED
    BY <2>3
<1>6. Described(s)
  <2>1. PICK x, y : x = structural /\ y = <<>>
    OBVIOUS
  <2>2. AreInvariants(x) /\ AreInvariants(y) /\ All(y) = Point
    BY <1>4, <2>1, AllOfNone
  <2>3. s.structural = x /\ s.semantic = y
    BY <1>2, <2>1
  <2>4. Invariant(s) = All(x) \cap All(y)
    BY <2>2, <2>3, InvariantIs
  <2>5. All(x) \subseteq Point
    BY <2>2, AllIs
  <2> QED
    BY <1>2, <2>1, <2>2, <2>3, <2>4, <2>5 DEF Described
<1>7. Listing(s)
  <2>1. <<>> \in Seq(Point)
    OBVIOUS
  <2> QED
    BY <1>2, <2>1 DEF Listing
<1>8. Drawing(s)
  <2>1. D \subseteq Point
    OBVIOUS
  <2>2. ASSUME s.storable, NEW p \in D PROVE p \in s.member
    <3>1. ASSUME NEW l \in Leaf PROVE slot(l).lo <= p[l] /\ p[l] <= slot(l).hi
      <4>1. PICK b, i : b = slot(l) /\ i = inner(l)
        OBVIOUS
      <4>2. Interval(b) /\ i = Rounded(l, b)
        BY <1>3, <4>1
      <4>3. PICK x \in i.lo .. i.hi : p[l] = Store(l, x) /\ (Kinds[l] = "int" => x % 2 = 0)
        BY <2>2, <4>1
      <4>4. \E y \in Holds(l) : y \in i.lo .. i.hi
        BY <1>2, <2>2, <4>1
      <4>5. i.lo \in Int /\ i.hi \in Int
        <5>1. 0 \in Int
          OBVIOUS
        <5> QED
          BY <4>2, <5>1, BoundsOfALeaf
      <4>6. x \in Int
        BY <4>3, <4>5
      <4>7. b.lo <= Store(l, x) /\ Store(l, x) <= b.hi
        BY <4>2, <4>3, <4>4, <4>6, BoundsOfALeaf
      <4> QED
        BY <4>1, <4>3, <4>7
    <3> QED
      BY <1>5, <2>1, <2>2, <3>1
  <2>3. PICK E : E = D
    OBVIOUS
  <2>4. E \subseteq Point /\ (s.storable => E \subseteq s.member)
    BY <2>1, <2>2, <2>3
  <2>5. s.draws = OneOf(E)
    BY <1>2, <2>3
  <2>6. OneOf(E) \subseteq Outcomes /\ \A d \in OneOf(E) : d \subseteq E
    BY <2>4, OneOfIs
  <2>7. s.draws \subseteq Outcomes /\ (s.storable => \A d \in s.draws : d \subseteq s.member) /\ s.finite = FALSE
    <3> HIDE DEF D
    <3> QED
      BY <1>2, <2>4, <2>5, <2>6
  <2> QED
    BY <2>7 DEF Drawing, Finding
<1>9. Projecting(s)
  <2>1. SUFFICES ASSUME NEW p \in Point
                 PROVE  /\ Finding(s, s.project[p])
                        /\ s.storable /\ s.nearest /\ s.member # {} =>
                             \A d \in s.project[p] : d # {} /\ d \subseteq Nearest(s.norm, s.member, p)
    BY DEF Projecting
  <2>2. s.project[p] = {{q} : q \in landed(p)}
    BY <1>2
  <2>3. ASSUME NEW q \in Point, q \in landed(p), s.storable
        PROVE  q \in s.member /\ q \in Nearest(s.norm, s.member, p)
    <3>1. ASSUME NEW l \in Leaf
          PROVE  /\ slot(l).lo <= q[l] /\ q[l] <= slot(l).hi
                 /\ \A r \in Holds(l) : slot(l).lo <= r /\ r <= slot(l).hi => Gap(p[l], q[l]) <= Gap(p[l], r)
      <4>1. PICK b, i, x : b = slot(l) /\ i = inner(l) /\ x = p[l]
        OBVIOUS
      <4>2. Interval(b) /\ i = Rounded(l, b)
        BY <1>3, <4>1
      <4>3. x \in Int
        BY <4>1, PointsHoldNumbers
      <4>4. i.lo \in Int /\ i.hi \in Int
        BY <4>2, <4>3, BoundsOfALeaf
      <4>5. PICK y \in Holds(l) : y \in i.lo .. i.hi
        BY <1>2, <2>3, <4>1
      <4>6. Clamped(x, i) = {Clamp(x, i.lo, i.hi)}
        BY <4>4, <4>5 DEF Clamped
      <4>7. \E c \in Clamped(x, i) : q[l] = Store(l, c)
        BY <2>3, <4>1
      <4>8. PICK c : c = Clamp(x, i.lo, i.hi) /\ q[l] = Store(l, c)
        BY <4>6, <4>7
      <4>9. /\ b.lo <= Store(l, c) /\ Store(l, c) <= b.hi
            /\ \A r \in Holds(l) : b.lo <= r /\ r <= b.hi => Gap(x, Store(l, c)) <= Gap(x, r)
        <5>1. x \in Holds(l)
          BY <4>1, PointsHoldNumbers
        <5> QED
          BY <4>2, <4>3, <4>5, <4>8, <5>1, BoundsOfALeaf
      <4> QED
        BY <4>1, <4>8, <4>9
    <3>2. q \in s.member
      BY <1>5, <3>1
    <3>3. ASSUME NEW r \in s.member PROVE Distance(s.norm, p, q) <= Distance(s.norm, p, r)
      <4>1. r \in Point /\ \A l \in Leaf : slot(l).lo <= r[l] /\ r[l] <= slot(l).hi
        BY <1>5
      <4>2. \A l \in Leaf : r[l] \in Holds(l)
        BY <4>1, PointsHoldNumbers
      <4>3. \A l \in Leaf : Gap(p[l], q[l]) <= Gap(p[l], r[l])
        BY <3>1, <4>1, <4>2
      <4>4. PICK n : n = s.norm
        OBVIOUS
      <4>5. Distance(n, p, q) <= Distance(n, p, r)
        BY <4>1, <4>3, DistancesAre
      <4> QED
        BY <4>4, <4>5
    <3> QED
      BY <3>2, <3>3 DEF Nearest
  <2>4. landed(p) \subseteq Point
    OBVIOUS
  <2> HIDE DEF landed
  <2> QED
    BY <1>2, <2>2, <2>3, <2>4 DEF Finding, Outcomes
<1> QED
  BY <1>1, <1>6, <1>7, <1>8, <1>9 DEF Sound

\* Whatever a constructor is given.
LEMMA MadeIsSound ==
  ASSUME NEW d, IsBase(d)
  PROVE  Sound(Make(d))
<1>1. CASE d.kind = "constrained"
  <2>1. PICK domains, order, base, semantic, norm :
          domains = d.domains /\ order = d.order /\ base = d.base /\ semantic = d.semantic /\ norm = d.norm
    OBVIOUS
  <2>2. Make(d) = Constrained(domains, order, base, semantic, norm)
    BY <1>1, <2>1 DEF Make
  <2>3. /\ AreDomains(domains) /\ IsSearchOrder(order, DOMAIN domains)
        /\ base \in Point /\ AreInvariants(semantic)
    BY <1>1, <2>1 DEF IsBase, AreDomains
  <2> QED
    BY <2>2, <2>3, ConstrainedIsSound
<1>2. CASE d.kind = "box"
  <2>1. PICK bounds, overrides, norm : bounds = d.bounds /\ overrides = d.overrides /\ norm = d.norm
    OBVIOUS
  <2>2. Make(d) = Box(bounds, overrides, norm)
    BY <1>2, <2>1 DEF Make
  <2>3. Interval(bounds) /\ \A l \in DOMAIN overrides : Interval(overrides[l])
    BY <1>2, <2>1 DEF IsBase
  <2> QED
    BY <2>2, <2>3, BoxIsSound
<1>3. CASE d.kind = "predicate"
  <2>1. PICK semantic, structural, generator :
          semantic = d.semantic /\ structural = d.structural /\ generator = d.generator
    OBVIOUS
  <2>2. Make(d) = PredicateSpace(semantic, structural, generator)
    BY <1>3, <2>1 DEF Make
  <2>3. AreInvariants(semantic) /\ AreInvariants(structural) /\ generator \subseteq Outcomes
    BY <1>3, <2>1 DEF IsBase, Outcomes
  <2> QED
    BY <2>2, <2>3, PredicateIsSound
<1> QED
  BY <1>1, <1>2, <1>3 DEF IsBase, Kind

\* However two spaces are combined.
LEMMA CombinedIsSound ==
  ASSUME NEW how \in How, NEW a, NEW b, Sound(a), Sound(b)
  PROVE  Sound(Combined(how, a, b))
<1>1. CASE how = "union"
  BY <1>1, UnionIsSound DEF Combined
<1>2. CASE how = "intersection"
  BY <1>2, IntersectionIsSound DEF Combined
<1>3. CASE how = "difference"
  BY <1>3, DifferenceIsSound DEF Combined
<1> QED
  BY <1>1, <1>2, <1>3 DEF How

\* Spaces of up to three operands.
LEMMA BuiltIsSound ==
  ASSUME NEW n \in Names
  PROVE  Sound(Build(n))
<1>1. CASE Len(n) = 1 /\ IsBase(Base(n[1]))
  <2>1. Build(n) = Make(Base(n[1]))
    BY <1>1 DEF Build
  <2>2. PICK d : d = Base(n[1])
    OBVIOUS
  <2>3. Sound(Make(d))
    BY <1>1, <2>2, MadeIsSound
  <2> QED
    BY <2>1, <2>2, <2>3
<1>2. CASE Len(n) = 3 /\ n[1] \in How /\ IsBase(Base(n[2])) /\ IsBase(Base(n[3]))
  <2>1. PICK how, d, e : how = n[1] /\ d = Base(n[2]) /\ e = Base(n[3])
    OBVIOUS
  <2>2. PICK a, b : a = Make(d) /\ b = Make(e)
    OBVIOUS
  <2>3. how \in How /\ Sound(a) /\ Sound(b)
    BY <1>2, <2>1, <2>2, MadeIsSound
  <2>4. Build(n) = Combined(how, a, b)
    BY <1>2, <2>1, <2>2 DEF Build
  <2> QED
    BY <2>3, <2>4, CombinedIsSound
<1>3. CASE Len(n) = 5 /\ {n[1], n[3]} \subseteq How /\ IsBase(Base(n[2])) /\ IsBase(Base(n[4])) /\ IsBase(Base(n[5]))
  <2>1. PICK how, inner, d, e, f : how = n[1] /\ inner = n[3] /\ d = Base(n[2]) /\ e = Base(n[4]) /\ f = Base(n[5])
    OBVIOUS
  <2>2. PICK a, b, c : a = Make(d) /\ b = Make(e) /\ c = Make(f)
    OBVIOUS
  <2>3. how \in How /\ inner \in How /\ Sound(a) /\ Sound(b) /\ Sound(c)
    BY <1>3, <2>1, <2>2, MadeIsSound
  <2>4. PICK g : g = Combined(inner, b, c)
    OBVIOUS
  <2>5. Sound(g)
    BY <2>3, <2>4, CombinedIsSound
  <2>6. Build(n) = Combined(how, a, g)
    BY <1>3, <2>1, <2>2, <2>4 DEF Build
  <2> QED
    BY <2>3, <2>5, <2>6, CombinedIsSound
<1> QED
  BY <1>1, <1>2, <1>3, NamesAssumption
-----------------------------------------------------------------------------
(* The client.                                                             *)

\* What a call has returned is an outcome that it may have for what was given.
Returned ==
  /\ result.call \in {"none", "generate", "enumerate", "project"}
  /\ result.call = "none" => result.value = {}
  /\ result.call = "generate" => result.value \in space.draws
  /\ result.call = "enumerate" => space.finite /\ \E p \in ToSet(space.list) : result.value = {p}
  /\ result.call = "project" => given \in Point /\ result.value \in space.project[given]

ClientInv == Algebra => Sound(space) /\ Returned

\* No call has returned yet.
LEMMA ClientInitHolds == ClientInit => ClientInv
<1>1. SUFFICES ASSUME ClientInit, Algebra PROVE Sound(space) /\ Returned
  BY DEF ClientInv
<1>2. PICK n \in Names : space = Build(n)
  BY <1>1 DEF ClientInit, Algebra
<1>3. Sound(space)
  BY <1>2, BuiltIsSound
<1>4. result = [call |-> "none", value |-> {}]
  BY <1>1 DEF ClientInit
<1> QED
  BY <1>3, <1>4 DEF Returned

\* Every call returns an outcome of the space for what it is given.
LEMMA ClientStep == ClientInv /\ [ClientNext]_<<vars, clientVars>> => ClientInv'
<1>1. SUFFICES ASSUME ClientInv, [ClientNext]_<<vars, clientVars>>, Algebra' PROVE Sound(space)' /\ Returned'
  BY DEF ClientInv
<1>2. CASE UNCHANGED clientVars
  BY <1>1, <1>2 DEF clientVars, ClientInv, Algebra, Sound, Described, Listing, Drawing, Projecting, Finding, Returned, Invariant
<1>3. CASE Algebra /\ (Generate \/ Enumerate \/ ProjectValue)
  <2>1. space' = space /\ Sound(space)
    BY <1>1, <1>3 DEF Generate, Enumerate, ProjectValue, ClientInv
  <2>2. Sound(space)'
    BY <2>1 DEF Sound, Described, Listing, Drawing, Projecting, Finding, Invariant
  <2>3. CASE Generate
    <3>1. PICK d \in space.draws : result' = [call |-> "generate", value |-> d]
      BY <2>3 DEF Generate, Returns
    <3> QED
      BY <2>1, <2>2, <3>1 DEF Returned
  <2>4. CASE Enumerate
    <3>1. PICK p \in ToSet(space.list) : result' = [call |-> "enumerate", value |-> {p}] /\ space.finite
      BY <2>4 DEF Enumerate, Returns
    <3> QED
      BY <2>1, <2>2, <3>1 DEF Returned
  <2>5. CASE ProjectValue
    <3>1. PICK p \in Point : given' = p /\ \E d \in space.project[p] : result' = [call |-> "project", value |-> d]
      BY <2>5 DEF ProjectValue, Returns
    <3> QED
      BY <2>1, <2>2, <3>1 DEF Returned
  <2> QED
    BY <1>3, <2>3, <2>4, <2>5
<1> QED
  BY <1>1, <1>2, <1>3 DEF ClientNext, clientVars

(* Every space that the constructors, unions, intersections and           *)
(* differences make is sound, and a call returns what its methods may.     *)
THEOREM ClientsAreServed == ClientSpec => []ClientInv
<1>1. ClientInit => ClientInv
  BY ClientInitHolds
<1>2. ClientInv /\ [ClientNext]_<<vars, clientVars>> => ClientInv'
  BY ClientStep
<1> QED
  BY <1>1, <1>2, PTL DEF ClientSpec

\* A listing without repetition is as long as there are members.
LEMMA SoundSpacesAgree == ClientInv => SpacesAgree
<1>1. SUFFICES ASSUME Sound(space) PROVE
        /\ space.member = Invariant(space)
        /\ space.finite /\ space.storable =>
             ToSet(space.list) = space.member /\ Len(space.list) = Cardinality(space.member)
  BY DEF ClientInv, SpacesAgree
<1>2. PICK list : list = space.list
  OBVIOUS
<1>3. list \in Seq(Point) /\ (Distinct(list) => Len(list) = Cardinality(ToSet(list)))
  BY <1>1, <1>2, LengthIsSize DEF Sound, Listing
<1> QED
  BY <1>1, <1>2, <1>3 DEF Sound, Described, Listing

\* Outcomes are members.
LEMMA SoundResultsAreMembers == ClientInv => ResultsAreMembers
<1>1. SUFFICES ASSUME Sound(space), Returned PROVE
        /\ space.storable => result.value \subseteq space.member
        /\ result.call \in {"generate", "project"} /\ result.value = {} /\ space.finite => space.list = <<>>
  BY DEF ClientInv, ResultsAreMembers
<1>2. CASE result.call = "none"
  BY <1>1, <1>2 DEF Returned
<1>3. CASE result.call = "generate"
  BY <1>1, <1>3 DEF Returned, Sound, Drawing, Finding
<1>4. CASE result.call = "enumerate"
  BY <1>1, <1>4 DEF Returned, Sound, Listing
<1>5. CASE result.call = "project"
  BY <1>1, <1>5 DEF Returned, Sound, Projecting, Finding
<1> QED
  BY <1>1, <1>2, <1>3, <1>4, <1>5 DEF Returned

\* Projections are nearest.
LEMMA SoundProjectionIsNearest == ClientInv => ProjectionIsNearest
BY DEF ClientInv, ProjectionIsNearest, Returned, Sound, Projecting

(* Members are what the reported invariants say, and the listing of a      *)
(* finite space has each of its members once and nothing else, whatever    *)
(* domains, bounds and invariants its operands are given, if leaves can    *)
(* hold their domain values.                                               *)
THEOREM SpacesStayInAgreement == ClientSpec => []SpacesAgree
<1>1. ClientInv => SpacesAgree
  BY SoundSpacesAgree
<1> QED
  BY <1>1, ClientsAreServed, PTL

(* What generate, enumerate and project return is in the space, and        *)
(* neither generate nor project fails on a finite space with a listing.    *)
THEOREM ResultsStayMembers == ClientSpec => []ResultsAreMembers
<1>1. ClientInv => ResultsAreMembers
  BY SoundResultsAreMembers
<1> QED
  BY <1>1, ClientsAreServed, PTL

(* In every norm, projection finds a nearest member of a box, of a finite  *)
(* space, or of a union of such with one norm.                             *)
THEOREM ProjectionsStayNearest == ClientSpec => []ProjectionIsNearest
<1>1. ClientInv => ProjectionIsNearest
  BY SoundProjectionIsNearest
<1> QED
  BY <1>1, ClientsAreServed, PTL

-----------------------------------------------------------------------------
(* Clients that walk.                                                       *)

\* A leaf moves to the next value of its domain, and back.
LEMMA NextAfter ==
  ASSUME NEW D, D \subseteq Int, NEW a \in D, NEW b \in D, b < a, \A y \in D : y < a => y <= b
  PROVE  Min({y \in D : y > b}) = a
<1>1. PICK S : S = {y \in D : y > b}
  OBVIOUS
<1>2. a \in S /\ \A y \in S : a <= y /\ y \in Int
  BY <1>1
<1>3. \A x \in S : (\A y \in S : x <= y) => x = a
  BY <1>2
<1> QED
  BY <1>1, <1>2, <1>3 DEF Min

\* And the other way.
LEMMA NextBefore ==
  ASSUME NEW D, D \subseteq Int, NEW a \in D, NEW b \in D, b > a, \A y \in D : y > a => y >= b
  PROVE  Max({y \in D : y < b}) = a
<1>1. PICK S : S = {y \in D : y < b}
  OBVIOUS
<1>2. a \in S /\ \A y \in S : a >= y /\ y \in Int
  BY <1>1
<1>3. \A x \in S : (\A y \in S : x >= y) => x = a
  BY <1>2
<1> QED
  BY <1>1, <1>2, <1>3 DEF Max

\* The greatest and the least of some of the values of a leaf.
LEMMA ExtremesOfHalf ==
  ASSUME NEW S, S \subseteq Half, S # {}
  PROVE  /\ Max(S) \in S /\ \A y \in S : y <= Max(S)
         /\ Min(S) \in S /\ \A y \in S : Min(S) <= y
<1>1. S \subseteq Int /\ \A y \in S : Lowest <= y /\ y <= Highest
  BY LeavesAssumption DEF Half
<1> DEFINE T == {y - Lowest : y \in S}
<1>2. T \subseteq Nat /\ T # {} /\ Highest - Lowest \in Nat /\ \A x \in T : x <= Highest - Lowest
  <2>1. PICK b : b = Highest - Lowest
    OBVIOUS
  <2>2. b \in Nat /\ \A y \in S : y - Lowest \in Nat /\ y - Lowest <= b
    BY <1>1, <2>1, LeavesAssumption
  <2> QED
    BY <2>1, <2>2
<1>3. (\E x \in T : \A y \in T : x >= y) /\ (\E x \in T : \A y \in T : x <= y)
  <2>1. PICK b : b = Highest - Lowest
    OBVIOUS
  <2> HIDE DEF T
  <2> QED
    BY <1>2, <2>1, GreatestNumber, LeastNumber
<1>4. \E x \in S : \A y \in S : x >= y
  <2>1. PICK x \in S : \A z \in T : x - Lowest >= z
    BY <1>3
  <2>2. \A y \in S : x - Lowest >= y - Lowest
    BY <2>1
  <2>3. \A y \in S : x >= y
    BY <1>1, <2>2, LeavesAssumption
  <2> QED
    BY <2>3
<1>5. \E x \in S : \A y \in S : x <= y
  <2>1. PICK x \in S : \A z \in T : x - Lowest <= z
    BY <1>3
  <2>2. \A y \in S : x - Lowest <= y - Lowest
    BY <2>1
  <2>3. \A y \in S : x <= y
    BY <1>1, <2>2, LeavesAssumption
  <2> QED
    BY <2>3
<1>6. Max(S) \in S /\ \A y \in S : Max(S) >= y
  BY <1>4 DEF Max
<1>7. Min(S) \in S /\ \A y \in S : Min(S) <= y
  BY <1>5 DEF Min
<1>8. PICK m : m = Max(S)
  OBVIOUS
<1>9. \A y \in S : y <= m
  BY <1>1, <1>6, <1>8
<1> QED
  BY <1>6, <1>7, <1>8, <1>9

\* The values beside the one that a point has for a leaf, and the points that have them.
Below(s, p, l)  == {x \in s.domains[l] : x < p[l]}
Above(s, p, l)  == {x \in s.domains[l] : x > p[l]}
Beside(s, p, l) ==
  (IF Below(s, p, l) = {} THEN {} ELSE {Max(Below(s, p, l))}) \cup (IF Above(s, p, l) = {} THEN {} ELSE {Min(Above(s, p, l))})
Moves(s, p, l) ==
  IF p[l] \in s.domains[l] THEN {[p EXCEPT ![l] = Store(l, x)] : x \in Beside(s, p, l)} ELSE {}

\* A neighbour differs in one leaf, by one step in its domain, and so do the two in turn.
LEMMA NeighborsAreMutual ==
  ASSUME NEW s, \A l \in DOMAIN s.domains : s.domains[l] \subseteq Holds(l), DOMAIN s.domains \subseteq Leaf,
         s.member \subseteq Point,
         \A p \in s.member : \A l \in DOMAIN s.domains : p[l] \in s.domains[l],
         NEW v \in s.member, NEW w \in Neighbors(s, v)
  PROVE  v \in Neighbors(s, w)
<1>1. \A p : Neighbors(s, p) = (UNION {Moves(s, p, l) : l \in DOMAIN s.domains}) \cap s.member
  BY DEF Neighbors, Moves, Beside, Below, Above
<1>2. PICK l \in DOMAIN s.domains : w \in Moves(s, v, l) /\ w \in s.member
  <2>1. w \in UNION {Moves(s, v, m) : m \in DOMAIN s.domains} /\ w \in s.member
    BY <1>1
  <2> QED
    BY <2>1
<1>3. PICK D : D = s.domains[l]
  OBVIOUS
<1>4. l \in Leaf /\ D \subseteq Holds(l) /\ D \subseteq Half /\ D \subseteq Int /\ v[l] \in D /\ w[l] \in D
  BY <1>2, <1>3, LeavesAssumption DEF Holds, Half
<1>5. PICK x \in Beside(s, v, l) : w = [v EXCEPT ![l] = Store(l, x)]
  BY <1>2 DEF Moves
<1>6. PICK a : a = v[l]
  OBVIOUS
<1>7. Below(s, v, l) = {y \in D : y < a} /\ Above(s, v, l) = {y \in D : y > a}
  BY <1>3, <1>6 DEF Below, Above
<1>8. \/ x < a /\ x \in D /\ \A y \in D : y < a => y <= x
      \/ x > a /\ x \in D /\ \A y \in D : y > a => y >= x
  <2>1. CASE Below(s, v, l) # {} /\ x = Max(Below(s, v, l))
    <3>1. PICK S : S = {y \in D : y < a}
      OBVIOUS
    <3>2. S \subseteq Half /\ S # {} /\ x = Max(S)
      BY <1>4, <1>7, <2>1, <3>1
    <3>3. x \in S /\ \A y \in S : y <= x
      BY <3>2, ExtremesOfHalf
    <3> QED
      BY <3>1, <3>3
  <2>2. CASE Above(s, v, l) # {} /\ x = Min(Above(s, v, l))
    <3>1. PICK S : S = {y \in D : y > a}
      OBVIOUS
    <3>2. S \subseteq Half /\ S # {} /\ x = Min(S)
      BY <1>4, <1>7, <2>2, <3>1
    <3>3. x \in S /\ \A y \in S : x <= y
      BY <3>2, ExtremesOfHalf
    <3>4. \A y \in S : y \in Int /\ x \in Int /\ y >= x
      BY <1>4, <3>1, <3>3
    <3> QED
      BY <3>1, <3>3, <3>4
  <2>3. (Below(s, v, l) # {} /\ x = Max(Below(s, v, l))) \/ (Above(s, v, l) # {} /\ x = Min(Above(s, v, l)))
    BY <1>5 DEF Beside
  <2> QED
    BY <2>1, <2>2, <2>3
<1>9. v \in [Leaf -> Half]
  BY PointsHoldNumbers
<1>10. Store(l, x) = x /\ Store(l, a) = a
  <2>1. x \in D /\ a \in D
    BY <1>4, <1>6, <1>8
  <2> QED
    BY <1>4, <2>1, StoreIs
<1>11. w = [v EXCEPT ![l] = x] /\ w[l] = x
  BY <1>4, <1>5, <1>9, <1>10
<1>12. v = [w EXCEPT ![l] = a]
  BY <1>4, <1>6, <1>9, <1>11
<1>13. Below(s, w, l) = {y \in D : y < x} /\ Above(s, w, l) = {y \in D : y > x}
  BY <1>3, <1>11 DEF Below, Above
<1>14. a \in Beside(s, w, l)
  <2>1. a \in D /\ x \in D /\ a \in Int /\ x \in Int
    BY <1>4, <1>6, <1>8
  <2>5. ~(x < a /\ x > a)
    BY <2>1
  <2>2. CASE x < a
    <3>1. Min({y \in D : y > x}) = a
      <4>1. \A y \in D : y < a => y <= x
        BY <1>8, <2>2, <2>5
      <4> QED
        BY <1>4, <2>1, <2>2, <4>1, NextAfter
    <3>2. Above(s, w, l) # {}
      BY <1>13, <2>1, <2>2
    <3> QED
      BY <1>13, <3>1, <3>2 DEF Beside
  <2>3. CASE x > a
    <3>1. Max({y \in D : y < x}) = a
      <4>1. \A y \in D : y > a => y >= x
        BY <1>8, <2>3, <2>5
      <4> QED
        BY <1>4, <2>1, <2>3, <4>1, NextBefore
    <3>2. Below(s, w, l) # {}
      BY <1>13, <2>1, <2>3
    <3> QED
      BY <1>13, <3>1, <3>2 DEF Beside
  <2> QED
    BY <1>8, <2>2, <2>3
<1>15. v \in Moves(s, w, l)
  BY <1>3, <1>4, <1>10, <1>12, <1>14 DEF Moves
<1>16. v \in UNION {Moves(s, w, m) : m \in DOMAIN s.domains}
  BY <1>2, <1>15
<1> QED
  BY <1>1, <1>16

\* A space that a client walks over, all of whose domain values its leaves can hold.
IsStorable(g) ==
  \E d : /\ IsBase(d) /\ d.kind = "constrained" /\ Make(d).storable
         /\ g.members = Make(d).member
         /\ g.adjacent = [v \in Make(d).member |-> Neighbors(Make(d), v)]
         /\ g.listing = Make(d).list

\* What the walk theorems ask of a space that has been counted.
LEMMA StorableIsMutual ==
  ASSUME NEW g, IsStorable(g)
  PROVE  Mutual(g)
<1>1. PICK d : /\ IsBase(d) /\ d.kind = "constrained" /\ Make(d).storable
               /\ g.members = Make(d).member
               /\ g.adjacent = [v \in Make(d).member |-> Neighbors(Make(d), v)]
  BY DEF IsStorable
<1>2. PICK s, domains, order, base, semantic, norm :
        /\ s = Make(d) /\ domains = d.domains /\ order = d.order
        /\ base = d.base /\ semantic = d.semantic /\ norm = d.norm
  OBVIOUS
<1>3. s = Constrained(domains, order, base, semantic, norm)
  BY <1>1, <1>2 DEF Make
<1>4. AreDomains(domains) /\ AreInvariants(semantic)
  BY <1>1, <1>2 DEF IsBase, AreDomains
<1>5. /\ s.domains = domains /\ s.member = All(Structural(domains, base) \o semantic)
      /\ s.storable = (\A l \in DOMAIN domains : domains[l] \subseteq Holds(l))
  BY <1>3 DEF Constrained
<1>6. s.member \subseteq Spanned(domains, base)
  <2>1. PICK structural : structural = Structural(domains, base)
    OBVIOUS
  <2>2. AreInvariants(structural) /\ All(structural) = Spanned(domains, base)
    BY <1>4, <2>1, StructuralIs
  <2>3. All(structural \o semantic) = All(structural) \cap All(semantic)
    BY <1>4, <2>2, AllIs
  <2> QED
    BY <1>5, <2>1, <2>2, <2>3
<1>7. /\ \A l \in DOMAIN s.domains : s.domains[l] \subseteq Holds(l)
      /\ DOMAIN s.domains \subseteq Leaf
      /\ s.member \subseteq Point
      /\ \A p \in s.member : \A l \in DOMAIN s.domains : p[l] \in s.domains[l]
  BY <1>1, <1>2, <1>4, <1>5, <1>6 DEF Spanned, AreDomains
<1>8. ASSUME NEW v \in s.member, NEW w \in s.member, w \in Neighbors(s, v) PROVE v \in Neighbors(s, w)
  BY <1>7, <1>8, NeighborsAreMutual
<1>9. g.members = s.member /\ \A v \in s.member : g.adjacent[v] = Neighbors(s, v)
  BY <1>1, <1>2
<1> QED
  BY <1>8, <1>9 DEF Mutual

\* A client that uses a space is never taken for one that walks.
LEMMA BuiltIsASpace ==
  ASSUME NEW n \in Names
  PROVE  Build(n) # <<>>
<1>10. \A s : "list" \in DOMAIN s => s # <<>>
  <2>1. DOMAIN <<>> = {}
    OBVIOUS
  <2> QED
    BY <2>1
<1>1. \A x, y, z, w, n_ : Constrained(x, y, z, w, n_) # <<>>
  <2>1. \A x, y, z, w, n_ : "list" \in DOMAIN Constrained(x, y, z, w, n_)
    BY DEF Constrained
  <2> QED
    BY <1>10, <2>1
<1>2. \A x, y, z : Box(x, y, z) # <<>> /\ PredicateSpace(x, y, z) # <<>>
  <2>1. \A x, y, z : "list" \in DOMAIN Box(x, y, z)
    BY DEF Box
  <2>2. \A x, y, z : "list" \in DOMAIN PredicateSpace(x, y, z)
    BY DEF PredicateSpace
  <2> QED
    BY <1>10, <2>1, <2>2
<1>3. \A d : IsBase(d) => Make(d) # <<>>
  BY <1>1, <1>2 DEF Make, IsBase, Kind
<1>4. \A a, b : Union(a, b) # <<>>
  <2>1. \A a, b : "list" \in DOMAIN Union(a, b)
    BY DEF Union
  <2> QED
    BY <1>10, <2>1
<1>5. \A a, b : Intersection(a, b) # <<>>
  <2>1. \A a, b : "list" \in DOMAIN Intersection(a, b)
    BY DEF Intersection
  <2> QED
    BY <1>10, <2>1
<1>6. \A a, b : Difference(a, b) # <<>>
  BY DEF Difference
<1>7. \A how \in How : \A a, b : Combined(how, a, b) # <<>>
  BY <1>4, <1>5, <1>6 DEF Combined, How
<1> QED
  BY <1>3, <1>7, NamesAssumption DEF Build

\* The client of a space walks nowhere.
ClientWalkInv == IF Algebra THEN op = "idle" ELSE CountInv

\* A walk has not begun.
LEMMA ClientWalkInit == ClientInit => ClientWalkInv
<1>1. SUFFICES ASSUME ClientInit PROVE ClientWalkInv
  OBVIOUS
<1>2. CASE space = <<>> /\ \E g \in Graphs : Start(g, Origin)
  <2>1. PICK g \in Graphs : Start(g, Origin)
    BY <1>2
  <2>2. graph \in Graphs /\ limit = 0 /\ queue = <<>> /\ seen = {} /\ out = <<>> /\ op = "idle" /\ todo = <<>>
    BY <2>1 DEF Start
  <2>3. WalkInv
    BY <2>2, NothingSeen, EmptySeq DEF WalkInv
  <2> QED
    BY <1>2, <2>2, <2>3 DEF ClientWalkInv, Algebra, CountInv, CountingInv
<1>3. CASE Start(Nowhere, Origin) /\ \E n \in Names : space = Build(n)
  BY <1>3, BuiltIsASpace DEF ClientWalkInv, Algebra, Start
<1> QED
  BY <1>1, <1>2, <1>3 DEF ClientInit

\* Only a client that walks takes the steps of a walk.
LEMMA ClientWalkStep == ClientWalkInv /\ [ClientNext]_<<vars, clientVars>> => ClientWalkInv'
<1>1. SUFFICES ASSUME ClientWalkInv, [ClientNext]_<<vars, clientVars>> PROVE ClientWalkInv'
  OBVIOUS
<1>2. CASE Algebra /\ UNCHANGED vars
  BY <1>1, <1>2 DEF ClientWalkInv, ClientNext, Generate, Enumerate, ProjectValue, Algebra, vars, clientVars
<1>3. CASE ~Algebra
  <2>1. [Next]_vars /\ space' = space
    BY <1>1, <1>3 DEF ClientNext, clientVars
  <2>2. CountInv'
    BY <1>1, <1>3, <2>1, CountStep DEF ClientWalkInv
  <2> QED
    BY <1>3, <2>1, <2>2 DEF ClientWalkInv, Algebra
<1> QED
  BY <1>1, <1>2, <1>3 DEF ClientNext

\* The invariant of the walk holds for its clients.
LEMMA ClientsWalk == ClientSpec => []ClientWalkInv
<1> QED
  BY ClientWalkInit, ClientWalkStep, PTL DEF ClientSpec

(* The client of reachable finds the closure of its start.                 *)
THEOREM ClientWalksAreClosures == ClientSpec => []ReachableIsClosure
<1>1. ClientWalkInv => ReachableIsClosure
  <2>1. op = "idle" => ReachableIsClosure
    BY DEF ReachableIsClosure
  <2>2. CountInv => ReachableIsClosure
    BY WalkFinds DEF CountInv
  <2> QED
    BY <2>1, <2>2 DEF ClientWalkInv
<1> QED
  BY <1>1, ClientsWalk, PTL

\* Such a space lists every member, and no value twice.
LEMMA StorableListsAll ==
  ASSUME NEW g, IsStorable(g), IsFiniteSet(g.members)
  PROVE  ToSet(g.listing) = g.members /\ Len(g.listing) = Cardinality(g.members) /\ g.listing \in Seq(g.members)
<1>1. PICK d : /\ IsBase(d) /\ d.kind = "constrained" /\ Make(d).storable
               /\ g.members = Make(d).member /\ g.listing = Make(d).list
  BY DEF IsStorable
<1>2. PICK s : s = Make(d)
  OBVIOUS
<1>3. Sound(s) /\ s.finite
  BY <1>1, <1>2, MadeIsSound DEF Make, Constrained
<1>4. s.list \in Seq(Point) /\ ToSet(s.list) = s.member /\ Distinct(s.list)
  BY <1>1, <1>2, <1>3 DEF Sound, Listing
<1>5. Len(s.list) = Cardinality(ToSet(s.list))
  BY <1>4, LengthIsSize
<1>6. s.list \in Seq(s.member)
  BY <1>4 DEF ToSet
<1> QED
  BY <1>1, <1>2, <1>4, <1>5, <1>6

\* The count that connected_components promises, if the limit is not below the number of members.
AllAreCounted ==
  op = "counted" /\ Cardinality(Members) <= limit =>
    components = Cardinality({ComponentOf(graph, v) : v \in Members})

\* It keeps the promise for these spaces.
LEMMA StorableIsCounted ==
  ASSUME CountInv, IsStorable(graph)
  PROVE  AllAreCounted
<1>1. SUFFICES ASSUME op = "counted", Cardinality(Members) <= limit
               PROVE  components = Cardinality({ComponentOf(graph, v) : v \in Members})
  BY DEF AllAreCounted
<1>2. graph \in Graphs /\ limit \in Nat /\ components \in Nat
  BY <1>1 DEF CountInv, CountingInv, NumberInv, WalkInv
<1>3. IsFiniteSet(Members)
  BY <1>2, WalkAssumption DEF Members
<1>4. /\ ToSet(graph.listing) = Members /\ Len(graph.listing) = Cardinality(Members)
      /\ graph.listing \in Seq(Members)
  BY <1>3, StorableListsAll DEF Members
<1>5. SetOf(Listed(limit)) = Members
  <2>1. PICK s : s = graph.listing
    OBVIOUS
  <2>2. Len(s) <= limit /\ s \in Seq(Members)
    BY <1>1, <1>4, <2>1
  <2>3. Listed(limit) = SubSeq(s, 1, Len(s))
    BY <1>2, <2>1, <2>2 DEF Listed
  <2>4. SubSeq(s, 1, Len(s)) = s
    BY <2>2
  <2> QED
    BY <1>4, <2>1, <2>3, <2>4 DEF SetOf, ToSet
<1>6. PICK n : n = Cardinality({ComponentOf(graph, v) : v \in Members})
  OBVIOUS
<1>7. ComponentsAreExact /\ Mutual(graph)
  BY CountIsExact, StorableIsMutual
<1>8. n <= components /\ components <= n
  BY <1>1, <1>5, <1>6, <1>7 DEF ComponentsAreExact
<1>9. n \in Nat
  <2>1. PICK g, S : g = graph /\ S = Members
    OBVIOUS
  <2>2. n = Cardinality(Comps(g, S))
    BY <1>6, <2>1 DEF Comps
  <2>3. CASE S = {}
    <3>1. Comps(g, S) = {}
      BY <2>3 DEF Comps
    <3> QED
      BY <2>2, <3>1, FS_EmptySet
  <2>4. CASE S # {}
    <3>1. PICK m \in S : TRUE
      BY <2>4
    <3> QED
      BY <1>2, <2>1, <2>2, <3>1, CompsOfMore DEF Members
  <2> QED
    BY <2>3, <2>4
<1> QED
  BY <1>2, <1>6, <1>8, <1>9

(* The client of connected_components finds the number of components of a  *)
(* space that lists its values and has neighbours as ConstrainedSpace      *)
(* defines both, if leaves can hold its domain values and the limit is not *)
(* below their number: then neighbours are mutual, each member is listed   *)
(* once and no walk is cut short.                                          *)
THEOREM ClientCountsAreExact ==
  ClientSpec => [](ComponentsAreExact /\ (IsStorable(graph) => AllAreCounted))
<1>1. ClientWalkInv => ComponentsAreExact /\ (IsStorable(graph) => AllAreCounted)
  <2>1. op = "idle" => ComponentsAreExact /\ AllAreCounted
    BY DEF ComponentsAreExact, AllAreCounted
  <2>2. CountInv => ComponentsAreExact /\ (IsStorable(graph) => AllAreCounted)
    BY CountIsExact, StorableIsCounted
  <2> QED
    BY <2>1, <2>2 DEF ClientWalkInv
<1> QED
  BY <1>1, ClientsWalk, PTL
=============================================================================
