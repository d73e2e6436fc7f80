--------------------------------- MODULE Walk ---------------------------------
(***************************************************************************)
(* Reachability in a space whose values have neighbours, and its           *)
(* connected components (ConstrainedSpace.cpp: reachable and               *)
(* connected_components), one turn of a loop at a time.  A client calls    *)
(* either, with a limit.                                                   *)
(***************************************************************************)
EXTENDS Integers, Sequences, FiniteSets

CONSTANTS
  Values,      \* values a client may start from
  Graphs,      \* spaces: their members, the neighbours of each, and what enumerate lists
  Limits       \* limits a client may give

ASSUME WalkAssumption ==
  /\ Limits \subseteq Nat
  /\ \A g \in Graphs :
       /\ g.members \subseteq Values /\ IsFiniteSet(g.members)
       /\ \A v \in g.members : g.adjacent[v] \subseteq g.members
       /\ g.listing \in Seq(g.members)

VARIABLES
  graph,        \* the space
  op,           \* "idle", "reachable", "components"; "reached" and "counted" when they have returned
  from,         \* where the walk starts
  limit,
  queue,        \* values to expand
  seen,         \* values that were ever in the queue
  out,          \* values expanded, in order
  todo,         \* members listed that connected_components has not looked at
  visited,      \* values in the components counted
  components

walkVars == <<queue, seen, out>>
vars == <<graph, op, from, limit, walkVars, todo, visited, components>>

Members     == graph.members
Adjacent(v) == graph.adjacent[v]

SetOf(seq) == {seq[i] : i \in DOMAIN seq}

Start(g, v) ==
  /\ graph = g /\ op = "idle" /\ from = v /\ limit = 0
  /\ queue = <<>> /\ seen = {} /\ out = <<>>
  /\ todo = <<>> /\ visited = {} /\ components = 0

Init == \E g \in Graphs, v \in Values : Start(g, v)

\* The walk from v, of at most n values.
Begin(v, n) ==
  /\ from' = v /\ limit' = n
  /\ out' = <<>>
  /\ IF v \in Members /\ n > 0 THEN queue' = <<v>> /\ seen' = {v}
     ELSE queue' = <<>> /\ seen' = {}

Idle == op = "idle"

Reachable(v, n) ==
  /\ Idle
  /\ op' = "reachable"
  /\ Begin(v, n)
  /\ UNCHANGED <<graph, todo, visited, components>>

\* Mutant: the limit is tested one value too late.
WalkingOn == queue # <<>> /\ Len(out) <= limit

Walking == queue # <<>> /\ Len(out) < limit

\* Neighbours seen for the first time join the queue, in the order in which they are found.
Expand ==
  /\ op \in {"reachable", "components"} /\ Walking
  /\ LET cur   == Head(queue)
         fresh == Adjacent(cur) \ seen
     IN /\ \E order \in [1 .. Cardinality(fresh) -> fresh] :
             SetOf(order) = fresh /\ queue' = Tail(queue) \o order
        /\ seen' = seen \cup fresh
        /\ out' = Append(out, cur)
  /\ UNCHANGED <<graph, op, from, limit, todo, visited, components>>

Return ==
  /\ op = "reachable" /\ ~Walking
  /\ op' = "reached"
  /\ UNCHANGED <<graph, from, limit, walkVars, todo, visited, components>>

\* The first n members that enumerate lists.
Listed(n) == SubSeq(graph.listing, 1, IF n < Len(graph.listing) THEN n ELSE Len(graph.listing))

\* connected_components lists at most n members and walks at most n values from each.
Components(n) ==
  /\ Idle
  /\ op' = "components"
  /\ limit' = n
  /\ queue' = <<>> /\ seen' = {} /\ out' = <<>>
  /\ todo' = Listed(n)
  /\ visited' = {} /\ components' = 0
  /\ UNCHANGED <<graph, from>>

\* What the walk in progress has reached counts as visited.
Reached == visited \cup SetOf(out)

\* Mutant: a component is left as soon as one member is expanded.
NewComponentHasty(m) == m \notin visited \cup {from}

NewComponent(m) == m \notin Reached

NextMember ==
  /\ op = "components" /\ ~Walking /\ todo # <<>>
  /\ visited' = Reached
  /\ todo' = Tail(todo)
  /\ IF NewComponent(Head(todo))
     THEN components' = components + 1 /\ Begin(Head(todo), limit)
     ELSE /\ queue' = <<>> /\ seen' = {} /\ out' = <<>>
          /\ UNCHANGED <<from, limit, components>>
  /\ UNCHANGED <<graph, op>>

Count ==
  /\ op = "components" /\ ~Walking /\ todo = <<>>
  /\ op' = "counted"
  /\ UNCHANGED <<graph, from, limit, walkVars, todo, visited, components>>

Next ==
  \/ \E v \in Values, n \in Limits : Reachable(v, n)
  \/ Expand
  \/ Return
  \/ \E n \in Limits : Components(n)
  \/ NextMember
  \/ Count

Spec == Init /\ [][Next]_vars
-----------------------------------------------------------------------------
(* Properties.                                                             *)

IsClosed(S) == \A v \in S : Adjacent(v) \subseteq S

\* S holds everything that can be reached from v.
Covers(S, v) == v \in S /\ IsClosed(S)

(* What reachable returns lies in every closed set that holds its start,   *)
(* without repetition and within the limit; if the limit did not cut it    *)
(* short it is such a set itself, so it is the least one.                  *)
ReachableIsClosure ==
  op = "reached" =>
    /\ Len(out) <= limit
    /\ \A i, j \in DOMAIN out : out[i] = out[j] => i = j
    /\ \A S \in SUBSET Members : Covers(S, from) => SetOf(out) \subseteq S
    /\ Len(out) < limit /\ from \in Members => Covers(SetOf(out), from)

\* The component of a member: what it reaches in as many steps as there are members.
ComponentOf(g, v) ==
  LET within[n \in 0 .. Cardinality(g.members)] ==
        IF n = 0 THEN {v} ELSE within[n - 1] \cup UNION {g.adjacent[u] : u \in within[n - 1]}
  IN within[Cardinality(g.members)]

\* Are neighbours always neighbours of each other?
Mutual(g) == \A v, w \in g.members : w \in g.adjacent[v] => v \in g.adjacent[w]

(* No member listed counts twice, and with a limit that the members do not *)
(* exceed no component does.  If neighbours are mutual, every component of *)
(* a member listed is counted, wherever the limit cuts walks short; if     *)
(* not, the count depends on the order of the listing: a member that an    *)
(* earlier one reaches is not counted.                                     *)
ComponentsAreExact ==
  op = "counted" =>
    LET listed == SetOf(Listed(limit))
        exact  == Cardinality({ComponentOf(graph, v) : v \in listed})
    IN /\ components <= Cardinality(listed)
       /\ Mutual(graph) => exact <= components
       /\ Cardinality(Members) <= limit => components <= exact
=============================================================================
