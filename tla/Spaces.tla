-------------------------------- MODULE Spaces --------------------------------
(***************************************************************************)
(* Spaces of values (Space.cpp, ConstrainedSpace.cpp) and their algebra.   *)
(* A value gives each leaf a number, in halves; a leaf that holds integers *)
(* truncates and saturates what is stored in it.  A space is a record of   *)
(* what its methods return: a result that depends on random draws is a set *)
(* of outcomes, an outcome is a set of at most one value.                  *)
(***************************************************************************)
EXTENDS Integers, SequencesExt

CONSTANTS
  Kinds,             \* what each leaf holds: "int" or "float"
  Lowest, Highest    \* range of a leaf

ASSUME LeavesAssumption ==
  /\ IsFiniteSet(DOMAIN Kinds) /\ \A l \in DOMAIN Kinds : Kinds[l] \in {"int", "float"}
  /\ Lowest \in Int /\ Highest \in Int /\ Lowest <= 0 /\ 0 <= Highest /\ Lowest % 2 = 0 /\ Highest % 2 = 0

Leaf  == DOMAIN Kinds
Half  == Lowest .. Highest
Holds(l) == {x \in Half : Kinds[l] = "int" => x % 2 = 0}
Point == {p \in [Leaf -> Half] : \A l \in Leaf : p[l] \in Holds(l)}

Clamp(x, lo, hi) == IF x < lo THEN lo ELSE IF hi < x THEN hi ELSE x
Ceil(x)  == x + (x % 2)
Floor(x) == x - (x % 2)

\* A number as the leaf keeps it.
Store(l, x) ==
  LET truncated == IF Kinds[l] = "float" THEN x ELSE IF x >= 0 THEN Floor(x) ELSE Ceil(x)
  IN Clamp(truncated, Lowest, Highest)
-----------------------------------------------------------------------------
(* Metrics.  The root of the L2 norm keeps the order of distances.         *)

Norm == {"L1", "L2", "LInf", "Hamming"}
Gap(x, y) == IF x < y THEN y - x ELSE x - y

Total(f) == FoldSet(LAMBDA x, acc : acc + f[x], 0, DOMAIN f)

Distance(norm, p, q) ==
  LET term == [l \in Leaf |-> CASE norm = "L2" -> Gap(p[l], q[l]) * Gap(p[l], q[l])
                                [] norm = "Hamming" -> IF p[l] = q[l] THEN 0 ELSE 1
                                [] OTHER -> Gap(p[l], q[l])]
  IN IF norm = "LInf" THEN Max({0} \cup Range(term)) ELSE Total(term)

\* Members of S at the least distance of p.
Nearest(norm, S, p) == {q \in S : \A r \in S : Distance(norm, p, q) <= Distance(norm, p, r)}

\* S in an order that matters to nothing.
Ordered(S) == FoldSet(LAMBDA x, acc : Append(acc, x), <<>>, S)

\* The values of a sequence that are in S, in their order.
Those(seq, S) ==
  LET kept[i \in 0 .. Len(seq)] ==
        IF i = 0 THEN <<>> ELSE IF seq[i] \in S THEN Append(kept[i - 1], seq[i]) ELSE kept[i - 1]
  IN kept[Len(seq)]

\* The outcomes of taking one of S.
OneOf(S) == IF S = {} THEN {{}} ELSE {{q} : q \in S}

All(invariants) == {p \in Point : \A i \in DOMAIN invariants : p \in invariants[i]}

\* Domain::range, of a positive step.
DomainRange(lo, hi, step) == {lo + i * step : i \in 0 .. (hi - lo) \div step}

\* Mutant: any draw will do.
ProjectDrawn(member, finite, list, norm, draws) == [p \in Point |-> IF p \in member THEN {{p}} ELSE draws]

\* Space::project: the nearest value listed, or drawn.
Project(member, finite, list, norm, draws) ==
  [p \in Point |-> CASE p \in member -> {{p}}
                     [] p \notin member /\ finite -> OneOf(Nearest(norm, ToSet(list), p))
                     [] OTHER -> draws]
-----------------------------------------------------------------------------
(* Constrained spaces.                                                     *)

\* A synthesizer sorts its decision leaves.
IsSearchOrder(order, leaves) ==
  order \in Seq(leaves) /\ ToSet(order) = leaves /\ Len(order) = Cardinality(leaves)

\* A depth-first search over the leaves in this order, each from its least value up, comes to
\* a before b.
Before(order, a, b) ==
  \E i \in DOMAIN order : a[order[i]] < b[order[i]] /\ \A j \in 1 .. i - 1 : a[order[j]] = b[order[j]]

\* The assignments of S, as the search comes to them.
Ascending(order, S) ==
  LET rank == [a \in S |-> Cardinality({b \in S : Before(order, b, a)})]
  IN [i \in 1 .. Cardinality(S) |-> CHOOSE a \in S : rank[a] = i - 1]

\* What a synthesizer that orders its leaves so finds: assignments of domain values, stored,
\* that satisfy the semantic invariants.
Solutions(domains, order, base, semantic) ==
  LET stored(a) == [l \in Leaf |-> IF l \in DOMAIN domains THEN Store(l, a[l]) ELSE base[l]]
      assignments == {a \in [DOMAIN domains -> UNION Range(domains)] : \A l \in DOMAIN a : a[l] \in domains[l]}
      found == Ascending(order, assignments)
  IN Those([i \in DOMAIN found |-> stored(found[i])], All(semantic))

Structural(domains, base) ==
  Ordered({{p \in Point : p[l] \in domains[l]} : l \in DOMAIN domains})
    \o <<{p \in Point : \A l \in Leaf \ DOMAIN domains : p[l] = base[l]}>>

\* ConstrainedSpace: the decision leaves have domains, the others keep their base value.
Constrained(domains, order, base, semantic, norm) ==
  LET structural == Structural(domains, base)
      member     == All(structural \o semantic)
      list       == Solutions(domains, order, base, semantic)
      draws      == OneOf(ToSet(list))
  IN [structural |-> structural, semantic |-> semantic, member |-> member, norm |-> norm,
      finite |-> TRUE, list |-> list, draws |-> draws,
      project |-> Project(member, TRUE, list, norm, draws), domains |-> domains,
      storable |-> \A l \in DOMAIN domains : domains[l] \subseteq Holds(l), nearest |-> TRUE]

\* What over_all_leaves gives to the constructor.
OverAllLeaves(domain, order, semantic, norm) ==
  [kind |-> "constrained", domains |-> [l \in Leaf |-> domain], order |-> order,
   base |-> [l \in Leaf |-> 0], semantic |-> semantic, norm |-> norm]

\* ConstrainedSpace::neighbors: one decision leaf moves to the next value of its domain.
Neighbors(s, p) ==
  LET below(l) == {x \in s.domains[l] : x < p[l]}
      above(l) == {x \in s.domains[l] : x > p[l]}
      beside(l) == (IF below(l) = {} THEN {} ELSE {Max(below(l))}) \cup (IF above(l) = {} THEN {} ELSE {Min(above(l))})
      moves(l) == IF p[l] \in s.domains[l] THEN {[p EXCEPT ![l] = Store(l, x)] : x \in beside(l)} ELSE {}
  IN (UNION {moves(l) : l \in DOMAIN s.domains}) \cap s.member
-----------------------------------------------------------------------------
(* Boxes.                                                                  *)

\* The integers of a slot lie between the rounded bounds.
Rounded(l, b) == IF Kinds[l] = "float" THEN b ELSE [lo |-> Ceil(b.lo), hi |-> Floor(b.hi)]

\* What std::clamp gives; its behaviour is undefined between ends that cross.
Clamped(x, b) == IF b.lo <= b.hi THEN {Clamp(x, b.lo, b.hi)} ELSE {b.lo, b.hi}

\* BoxSpace: the same bounds for every leaf, except for overrides.
Box(bounds, overrides, norm) ==
  LET slot(l)  == IF l \in DOMAIN overrides THEN overrides[l] ELSE bounds
      inner(l) == Rounded(l, slot(l))
      within(l) == {p \in Point : slot(l).lo <= p[l] /\ p[l] <= slot(l).hi}
      structural == Ordered({within(l) : l \in Leaf})
      drawn(l) == {x \in inner(l).lo .. inner(l).hi : Kinds[l] = "int" => x % 2 = 0}
      draws == OneOf({p \in Point : \A l \in Leaf : p[l] \in {Store(l, x) : x \in drawn(l)}})
      landed(p) == {q \in Point : \A l \in Leaf : q[l] \in {Store(l, x) : x \in Clamped(p[l], inner(l))}}
  IN [structural |-> structural, semantic |-> <<>>, member |-> All(structural), norm |-> norm,
      finite |-> FALSE, list |-> <<>>, draws |-> draws,
      project |-> [p \in Point |-> {{q} : q \in landed(p)}],
      storable |-> \A l \in Leaf : \E x \in Holds(l) : x \in inner(l).lo .. inner(l).hi, nearest |-> TRUE]

IsBox(bounds, overrides) ==
  /\ DOMAIN overrides \subseteq Leaf
  /\ bounds.lo <= bounds.hi /\ \A l \in DOMAIN overrides : overrides[l].lo <= overrides[l].hi
-----------------------------------------------------------------------------
(* The algebra.                                                            *)

\* Draws of a generator that are members; rejection may give up.
Kept(draws, member) ==
  {d \in draws : d # {} /\ d \subseteq member} \cup (IF \A d \in draws : d # {} /\ d \subseteq member THEN {} ELSE {{}})

\* When rejection gives up, a finite space draws from its listing.
OrListed(kept, finite, list) == IF {} \in kept /\ finite THEN (kept \ {{}}) \cup OneOf(ToSet(list)) ELSE kept

PredicateSpace(semantic, structural, generator) ==
  LET member == All(structural \o semantic)
      draws  == Kept(generator, member)
  IN [structural |-> structural, semantic |-> semantic, member |-> member, norm |-> "L2",
      finite |-> FALSE, list |-> <<>>, draws |-> draws,
      project |-> Project(member, FALSE, <<>>, "L2", draws), storable |-> TRUE, nearest |-> FALSE]

\* Mutant: the listing of the first space is trusted.
IntersectionListFirst(a, b) == IF a.finite THEN a.list ELSE Those(b.list, a.member)

IntersectionList(a, b) ==
  IF a.finite THEN Those(a.list, b.member) ELSE Those(b.list, a.member)

Intersection(a, b) ==
  LET finite == a.finite \/ b.finite
      list   == IntersectionList(a, b)
      member == a.member \cap b.member
      fromA  == Kept(a.draws, b.member)
      fromB  == Kept(b.draws, a.member)
      kept   == IF {} \notin fromA THEN fromA ELSE IF {} \notin fromB THEN (fromA \ {{}}) \cup fromB ELSE fromA \cup fromB
      draws  == OrListed(kept, finite, list)
  IN [structural |-> a.structural \o b.structural, semantic |-> a.semantic \o b.semantic,
      member |-> member, norm |-> a.norm, finite |-> finite, list |-> list, draws |-> draws,
      project |-> Project(member, finite, list, a.norm, draws),
      storable |-> a.storable /\ b.storable, nearest |-> finite]

Invariant(s) == All(s.structural \o s.semantic)

\* The nearer of two projections, in the metric of the union, the first of equals.
NearerProjection(a, b, p) ==
  LET better(d, e) == CASE d = {} -> e [] d # {} /\ e = {} -> d
                        [] OTHER -> LET near(f) == Distance(a.norm, p, CHOOSE q \in f : TRUE)
                                    IN IF near(d) <= near(e) THEN d ELSE e
  IN {better(d, e) : d \in a.project[p], e \in b.project[p]}

Union(a, b) ==
  LET list == a.list \o Those(b.list, Point \ a.member)
      either == (a.draws \cup b.draws) \ {{}}
  IN [structural |-> <<>>, semantic |-> <<Invariant(a) \cup Invariant(b)>>,
      member |-> a.member \cup b.member, norm |-> a.norm, finite |-> a.finite /\ b.finite, list |-> list,
      draws |-> either \cup (IF {} \in a.draws /\ {} \in b.draws THEN {{}} ELSE {}),
      project |-> [p \in Point |-> NearerProjection(a, b, p)],
      storable |-> a.storable /\ b.storable, nearest |-> a.nearest /\ b.nearest /\ a.norm = b.norm]

\* Mutant: only the semantic invariants of the second space are negated.
NotSemantic(b) == Point \ All(b.semantic)

\* What the difference takes away.
Not(b) == Point \ Invariant(b)

Difference(a, b) ==
  LET list   == Those(a.list, Point \ b.member)
      member == a.member \ b.member
      draws  == OrListed(Kept(a.draws, Point \ b.member), a.finite, list)
  IN [structural |-> a.structural, semantic |-> Append(a.semantic, Not(b)),
      member |-> member, norm |-> a.norm, finite |-> a.finite, list |-> list, draws |-> draws,
      project |-> Project(member, a.finite, list, a.norm, draws),
      storable |-> a.storable /\ b.storable, nearest |-> a.finite]
-----------------------------------------------------------------------------
(* What a client gives to the constructors.                                *)

Kind == {"constrained", "box", "predicate"}

AreInvariants(seq) == seq \in Seq(SUBSET Point)

Interval(b) == b.lo \in Int /\ b.hi \in Int

IsBase(d) ==
  /\ d.kind \in Kind
  /\ d.kind = "constrained" =>
       /\ DOMAIN d.domains \subseteq Leaf
       /\ \A l \in DOMAIN d.domains : d.domains[l] \subseteq Int /\ IsFiniteSet(d.domains[l])
       /\ IsSearchOrder(d.order, DOMAIN d.domains)
       /\ d.base \in Point /\ AreInvariants(d.semantic) /\ d.norm \in Norm
  /\ d.kind = "box" =>
       /\ Interval(d.bounds) /\ \A l \in DOMAIN d.overrides : Interval(d.overrides[l])
       /\ IsBox(d.bounds, d.overrides) /\ d.norm \in Norm
  /\ d.kind = "predicate" =>
       /\ AreInvariants(d.semantic) /\ AreInvariants(d.structural)
       /\ d.generator \subseteq {{}} \cup {{p} : p \in Point}

Make(d) ==
  CASE d.kind = "constrained" -> Constrained(d.domains, d.order, d.base, d.semantic, d.norm)
    [] d.kind = "box"         -> Box(d.bounds, d.overrides, d.norm)
    [] d.kind = "predicate"   -> PredicateSpace(d.semantic, d.structural, d.generator)
=============================================================================
