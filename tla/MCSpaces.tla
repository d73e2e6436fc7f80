------------------------------- MODULE MCSpaces -------------------------------
(***************************************************************************)
(* Values of an integer and a float leaf, between -1 and 1.  Constrained   *)
(* spaces of every norm, with fixed leaves, and with domains that the      *)
(* integer leaf truncates; boxes, one without an integer in it and one     *)
(* beyond the range of the leaves; predicate spaces; and all their unions, *)
(* intersections and differences.                                          *)
(***************************************************************************)
EXTENDS SpaceClient

MCKinds   == <<"int", "float">>
MCLowest  == -2
MCHighest == 2

Zero  == [l \in Leaf |-> 0]
Apart == {p \in Point : Gap(p[1], p[2]) >= 1}
Low   == {p \in Point : p[1] + p[2] <= 1}
Signs == {p \in Point : p[1] * p[2] # 2}
Odd   == {p \in Point : p[2] % 2 = 1}
Corners == {p \in Point : p[1] # 0 /\ p[2] # 0}

Over(domains, order, base, semantic, norm) ==
  [kind |-> "constrained", domains |-> domains, order |-> order, base |-> base, semantic |-> semantic, norm |-> norm]
Within(bounds, overrides, norm) == [kind |-> "box", bounds |-> bounds, overrides |-> overrides, norm |-> norm]
Meets(semantic, structural, generator) ==
  [kind |-> "predicate", semantic |-> semantic, structural |-> structural, generator |-> generator]

BaseSpaces ==
  [all     |-> OverAllLeaves({-2, 0, 2}, <<1, 2>>, <<>>, "L2"),
   low     |-> Over(<<{-2, 0, 2}, {-1, 0, 1}>>, <<1, 2>>, Zero, <<Low>>, "L1"),
   apart   |-> Over(<<{-2, 2}, {-2, -1, 1, 2}>>, <<1, 2>>, Zero, <<Apart, Low>>, "LInf"),
   corners |-> Over(<<{-2, 0, 2}, {-2, 0, 2}>>, <<2, 1>>, Zero, <<Corners>>, "Hamming"),
   line    |-> Over([l \in {2} |-> DomainRange(-2, 2, 1)], <<2>>, Zero, <<>>, "L2"),
   void    |-> Over([l \in {1} |-> {0}], <<1>>, Zero, <<Odd>>, "L1"),
   halves  |-> Over(<<{-2, -1, 0, 1, 2}, {0, 2}>>, <<2, 1>>, Zero, <<Low>>, "L2"),
   steps   |-> Over([l \in {1} |-> {0, 1, 2}], <<1>>, Zero, <<>>, "L1"),
   box     |-> Within([lo |-> -1, hi |-> 2], [l \in {2} |-> [lo |-> -2, hi |-> 1]], "L2"),
   slab    |-> Within([lo |-> -5, hi |-> 0], <<>>, "L1"),
   gap     |-> Within([lo |-> 1, hi |-> 1], <<>>, "L2"),
   odd     |-> Meets(<<Odd>>, <<Signs>>, OneOf({p \in Point : p[1] >= 0 /\ p[2] > 0})),
   lost    |-> Meets(<<Low>>, <<>>, {{}})]

MCBase(n) == BaseSpaces[n]

Bases == DOMAIN BaseSpaces

\* All pairs, and some spaces of three operands.
MCNames ==
  {<<n>> : n \in Bases} \cup {<<how, a, b>> : how \in {"union", "intersection", "difference"}, a, b \in Bases}
  \cup {<<how, a, inner, b, c>> : how, inner \in {"union", "difference"}, a \in {"low", "line"}, b \in {"apart", "box"}, c \in {"low", "odd"}}

\* Spaces to walk over.
MCGraphs ==
  {[members |-> b.member, listing |-> b.list, adjacent |-> [v \in b.member |-> Neighbors(b, v)]] :
     b \in {Make(BaseSpaces[n]) : n \in {"all", "low", "apart", "corners", "line", "void", "halves", "steps"}}}
=============================================================================
