----------------------------- MODULE SpaceClient ------------------------------
(***************************************************************************)
(* A client that draws values from a space, lists it, and projects values  *)
(* onto it, or one that walks over it.  The spaces are built by the        *)
(* constructors of Spaces.                                                 *)
(***************************************************************************)
EXTENDS Spaces, Walk

CONSTANTS
  Names,       \* the spaces in use: <<name>>, <<how, name, name>>, or <<how, name, how, name, name>>
  Base(_)      \* what the spaces that are named are constructed from

How == {"union", "intersection", "difference"}

ASSUME NamesAssumption ==
  \A n \in Names :
    \/ Len(n) = 1 /\ IsBase(Base(n[1]))
    \/ Len(n) = 3 /\ n[1] \in How /\ IsBase(Base(n[2])) /\ IsBase(Base(n[3]))
    \/ /\ Len(n) = 5 /\ {n[1], n[3]} \subseteq How
       /\ IsBase(Base(n[2])) /\ IsBase(Base(n[4])) /\ IsBase(Base(n[5]))

Combined(how, a, b) ==
  CASE how = "union" -> Union(a, b) [] how = "intersection" -> Intersection(a, b) [] how = "difference" -> Difference(a, b)

Build(n) ==
  LET space(i) == Make(Base(n[i]))
  IN CASE Len(n) = 1 -> space(1)
       [] Len(n) = 3 -> Combined(n[1], space(2), space(3))
       [] Len(n) = 5 -> Combined(n[1], space(2), Combined(n[3], space(4), space(5)))

VARIABLES
  space,    \* the space in use, or <<>> for the client that walks
  given,    \* the value given to project, or the one returned by another call
  result    \* what the call returned, and which call it was

clientVars == <<space, given, result>>

Algebra == space # <<>>
Fresh   == result.call = "none"

Origin  == [l \in Leaf |-> 0]
Nowhere == [members |-> {}, adjacent |-> <<>>, listing |-> <<>>]

ClientInit ==
  /\ result = [call |-> "none", value |-> {}]
  /\ given = Origin
  /\ \/ space = <<>> /\ \E g \in Graphs : Start(g, Origin)
     \/ Start(Nowhere, Origin) /\ \E n \in Names : space = Build(n)

Returns(call, d) == result' = [call |-> call, value |-> d]

Generate ==
  /\ Fresh
  /\ \E d \in space.draws :
       Returns("generate", d) /\ IF d = {} THEN UNCHANGED given ELSE given' \in d
  /\ UNCHANGED space

\* A client looks at any value of the listing, which may be a prefix of it.
Enumerate ==
  /\ Fresh /\ space.finite
  /\ \E p \in ToSet(space.list) : Returns("enumerate", {p}) /\ given' = p
  /\ UNCHANGED space

\* Any value is projected, one that was drawn or listed too.
ProjectValue ==
  /\ Fresh
  /\ \E p \in Point : given' = p /\ \E d \in space.project[p] : Returns("project", d)
  /\ UNCHANGED space

ClientNext ==
  \/ Algebra /\ (Generate \/ Enumerate \/ ProjectValue) /\ UNCHANGED vars
  \/ ~Algebra /\ Next /\ UNCHANGED clientVars

ClientSpec == ClientInit /\ [][ClientNext]_<<vars, clientVars>>
-----------------------------------------------------------------------------
(* Properties.                                                             *)

(* A value is in a space exactly if every invariant that the space reports *)
(* holds, through unions, intersections and differences; the listing of a  *)
(* finite space has each of its values once and nothing else, if leaves    *)
(* can store their domains.                                                *)
SpacesAgree ==
  Algebra =>
    /\ space.member = Invariant(space)
    /\ space.finite /\ space.storable =>
         ToSet(space.list) = space.member /\ Len(space.list) = Cardinality(space.member)

(* What generate, enumerate and project return is in the space, if leaves  *)
(* can store its domains and integers lie in its boxes; project finds a    *)
(* value in every finite space that has one.                               *)
ResultsAreMembers ==
  Algebra =>
    /\ space.storable => result.value \subseteq space.member
    /\ result.call \in {"generate", "project"} /\ result.value = {} /\ space.finite => space.list = <<>>

(* Projection finds a nearest member, and leaves members where they are,   *)
(* for boxes, and spaces that are finite or unions of such with one norm.  *)
ProjectionIsNearest ==
  Algebra /\ result.call = "project" /\ space.storable /\ space.nearest /\ space.member # {} =>
    result.value # {} /\ result.value \subseteq Nearest(space.norm, space.member, given)
=============================================================================
