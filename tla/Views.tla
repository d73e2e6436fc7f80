-------------------------------- MODULE Views --------------------------------
(***************************************************************************)
(* Values (Value.cpp): views of a type at an offset into a buffer that     *)
(* other views may share, and the registry the types come from.            *)
(***************************************************************************)
EXTENDS Types

CONSTANTS
  Definitions,   \* what a client defines: primitives, structures and aliases
  Expressions,   \* type expressions a client resolves
  Allocations,   \* those values are made of
  Contents,      \* bytes and numbers written
  Placements,    \* offsets of views made by hand
  MaxViews, MaxWrites

VARIABLES
  registry,
  buffers,       \* sequence of byte sequences
  views,         \* sequence of views: type, memory, offset
  writes,        \* writes done
  written        \* the view the last step wrote through, and the bytes it gave it

viewVars == <<registry, buffers, views, writes, written>>

Nothing == [view |-> 0, bytes |-> <<>>]

ViewsInit ==
  /\ registry = Builtin /\ buffers = <<>> /\ views = <<>> /\ writes = 0 /\ written = Nothing

Size(v)  == ByteSize(v.type)
Bytes(v) == SubSeq(buffers[v.memory], v.offset + 1, v.offset + Size(v))

Aliases(v, w) ==
  v.memory = w.memory /\ Size(v) > 0 /\ Size(w) > 0 /\ v.offset < w.offset + Size(w) /\ w.offset < v.offset + Size(v)

View(type, memory, offset) == [type |-> type, memory |-> memory, offset |-> offset]
-----------------------------------------------------------------------------
(* The registry, which a client fills before it makes values: a bound.     *)

Define ==
  /\ views = <<>>
  /\ \E d \in Definitions :
       registry' \in CASE d.kind = "primitive" -> DefinePrimitive(registry, d.name, d.size)
                       [] d.kind = "struct"    -> DefineStruct(registry, d.name, d.members)
                       [] d.kind = "alias"     -> DefineAlias(registry, d.name, d.type)
  /\ UNCHANGED <<buffers, views, writes, written>>
-----------------------------------------------------------------------------
(* Making views.                                                           *)

\* Bounds: how many views, and only when every allocation has its type.
Room == Len(views) < MaxViews /\ {expr.name : expr \in Allocations} \subseteq DOMAIN registry

\* A second view of one place is a copy of the first: not made.
Made(v) ==
  /\ v \notin Range(views)
  /\ views' = Append(views, v) /\ written' = Nothing
  /\ UNCHANGED <<registry, writes>>

\* A value of its own, all zero.
New ==
  /\ Room
  /\ \E expr \in Allocations : \E type \in Get(registry, expr) :
       /\ buffers' = Append(buffers, [b \in 1 .. ByteSize(type) |-> 0])
       /\ Made(View(type, Len(buffers) + 1, 0))

Clone ==
  /\ Room
  /\ \E v \in Range(views) :
       /\ buffers' = Append(buffers, Bytes(v))
       /\ Made(View(v.type, Len(buffers) + 1, 0))

\* A view at any offset of a buffer that holds it.
Overlay ==
  /\ Room
  /\ \E v \in Range(views), expr \in Allocations, offset \in Placements : \E type \in Get(registry, expr) :
       /\ offset + ByteSize(type) <= Len(buffers[v.memory])
       /\ Made(View(type, v.memory, offset))
  /\ UNCHANGED buffers

\* reference_member, reference_element with one index or all of them, flat.
Step ==
  /\ Room
  /\ \E v \in Range(views) :
       LET here     == {Place(v.type, v.offset)}
           members  == UNION {ToMember(here, f.name) : f \in Range(v.type.fields)}
           indexed  == IF v.type.shape = <<>> THEN {} ELSE UNION {ToIndex(here, i) : i \in 0 .. v.type.shape[1] - 1}
           flat     == IF v.type.shape = <<>> THEN {}
                       ELSE {Place(Element(v.type), v.offset + i * v.type.size) : i \in 0 .. ElementCount(v.type) - 1}
       IN \E p \in members \cup indexed \cup flat : Made(View(p.type, v.memory, p.offset))
  /\ UNCHANGED buffers

\* reference: by the path of a leaf.
Reference ==
  /\ Room
  /\ \E v \in Range(views) : \E leaf \in Range(Flatten(v.type)) : \E p \in Locate(v.type, leaf.path, v.offset) :
       Made(View(p.type, v.memory, p.offset))
  /\ UNCHANGED buffers
-----------------------------------------------------------------------------
(* Writing through a view.                                                 *)

Put(buffer, offset, bytes) ==
  [b \in DOMAIN buffer |-> IF offset < b /\ b <= offset + Len(bytes) THEN bytes[b - offset] ELSE buffer[b]]

Write(j, at, bytes) ==
  /\ writes < MaxWrites /\ writes' = writes + 1
  /\ buffers' = [buffers EXCEPT ![views[j].memory] = Put(@, views[j].offset + at, bytes)]
  /\ written' = [view |-> j, bytes |-> Put(Bytes(views[j]), at, bytes)]
  /\ UNCHANGED <<registry, views>>

\* insert: two bytes, anywhere in a value they fit into.
Insert ==
  \E j \in DOMAIN views, at \in Placements, byte \in Contents :
    /\ at + 2 <= Size(views[j])
    /\ Write(j, at, <<byte % 256, byte % 256>>)

\* What is stored for a number: low byte first; assign saturates to the primitive.
Stored(prim, x) ==
  LET signed  == prim.t \in {"i8", "i16"}
      limit   == IF signed THEN 128 * 256 ^ (prim.size - 1) ELSE 256 ^ prim.size
      clamped == IF x >= limit THEN limit - 1 ELSE IF signed /\ x < -limit THEN -limit ELSE IF ~signed /\ x < 0 THEN 0 ELSE x
      number  == IF prim.t = "bool" THEN IF x # 0 THEN 1 ELSE 0 ELSE clamped
  IN [b \in 1 .. prim.size |-> (number \div 256 ^ (b - 1)) % 256]

\* assign and set_scalar: a number into an element of a numeric primitive.
Assign ==
  \E j \in DOMAIN views, x \in Contents :
    LET type == views[j].type
    IN /\ type.kind = "primitive" /\ type.numeric
       /\ \E i \in 0 .. ElementCount(type) - 1 : Write(j, i * type.size, Stored(type, x))

FillZero == \E j \in DOMAIN views : Write(j, 0, [b \in 1 .. Size(views[j]) |-> 0])

\* Mutant: bytes are copied one after the other, the first first.
MovedForward(buffer, from, to, size) ==
  FoldLeft(LAMBDA acc, b : [acc EXCEPT ![to + b] = acc[from + b]], buffer, [b \in 1 .. size |-> b])

\* memmove within a buffer.
Moved(buffer, from, to, size) == Put(buffer, to, SubSeq(buffer, from + 1, from + size))

CopyFrom ==
  /\ writes < MaxWrites /\ writes' = writes + 1
  /\ \E j, s \in DOMAIN views :
       LET dst == views[j]  src == views[s]
       IN /\ j # s /\ LayoutEquals(dst.type, src.type)
          /\ buffers' = [buffers EXCEPT ![dst.memory] =
                           IF src.memory = dst.memory THEN Moved(@, src.offset, dst.offset, Size(dst))
                           ELSE Put(@, dst.offset, Bytes(src))]
          /\ written' = [view |-> j, bytes |-> Bytes(src)]
  /\ UNCHANGED <<registry, views>>

ViewsNext == Define \/ New \/ Clone \/ Overlay \/ Step \/ Reference \/ Insert \/ Assign \/ FillZero \/ CopyFrom
-----------------------------------------------------------------------------
(* Properties.                                                             *)

(* Every type a registry can hold, and every array of it that a client     *)
(* names, has leaves that fill it and can be found by their paths.         *)
LayoutsAreExact ==
  views = <<>> =>
    /\ \A name \in DOMAIN registry : LeavesTile(registry[name])
    /\ \A expr \in Expressions : \A type \in Get(registry, expr) : LeavesTile(type)

(* A write gives its view exactly the bytes it was to, the source's as     *)
(* they were even if they overlap, and no view changes that the written    *)
(* one does not alias: a clone is independent, two members are, and a view *)
(* never reaches past its buffer.                                          *)
WritesStayInTheirView ==
  [][/\ \A j \in DOMAIN views : \A v \in {views[j]} :
          /\ v.offset + Size(v) <= Len(buffers[v.memory])
          /\ j = written'.view => Bytes(v)' = written'.bytes
          /\ (written'.view # 0 => ~Aliases(views[written'.view], v)) => Bytes(v)' = Bytes(v)]_viewVars
=============================================================================
