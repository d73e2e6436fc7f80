-------------------------------- MODULE Types --------------------------------
(***************************************************************************)
(* Types of values and their layouts (ValueType.cpp, Layout.cpp), paths    *)
(* into them (locate) and the registry's type expressions.  A type is the  *)
(* layout of one element and a shape.  What throws is the empty set, what  *)
(* returns a set of one.                                                   *)
(***************************************************************************)
EXTENDS Integers, SequencesExt

CONSTANT MaxSize     \* the largest std::size_t

Product(shape) == FoldLeft(LAMBDA a, b : a * b, 1, shape)
Drop(shape, k) == SubSeq(shape, k + 1, Len(shape))

ElementCount(type) == Product(type.shape)
ByteSize(type)     == type.size * ElementCount(type)

\* Mutant: strides of the first dimension grow fastest.
StridesColumn(type) == [d \in DOMAIN type.shape |-> type.size * Product(SubSeq(type.shape, 1, d - 1))]

\* Bytes from one index to the next in each dimension: row-major.
Strides(type) == [d \in DOMAIN type.shape |-> type.size * Product(Drop(type.shape, d))]

\* The sizes computed from the last dimension on do not overflow.
Fits(size, shape) ==
  \A k \in 0 .. Len(shape) : LET count == Product(Drop(shape, k)) IN count <= MaxSize /\ size * count <= MaxSize

Build(type) == IF Fits(type.size, type.shape) THEN {type} ELSE {}

\* An opaque primitive has a size and no number.
Primitive(t, size, numeric, shape) ==
  IF size = 0 THEN {}
  ELSE Build([kind |-> "primitive", t |-> t, size |-> size, numeric |-> numeric, fields |-> <<>>, shape |-> shape])

Suffix(type, k)       == [type EXCEPT !.shape = Drop(@, k)]
Element(type)         == Suffix(type, Len(type.shape))
Reshaped(type, shape) == Build([type EXCEPT !.shape = shape])

\* members: names and types, laid out in their order without gaps.
Structure(name, members, shape) ==
  LET offset(j) == FoldLeft(LAMBDA a, f : a + ByteSize(f.type), 0, SubSeq(members, 1, j - 1))
      fields == [j \in DOMAIN members |-> [name |-> members[j].name, type |-> members[j].type, offset |-> offset(j)]]
  IN IF offset(Len(members) + 1) > MaxSize \/ ~IsInjective([j \in DOMAIN members |-> members[j].name]) THEN {}
     ELSE Build([kind |-> "struct", t |-> name, size |-> offset(Len(members) + 1), numeric |-> FALSE,
                 fields |-> fields, shape |-> shape])

FieldOf(type, name) == {type.fields[j] : j \in {i \in DOMAIN type.fields : type.fields[i].name = name}}

RECURSIVE LayoutEquals(_, _)
LayoutEquals(a, b) ==
  /\ a.kind = b.kind /\ a.shape = b.shape /\ a.size = b.size /\ Len(a.fields) = Len(b.fields)
  /\ a.kind = "primitive" => a.numeric = b.numeric /\ (a.numeric => a.t = b.t)
  /\ \A j \in DOMAIN a.fields :
       a.fields[j].offset = b.fields[j].offset /\ LayoutEquals(a.fields[j].type, b.fields[j].type)

RECURSIVE TypeEquals(_, _)
TypeEquals(a, b) ==
  /\ a.t = b.t /\ LayoutEquals(a, b)
  /\ \A j \in DOMAIN a.fields :
       a.fields[j].name = b.fields[j].name /\ TypeEquals(a.fields[j].type, b.fields[j].type)
-----------------------------------------------------------------------------
(* Leaves: the primitive slots, each with its path.  A path is a sequence  *)
(* of segments: a member, none in the first segment of a path into an      *)
(* array, and indices.                                                     *)

Segment(member, indices) == [member |-> member, indices |-> indices]

\* The multi-index of an element by its number.
Indices(shape, flat) == [d \in DOMAIN shape |-> (flat \div Product(Drop(shape, d))) % shape[d]]

\* The path to an element: the indices join the last segment.
Indexed(prefix, shape, flat) ==
  IF shape = <<>> THEN prefix
  ELSE IF prefix = <<>> THEN <<Segment("", Indices(shape, flat))>>
  ELSE [prefix EXCEPT ![Len(prefix)].indices = @ \o Indices(shape, flat)]

RECURSIVE WalkPaths(_, _, _)
WalkPaths(type, base, prefix) ==
  LET element(i) ==
        LET at == base + i * type.size  path == Indexed(prefix, type.shape, i)
        IN IF type.kind = "primitive" THEN <<[path |-> path, offset |-> at, t |-> type.t, size |-> type.size]>>
           ELSE FlattenSeq([j \in DOMAIN type.fields |->
                  LET f == type.fields[j] IN WalkPaths(f.type, at + f.offset, Append(path, Segment(f.name, <<>>)))])
  IN FlattenSeq([i \in 1 .. ElementCount(type) |-> element(i - 1)])

Flatten(type) == WalkPaths(type, 0, <<>>)

RECURSIVE LeafCount(_)
LeafCount(type) ==
  LET per == IF type.kind = "primitive" THEN 1
             ELSE FoldLeft(LAMBDA a, f : a + LeafCount(f.type), 0, type.fields)
  IN per * ElementCount(type)
-----------------------------------------------------------------------------
(* locate: a path, segment by segment; here is a set of at most one place. *)

Place(type, offset) == [type |-> type, offset |-> offset]

ToMember(here, name) ==
  UNION {{Place(f.type, p.offset + f.offset) : f \in IF p.type.shape = <<>> THEN FieldOf(p.type, name) ELSE {}} : p \in here}

ToIndex(here, i) ==
  {Place(Suffix(p.type, 1), p.offset + i * Strides(p.type)[1]) :
     p \in {q \in here : q.type.shape # <<>> /\ i < q.type.shape[1]}}

Locate(type, path, base) ==
  LET segment(here, s) ==
        IF s.member = "" /\ s.indices = <<>> THEN {}
        ELSE FoldLeft(ToIndex, IF s.member = "" THEN here ELSE ToMember(here, s.member), s.indices)
  IN FoldLeft(segment, {Place(type, base)}, path)
-----------------------------------------------------------------------------
(* The registry: names and types.                                          *)

\* get: an expression is a name and dimensions, which come before the named type's own.
Get(registry, expr) ==
  IF expr.name \notin DOMAIN registry THEN {}
  ELSE IF expr.dims = <<>> THEN {registry[expr.name]}
  ELSE Reshaped(registry[expr.name], expr.dims \o registry[expr.name].shape)

Known(registry, name, type) == registry @@ (name :> type)

\* define_primitive, define_struct, define_alias: a registry is left as it was by what throws.
DefinePrimitive(registry, name, size) ==
  IF name \in DOMAIN registry THEN {} ELSE {Known(registry, name, t) : t \in Primitive(name, size, FALSE, <<>>)}

DefineStruct(registry, name, members) ==
  LET types == [j \in DOMAIN members |-> Get(registry, members[j].type)]
  IN IF name \in DOMAIN registry \/ \E j \in DOMAIN members : types[j] = {} THEN {}
     ELSE {Known(registry, name, t) :
             t \in Structure(name, [j \in DOMAIN members |-> [name |-> members[j].name, type |-> CHOOSE t \in types[j] : TRUE]], <<>>)}

DefineAlias(registry, name, expr) ==
  IF name \in DOMAIN registry THEN {} ELSE {Known(registry, name, t) : t \in Get(registry, expr)}

Builtin ==
  LET prim(t, size) == CHOOSE p \in Primitive(t, size, TRUE, <<>>) : TRUE
  IN "u8" :> prim("u8", 1) @@ "i8" :> prim("i8", 1) @@ "bool" :> prim("bool", 1)
       @@ "u16" :> prim("u16", 2) @@ "i16" :> prim("i16", 2) @@ "byte" :> prim("u8", 1)
-----------------------------------------------------------------------------
(* Properties.                                                             *)

\* What reaching the elements and members one step at a time gives.
RECURSIVE Reach(_, _)
Reach(type, offset) ==
  CASE type.shape # <<>> -> UNION {UNION {Reach(p.type, p.offset) : p \in ToIndex({Place(type, offset)}, i)} : i \in 0 .. type.shape[1] - 1}
    [] type.shape = <<>> /\ type.kind = "struct" -> UNION {Reach(f.type, offset + f.offset) : f \in Range(type.fields)}
    [] OTHER -> {Place(type, offset)}

(* The leaves of a type follow one another and fill it; the path of each   *)
(* leads to it, whatever the nesting of arrays and structures; walking the *)
(* dimensions and members reaches the same slots; and no size overflows.   *)
LeavesTile(type) ==
  LET leaves == Flatten(type)
      end(j) == IF j = 0 THEN 0 ELSE leaves[j].offset + leaves[j].size
  IN /\ Len(leaves) = LeafCount(type)
     /\ \A j \in DOMAIN leaves : leaves[j].offset = end(j - 1)
     /\ end(Len(leaves)) = ByteSize(type) /\ ByteSize(type) <= MaxSize
     /\ \A j \in DOMAIN leaves : \A base \in {0, 1} :
          {[t |-> p.type.t, size |-> ByteSize(p.type), offset |-> p.offset] : p \in Locate(type, leaves[j].path, base)}
            = {[t |-> leaves[j].t, size |-> leaves[j].size, offset |-> base + leaves[j].offset]}
     /\ {[t |-> p.type.t, offset |-> p.offset] : p \in Reach(type, 0)} = {[t |-> l.t, offset |-> l.offset] : l \in Range(leaves)}
=============================================================================
