------------------------------- MODULE MCValues -------------------------------
(***************************************************************************)
(* Definitions that rest on one another, collide, or are too large; values *)
(* that are arrays of structures, structures with arrays, and layouts that *)
(* differ in their names only.                                             *)
(***************************************************************************)
EXTENDS ValueClient

Expr(name, dims)   == [name |-> name, dims |-> dims]
Member(name, expr) == [name |-> name, type |-> expr]

Struct(name, members) == [kind |-> "struct", name |-> name, members |-> members]
Alias(name, expr)     == [kind |-> "alias", name |-> name, type |-> expr]

Definitions_ ==
  {Struct("point", <<Member("x", Expr("u8", <<>>)), Member("y", Expr("i16", <<>>))>>),
   Struct("place", <<Member("u", Expr("byte", <<>>)), Member("w", Expr("i16", <<>>))>>),
   Struct("twice", <<Member("x", Expr("u8", <<>>)), Member("x", Expr("u8", <<>>))>>),
   Struct("huge", <<Member("a", Expr("u16", <<5, 4>>)), Member("b", Expr("u16", <<6>>))>>),
   Struct("nest", <<Member("p", Expr("point", <<2>>)), Member("g", Expr("pair", <<2>>)), Member("none", Expr("u8", <<0, 3>>)),
                    Member("k", Expr("key", <<>>))>>),
   Alias("pair", Expr("u8", <<2>>)),
   Alias("point", Expr("bool", <<>>)),
   [kind |-> "primitive", name |-> "key", size |-> 3]}

Expressions_ ==
  {Expr("nest", <<2>>), Expr("point", <<2, 1>>), Expr("point", <<17>>), Expr("pair", <<3, 2>>), Expr("u16", <<9, 0>>),
   Expr("u16", <<99, 0>>), Expr("u16", <<0, 99>>), Expr("key", <<2>>), Expr("place", <<0>>)}

Allocations_ == {Expr("place", <<>>), Expr("point", <<2, 1>>)}

Contents_ == {300, -77}

Prim(t, signed, bits) == [t |-> t, signed |-> signed, bits |-> bits]

\* Narrow numbers, which doubles hold, and wide ones, which they round.
Prims == {Prim("u8", FALSE, 2), Prim("i8", TRUE, 2), Prim("u64", FALSE, 5), Prim("i64", TRUE, 5)}

Operands_ ==
  {Array(p, <<>>, <<x>>) : p \in {Bool}, x \in 0 .. 1}
    \cup UNION {{Array(p, <<>>, <<x>>) : x \in Least(p) .. Greatest(p)} : p \in Prims}
    \cup UNION {{Array(p, <<n>>, [i \in 1 .. n |-> x]) : n \in {1, 2}, x \in {Least(p), Greatest(p)}} : p \in Prims}
    \cup {Array(Prim("i64", TRUE, 5), <<3>>, <<-1, 0, 15>>)}
=============================================================================
