----------------------------- MODULE ValueClient -----------------------------
(***************************************************************************)
(* A client of the value layer: it fills a registry and works through      *)
(* views, or it applies operators.                                         *)
(***************************************************************************)
EXTENDS Views, Operators

vars == <<viewVars, operatorVars>>

Init == ViewsInit /\ OperatorsInit

Next ==
  \/ sums = <<>> /\ ViewsNext /\ UNCHANGED operatorVars
  \/ registry = Builtin /\ views = <<>> /\ Operate /\ UNCHANGED viewVars

Spec == Init /\ [][Next]_vars
=============================================================================
