----------------------------- MODULE MCEnumerate -----------------------------
(***************************************************************************)
(* The runs of the depth-first search.  Extending the proofs has TLC       *)
(* evaluate ChecksAssumption on the problems of these runs.                *)
(***************************************************************************)
EXTENDS MCSynthesizer, Synthesizer_proofs
=============================================================================
