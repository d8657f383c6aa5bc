------------------------------ MODULE MCAgent ------------------------------
(***************************************************************************)
(* Model values for Agent.  Outputs are interchangeable heap blocks; three *)
(* of them are enough for two live outputs and one that is destroyed while *)
(* somebody still points at it.                                            *)
(***************************************************************************)
EXTENDS Agent, TLC

Symmetry == Permutations(Object)
=============================================================================
