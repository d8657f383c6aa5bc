------------------------------ MODULE MCOutput ------------------------------
(* Model values for Output: a queue that holds two items and six samples,  *)
(* so that it fills, discards, drains and dies several times over.         *)
EXTENDS Output, FiniteSets
=============================================================================
