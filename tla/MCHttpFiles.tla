---------------------------- MODULE MCHttpFiles ----------------------------
EXTENDS HttpFiles, TLC

(* The clients differ in nothing. *)
ClientSymmetry == Permutations(Client)
=============================================================================
