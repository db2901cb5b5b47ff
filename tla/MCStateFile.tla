------------------------------ MODULE MCStateFile ------------------------------
(***************************************************************************)
(* Outputs are interchangeable: a name is only looked up.                  *)
(***************************************************************************)
EXTENDS StateFile

Symmetry == Permutations(Outputs)
=============================================================================
