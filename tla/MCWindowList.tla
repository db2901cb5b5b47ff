------------------------------ MODULE MCWindowList ------------------------------
(***************************************************************************)
(* The xdg windows are interchangeable: they differ from the dock, which   *)
(* comes through Xwayland, but not from each other.                        *)
(***************************************************************************)
EXTENDS WindowList, TLC

Symmetry == Permutations(Views \ Xwayland)
=============================================================================
