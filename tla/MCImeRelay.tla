----------------------------- MODULE MCImeRelay -----------------------------
(***************************************************************************)
(* Module ImeRelay with two clients, for model checking.                   *)
(***************************************************************************)
EXTENDS ImeRelay

CONSTANTS u, r   \* a text input and a surface of the second client

\* Whatever else there is belongs to the first.
MCClientOf == [x \in TextInputs \cup Surfaces |-> IF x \in {u, r} THEN 2 ELSE 1]
=============================================================================
