----------------------------- MODULE MCModulePipes -----------------------------
(***************************************************************************)
(* Two modules: one that is waited for after a status change and after a   *)
(* new stacking order, and that asks for the window list or changes window *)
(* flags and goes on setting its mask; and one that is only sent messages. *)
(***************************************************************************)
EXTENDS ModulePipes
CONSTANTS a, b
MCScripts == (a :> {<<"list", "bad">>, <<"flags">>}) @@ (b :> {<<>>})
MCChatter == (a :> {"mask"}) @@ (b :> {})
MCWants == (a :> Types) @@ (b :> {"status", "order"})
MCLocks == (a :> {"status", "order"}) @@ (b :> {})
=============================================================================
