---------------------------- MODULE LockPromise ----------------------------
(***************************************************************************)
(* What the session lock of the aswlcomp compositor promises, with no      *)
(* word about frames, scene trees or protocol objects.                     *)
(*                                                                         *)
(* A session is unlocked, being locked (a lock client asked for it), locked *)
(* (the lock client has been told so), or orphaned (the lock client is     *)
(* gone and nobody unlocked).  An output is exposed while the last picture *)
(* it was given is one of the desktop.                                     *)
(***************************************************************************)
CONSTANT Outputs

VARIABLES phase,    \* how far the lock has got
          exposed   \* the outputs that show the desktop

vars == <<phase, exposed>>

Phases == {"unlocked", "locking", "locked", "orphaned"}

Init ==
    /\ phase = "unlocked"
    /\ exposed \in SUBSET Outputs

\* While nothing is locked, outputs come, go and draw as they like.
Show ==
    /\ phase = "unlocked"
    /\ exposed' \in SUBSET Outputs
    /\ UNCHANGED phase

\* A lock client takes the session, or adopts one whose lock client died.
Engage ==
    /\ phase \in {"unlocked", "orphaned"}
    /\ phase' = "locking"
    /\ UNCHANGED exposed

\* Behind the lock an output can stop showing the desktop, never start.
Blank ==
    /\ phase # "unlocked"
    /\ exposed' \in SUBSET exposed
    /\ UNCHANGED phase

\* The lock client hears "locked" only when the desktop is nowhere to be seen.
Confirm ==
    /\ phase = "locking"
    /\ phase' = "locked"
    /\ exposed' = {}

\* Losing the lock client does not unlock.
Orphan ==
    /\ phase \in {"locking", "locked"}
    /\ phase' = "orphaned"
    /\ UNCHANGED exposed

\* The only way back to the desktop is an unlock of a confirmed lock.
Release ==
    /\ phase = "locked"
    /\ phase' = "unlocked"
    /\ UNCHANGED exposed

Next == Show \/ Engage \/ Blank \/ Confirm \/ Orphan \/ Release

Spec == Init /\ [][Next]_vars
=============================================================================
