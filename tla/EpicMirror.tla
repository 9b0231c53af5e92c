------------------------------- MODULE EpicMirror -------------------------------
(***************************************************************************)
(* What a controller that mirrors one Kubernetes object at EPIC promises,  *)
(* whatever fails: EPIC gets a resource only for an object that exists and *)
(* carries our finalizer, and the finalizer goes only from an object that  *)
(* its owner has deleted.  How the controller reads the object, in which   *)
(* order it makes its calls and what it remembers of them is left open.    *)
(***************************************************************************)
EXTENDS Naturals

CONSTANT Uids      \* the UIDs of client objects, and 0 for no object

VARIABLES
    live,      \* the UID of the object at the API server, or 0
    guarded,   \* our finalizer is on the object
    doomed,    \* the object is marked for deletion
    held       \* the UIDs of the objects that EPIC has a resource for

vars == <<live, guarded, doomed, held>>

Init ==
    /\ live = 0
    /\ ~guarded
    /\ ~doomed
    /\ held = {}

\* A UID is never used twice.
Appear(u) ==
    /\ live = 0
    /\ u # 0
    /\ u \notin held
    /\ live' = u
    /\ ~guarded'
    /\ ~doomed'
    /\ UNCHANGED held

Guard ==
    /\ live # 0
    /\ ~doomed
    /\ guarded'
    /\ UNCHANGED <<live, doomed, held>>

Announce ==
    /\ guarded
    /\ held' = held \cup {live}
    /\ UNCHANGED <<live, guarded, doomed>>

Withdraw(u) ==
    /\ held' = held \ {u}
    /\ UNCHANGED <<live, guarded, doomed>>

Doom ==
    /\ live # 0
    /\ doomed'
    /\ UNCHANGED <<live, guarded, held>>

\* The finalizer is removed; if it is the last one the object is gone at once.
Release ==
    /\ doomed
    /\ ~guarded'
    /\ \/ UNCHANGED <<live, doomed>>
       \/ live' = 0 /\ ~doomed'
    /\ UNCHANGED held

Vanish ==
    /\ live # 0
    /\ ~guarded
    /\ live' = 0
    /\ ~guarded'
    /\ ~doomed'
    /\ UNCHANGED held

Next ==
    \/ \E u \in Uids : Appear(u) \/ Withdraw(u)
    \/ Guard \/ Announce \/ Doom \/ Release \/ Vanish

Spec == Init /\ [][Next]_vars
=============================================================================
