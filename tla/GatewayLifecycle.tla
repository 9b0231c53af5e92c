---------------------------- MODULE GatewayLifecycle ----------------------------
(***************************************************************************)
(* One Gateway, the manager's GatewayReconciler that announces it to EPIC, *)
(* and one HTTPRoute that has the Gateway as its parent.                   *)
(*                                                                         *)
(* A Gateway is announced once: its EPIC resource gives it a link and the  *)
(* addresses that go into its status, and then its children are nudged,    *)
(* so that what EPIC has of them refers to the new Gateway.  The child's   *)
(* own reconciler is reduced to the one thing that matters here: when it   *)
(* runs while the Gateway exists, EPIC's copy of the child refers to the   *)
(* Gateway by its current UID (RouteLifecycle has the whole of it).        *)
(*                                                                         *)
(* UIDs, the cache, the work queue, faults and links are as in             *)
(* RouteLifecycle.  The retries on conflict last for less than half a      *)
(* second; with PatientRetries they always outlast the lag of the cache.   *)
(***************************************************************************)
EXTENDS Naturals

CONSTANTS
    MaxChanges,     \* bound: changes made by the user
    MaxFaults,      \* bound: failed calls, lost replies and crashes
    UserOps,        \* the kinds of change that the user makes
    PatientRetries  \* whether the retries on conflict always last long enough

Ops == {"createGateway", "deleteGateway", "setTLS", "setClass", "createChild"}

ASSUME BoundsAssumption == /\ MaxChanges \in Nat \ {0}
                           /\ MaxFaults \in Nat
ASSUME ChoicesAssumption == UserOps \subseteq Ops /\ PatientRetries \in BOOLEAN

VARIABLES
    gw,        \* the Gateway at the API server
    cache,     \* the manager's informer copy of it
    epic,      \* the client UIDs that EPIC has a gateway resource for
    tls,       \* whether the TLS configuration of the listeners is valid
    class,     \* whether the GatewayClass and its config can be read, and are ours
    child,     \* the HTTPRoute, and the parent that EPIC's copy of it has
    changes,   \* changes made so far, the source of UIDs
    faults,    \* failures so far
    queued,    \* the Gateway's name is in the work queue
    pc,        \* the call that the worker makes next
    obj,       \* the worker's local Gateway
    kids       \* whether the worker found the child among the routes

world == <<tls, class, child>>
worker == <<queued, pc, obj, kids>>
vars == <<gw, cache, epic, tls, class, child, changes, faults, queued, pc, obj, kids>>

Stamps == 0..MaxChanges
Statuses == {"none", "programmed", "refused", "invalid"}
Classes == {"ours", "foreign", "missing"}
MarkPcs == {"invalid", "refresh", "status"}
Pcs == MarkPcs \cup {"idle", "unfinalize", "delete", "finalize", "children",
                     "announce", "refuse", "link", "address", "nudge"}

Gateways == [uid: Stamps, deleting: BOOLEAN, held: BOOLEAN, link: Stamps,
             addressed: BOOLEAN, status: Statuses]
NoGateway == [uid |-> 0, deleting |-> FALSE, held |-> FALSE, link |-> 0,
              addressed |-> FALSE, status |-> "none"]

Exists(g) == g.uid # 0
Linked(g) == g.link # 0
Live == Exists(gw) /\ ~gw.deleting
Current == Exists(cache) /\ cache = gw

Goto(label) == pc' = label /\ UNCHANGED <<queued, obj, kids>>

Finish(again) ==
    /\ pc' = "idle"
    /\ queued' = (queued \/ again)
    /\ obj' = NoGateway
    /\ kids' = FALSE

Fault == faults < MaxFaults /\ faults' = faults + 1
NoFault == UNCHANGED faults

\* A retried update ends in an error if its copy stays out of date, or if the
\* Gateway is gone.
GivesUp == ~Exists(cache) \/ ~Exists(gw) \/ (cache # gw /\ ~PatientRetries)

Init ==
    /\ gw = NoGateway
    /\ cache = NoGateway
    /\ epic = {}
    /\ tls \in BOOLEAN
    /\ class = "ours"
    /\ child = [exists |-> FALSE, queued |-> FALSE, parent |-> 0]
    /\ changes = 0
    /\ faults = 0
    /\ queued = FALSE
    /\ pc = "idle"
    /\ obj = NoGateway
    /\ kids = FALSE

-----------------------------------------------------------------------------
(* The worker: Reconcile, one action per call.                             *)

\* Without the class or its config Reconcile ends in an error, and with a class
\* that is not ours it is done, also for a Gateway that is being deleted.
GetGateway ==
    /\ pc = "idle"
    /\ queued
    /\ \/ /\ Exists(cache) /\ class = "ours"
          /\ obj' = cache
          /\ pc' = IF cache.deleting THEN "unfinalize" ELSE "finalize"
          /\ queued' = FALSE
          /\ UNCHANGED kids
       \/ /\ ~Exists(cache) \/ class = "foreign"
          /\ queued' = FALSE
          /\ UNCHANGED <<pc, obj, kids>>
       \/ /\ Exists(cache) /\ class = "missing"
          /\ UNCHANGED <<queued, pc, obj, kids>>
    /\ UNCHANGED <<gw, cache, epic, world, changes, faults>>

\* A slip: the finalizer is forgotten.
AddFinalizerSkipped ==
    /\ pc = "finalize"
    /\ Goto("children")
    /\ UNCHANGED <<gw, cache, epic, world, changes, faults>>

\* Adding a finalizer to what is marked for deletion is refused.
AddFinalizer ==
    /\ pc = "finalize"
    /\ \/ /\ obj.held
          /\ Goto("children")
          /\ UNCHANGED gw
       \/ /\ ~obj.held
          /\ Current /\ ~gw.deleting
          /\ gw' = [gw EXCEPT !.held = TRUE]
          /\ obj' = gw'
          /\ pc' = "children"
          /\ UNCHANGED <<queued, kids>>
       \/ /\ ~obj.held
          /\ GivesUp \/ gw.deleting
          /\ Finish(TRUE)
          /\ UNCHANGED gw
    /\ UNCHANGED <<cache, epic, world, changes, faults>>

\* Find the children, validate the TLS configuration, get the EPIC group, and
\* see whether this Gateway has been announced before.
Children ==
    /\ pc = "children"
    /\ kids' = child.exists
    /\ pc' = CASE ~tls        -> "invalid"
               [] Linked(obj) -> "refresh"
               [] OTHER       -> "announce"
    /\ UNCHANGED <<gw, cache, epic, world, changes, faults, queued, obj>>

\* A slip: a conflict is taken for a failure.
AnnounceConflictFails ==
    /\ pc = "announce"
    /\ epic' = epic \cup {obj.uid}
    /\ \/ obj.uid \notin epic /\ Goto("link") /\ NoFault
       \/ obj.uid \in epic /\ Goto("refuse") /\ NoFault
       \/ Goto("refuse") /\ Fault
    /\ UNCHANGED <<gw, cache, world, changes>>

\* POST; a conflict means that the resource is there, and it is fetched.
Announce ==
    /\ pc = "announce"
    /\ epic' = epic \cup {obj.uid}
    /\ \/ Goto("link") /\ NoFault
       \/ Goto("refuse") /\ Fault
    /\ UNCHANGED <<gw, cache, world, changes>>

\* The announcement failed: tell the user, if the update goes through, and
\* return the error.
Refuse ==
    /\ pc = "refuse"
    /\ \/ Current /\ gw' = [gw EXCEPT !.status = "refused"]
       \/ GivesUp /\ UNCHANGED gw
    /\ Finish(TRUE)
    /\ UNCHANGED <<cache, epic, world, changes, faults>>

\* A slip: the addresses are left for later.
AddEpicLinkOnly ==
    /\ pc = "link"
    /\ \/ /\ Exists(gw)
          /\ gw' = [gw EXCEPT !.link = obj.uid]
          /\ obj' = gw'
          /\ pc' = "status"
          /\ UNCHANGED <<queued, kids>>
       \/ /\ ~Exists(gw)
          /\ Finish(TRUE)
          /\ UNCHANGED gw
    /\ UNCHANGED <<cache, epic, world, changes, faults>>

\* A JSON patch that names the Gateway, whatever its version.
AddEpicLink ==
    /\ pc = "link"
    /\ \/ /\ Exists(gw)
          /\ gw' = [gw EXCEPT !.link = obj.uid]
          /\ obj' = gw'
          /\ pc' = "address"
          /\ UNCHANGED <<queued, kids>>
       \/ /\ ~Exists(gw)
          /\ Finish(TRUE)
          /\ UNCHANGED gw
    /\ UNCHANGED <<cache, epic, world, changes, faults>>

\* The addresses are at hand only in the pass that announced the Gateway.
MarkAddresses ==
    /\ pc = "address"
    /\ \/ /\ Current
          /\ gw' = [gw EXCEPT !.addressed = TRUE]
          /\ Goto("status")
       \/ /\ GivesUp
          /\ Finish(TRUE)
          /\ UNCHANGED gw
    /\ UNCHANGED <<cache, epic, world, changes, faults>>

\* A slip: the name of the call is written for the status.
StatusUnmapped(label) == label

StatusFor(label) == IF label = "invalid" THEN "invalid" ELSE "programmed"

UpdateStatus ==
    /\ pc \in MarkPcs
    /\ \/ /\ Current
          /\ gw' = [gw EXCEPT !.status = StatusFor(pc)]
          /\ IF pc = "status" THEN Goto("nudge") ELSE Finish(FALSE)
       \/ /\ GivesUp
          /\ Finish(TRUE)
          /\ UNCHANGED gw
    /\ UNCHANGED <<cache, epic, world, changes, faults>>

\* A slip: the children are left to find out for themselves.
NudgeChildrenSkipped ==
    /\ pc = "nudge"
    /\ Finish(FALSE)
    /\ UNCHANGED <<gw, cache, epic, world, changes, faults>>

\* A nudge that fails is only logged.
NudgeChildren ==
    /\ pc = "nudge"
    /\ \/ child' = [child EXCEPT !.queued = kids \/ @] /\ NoFault
       \/ kids /\ UNCHANGED child /\ Fault
    /\ Finish(FALSE)
    /\ UNCHANGED <<gw, cache, epic, tls, class, changes>>

\* Two slips: the finalizer is removed whether or not the copy is current; it
\* stays where it is.
RemoveFinalizerForced ==
    /\ pc = "unfinalize"
    /\ pc' = "delete"
    /\ gw' = IF obj.held /\ gw.deleting THEN NoGateway ELSE [gw EXCEPT !.held = @ /\ ~obj.held]
    /\ UNCHANGED <<cache, epic, world, changes, faults, queued, obj, kids>>

RemoveFinalizerSkipped ==
    /\ pc = "unfinalize"
    /\ Goto("delete")
    /\ UNCHANGED <<gw, cache, epic, world, changes, faults>>

\* Ours is the only finalizer, so a Gateway that is marked for deletion is gone
\* without it.  A failure is only logged; obj becomes the last copy read.
RemoveFinalizer ==
    /\ pc = "unfinalize"
    /\ pc' = "delete"
    /\ \/ /\ ~obj.held \/ ~Exists(cache)
          /\ UNCHANGED <<gw, obj>>
       \/ /\ obj.held
          /\ Current
          /\ gw' = IF gw.deleting THEN NoGateway ELSE [gw EXCEPT !.held = FALSE]
          /\ obj' = [cache EXCEPT !.held = FALSE]
       \/ /\ obj.held
          /\ Exists(cache) /\ GivesUp
          /\ obj' = [cache EXCEPT !.held = FALSE]
          /\ UNCHANGED gw
    /\ UNCHANGED <<cache, epic, world, changes, faults, queued, kids>>

\* DELETE of the link; deleting what is not there is a 404, thus an error.
Delete ==
    /\ pc = "delete"
    /\ epic' = epic \ {obj.link}
    /\ \/ Finish(Linked(obj) /\ obj.link \notin epic) /\ NoFault
       \/ Linked(obj) /\ Finish(TRUE) /\ Fault
    /\ UNCHANGED <<gw, cache, world, changes>>

Reconcile ==
    \/ GetGateway \/ AddFinalizer \/ Children \/ Announce \/ Refuse
    \/ AddEpicLink \/ MarkAddresses \/ UpdateStatus \/ NudgeChildren
    \/ RemoveFinalizer \/ Delete

\* Any call may fail without an effect.  A failed announcement is reported to
\* the user, a failure to remove the finalizer is not returned.
CallFails ==
    /\ pc \notin {"idle", "nudge", "refuse"}
    /\ Fault
    /\ CASE pc = "announce"   -> Goto("refuse")
         [] pc = "unfinalize" -> Goto("delete")
         [] OTHER             -> Finish(TRUE)
    /\ UNCHANGED <<gw, cache, epic, world, changes>>

\* The manager dies and is restarted: the informers list everything anew.
Crash ==
    /\ Fault
    /\ pc' = "idle"
    /\ obj' = NoGateway
    /\ kids' = FALSE
    /\ cache' = gw
    /\ queued' = Exists(gw)
    /\ child' = [child EXCEPT !.queued = child.exists]
    /\ UNCHANGED <<gw, epic, tls, class, changes>>

-----------------------------------------------------------------------------
(* What happens around the worker.                                         *)

Sync ==
    /\ cache # gw
    /\ cache' = gw
    /\ queued' = TRUE
    /\ UNCHANGED <<gw, epic, world, changes, faults, pc, obj, kids>>

\* The informer's periodic resync, or the nudge of a GatewayClassConfig.
Touch ==
    /\ Exists(cache)
    /\ ~queued
    /\ queued' = TRUE
    /\ UNCHANGED <<gw, cache, epic, world, changes, faults, pc, obj, kids>>

\* The child's reconciler: without the parent it tries again later.
ChildReconcile ==
    /\ child.queued
    /\ Exists(cache)
    /\ child' = [child EXCEPT !.queued = FALSE, !.parent = cache.uid]
    /\ UNCHANGED <<gw, cache, epic, tls, class, changes, faults, worker>>

Change(op) ==
    /\ op \in UserOps
    /\ changes < MaxChanges
    /\ changes' = changes + 1
    /\ UNCHANGED <<cache, epic, faults, worker>>

CreateGateway ==
    /\ ~Exists(gw)
    /\ Change("createGateway")
    /\ gw' = [NoGateway EXCEPT !.uid = changes']
    /\ UNCHANGED world

DeleteGateway ==
    /\ Live
    /\ Change("deleteGateway")
    /\ gw' = IF gw.held THEN [gw EXCEPT !.deleting = TRUE] ELSE NoGateway
    /\ UNCHANGED world

SetTLS ==
    /\ Change("setTLS")
    /\ tls' = ~tls
    /\ UNCHANGED <<gw, class, child>>

SetClass ==
    /\ Change("setClass")
    /\ class' \in Classes \ {class}
    /\ UNCHANGED <<gw, tls, child>>

CreateChild ==
    /\ ~child.exists
    /\ Change("createChild")
    /\ child' = [child EXCEPT !.exists = TRUE, !.queued = TRUE]
    /\ UNCHANGED <<gw, tls, class>>

User == CreateGateway \/ DeleteGateway \/ SetTLS \/ SetClass \/ CreateChild

Next == Reconcile \/ CallFails \/ Crash \/ Sync \/ Touch \/ ChildReconcile \/ User

Spec == Init /\ [][Next]_vars

\* As in RouteLifecycle.  The child has no resync here, so that what is shown
\* of it is the work of the nudges.
Fairness ==
    /\ WF_vars(Reconcile)
    /\ WF_vars(Sync)
    /\ WF_vars(Touch)
    /\ WF_vars(ChildReconcile)

FairSpec == Spec /\ Fairness

-----------------------------------------------------------------------------
(* What must hold.                                                         *)

\* Every variable stays in its type.
TypeOK ==
    /\ gw \in Gateways
    /\ cache \in Gateways
    /\ epic \subseteq Stamps
    /\ tls \in BOOLEAN
    /\ class \in Classes
    /\ child \in [exists: BOOLEAN, queued: BOOLEAN, parent: Stamps]
    /\ changes \in Stamps
    /\ faults \in 0..MaxFaults
    /\ queued \in BOOLEAN
    /\ pc \in Pcs
    /\ obj \in Gateways
    /\ kids \in BOOLEAN

\* The link annotation of a Gateway is the link that EPIC issued for that very
\* object, never one left over from a deleted namesake (addEpicLink patches by
\* name).
LinkOwner == Linked(gw) => gw.link = gw.uid

\* Seen from outside, the reconciler is a mirror of the Gateway: EPIC gets a
\* resource only for a Gateway that exists and carries the finalizer, and the
\* finalizer goes only from one that is marked for deletion.
Mirror == INSTANCE EpicMirror
          WITH Uids <- Stamps, live <- gw.uid, guarded <- gw.held,
               doomed <- gw.deleting, held <- epic
MirrorsGateway == Mirror!Spec

\* As long as nothing has failed nothing is left behind at EPIC: each resource is the one
\* its live Gateway links to, or the worker is about to add that link or to
\* delete the resource.
NoOrphan ==
    faults = 0 => \A u \in epic :
       \/ gw.uid = u /\ gw.link = u
       \/ pc = "link" /\ obj.uid = u /\ gw.uid = u
       \/ pc = "delete" /\ obj.link = u

\* Once the user stops, a live Gateway of ours has been announced and says so,
\* or says that its TLS configuration is invalid.
EventuallyAnnounced ==
    <>[](Live /\ class = "ours" =>
            IF tls
            THEN gw.uid \in epic /\ Linked(gw) /\ gw.status = "programmed"
            ELSE gw.status = "invalid")

\* An announced Gateway gets its addresses ("Add the allocated IP and hostname
\* to the GW status").
EventuallyAddressed == <>[](Live /\ Linked(gw) => gw.addressed)

\* EPIC's copy of the child comes to refer to the Gateway that exists, also
\* after it was deleted and created anew ("The new GW has a different UID so
\* the EPIC GWRoutes won't link to the new GWGateway").
EventuallyNudged ==
    <>[](Live /\ Linked(gw) /\ child.exists => child.parent = gw.uid)

\* Deleting a Gateway never blocks ("ensure that we don't block the resource
\* from being deleted").
EventuallyReleased == []<>~gw.deleting
=============================================================================
