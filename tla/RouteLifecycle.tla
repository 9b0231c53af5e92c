----------------------------- MODULE RouteLifecycle -----------------------------
(***************************************************************************)
(* One HTTPRoute, the manager's HTTPRouteReconciler that mirrors it into   *)
(* the EPIC server, and everything that can happen around it.              *)
(*                                                                         *)
(* The reconciler is one worker that is handed the route's name, reads the *)
(* route from the informer cache, and walks through Reconcile one call at  *)
(* a time: between any two calls the user, the node agents, the informer   *)
(* and the failures may act.  The cache may lag behind the API server; an  *)
(* Update made from a lagging copy is a conflict, a JSON patch is not.     *)
(*                                                                         *)
(* Every object that is created gets the number of the change that created *)
(* it as its UID, and every edit of the route's spec the number of the     *)
(* change as its generation, so one counter (changes, up to MaxChanges)    *)
(* bounds what the user does; faults (up to MaxFaults) bounds the errors,  *)
(* lost replies and crashes.  The EPIC server keeps one resource per       *)
(* client UID and answers a second POST with 409 and the resource's        *)
(* location: a self link is represented by the UID it was issued for.      *)
(***************************************************************************)
EXTENDS Naturals

CONSTANTS
    ParentCount,   \* the number of parentRefs of the route
    MaxChanges,    \* bound: changes made by the user
    MaxFaults,     \* bound: failed calls, lost replies and crashes
    UserOps        \* the kinds of change that the user makes

Ops == {"createRoute", "deleteRoute", "editRoute", "createGateway",
        "deleteGateway", "setPolicy", "createService", "deleteService"}

ASSUME CountsAssumption == /\ ParentCount \in Nat \ {0}
                           /\ MaxChanges \in Nat \ {0}
                           /\ MaxFaults \in Nat
ASSUME UserOpsAssumption == UserOps \subseteq Ops

VARIABLES
    route,     \* the HTTPRoute at the API server
    cache,     \* the manager's informer copy of it
    gws,       \* the Gateways that the parentRefs name
    svc,       \* the UID of the backend Service, 0 if it is missing or not permitted
    epic,      \* EPIC's route resources, by client UID
    changes,   \* changes made so far; the source of UIDs and generations
    faults,    \* failures so far
    queued,    \* the route's name is in the work queue
    pc,        \* the call that the worker makes next
    obj,       \* the worker's local route
    body       \* the RouteSpec that the worker is about to send

cluster == <<gws, svc>>
worker == <<queued, pc, obj, body>>
vars == <<route, cache, gws, svc, epic, changes, faults, queued, pc, obj, body>>

Parents == 1..ParentCount
Stamps == 0..MaxChanges
Finalizers == {"manager", "agent"}
Policies == {"allows", "rejects", "foreign"}
Statuses == {"none", "accepted", "rejected", "unresolved"}
MarkPcs == {"accept", "reject", "unresolved"}
Pcs == MarkPcs \cup {"idle", "parents", "finalize", "resolve", "send", "link",
                     "withdraw", "unlink", "unfinalize", "delete"}

Routes == [uid: Stamps, gen: Stamps, deleting: BOOLEAN, fin: SUBSET Finalizers,
           link: Stamps, status: Statuses]
Bodies == [gen: Stamps, parents: [Parents -> Stamps], svc: Stamps]

\* UID 0 stands for an object that does not exist.
NoRoute == [uid |-> 0, gen |-> 0, deleting |-> FALSE, fin |-> {}, link |-> 0,
            status |-> "none"]
NoBody == [gen |-> 0, parents |-> [i \in Parents |-> 0], svc |-> 0]

Exists(r) == r.uid # 0
Held(r) == "manager" \in r.fin
Linked(r) == r.link # 0
Stored(u) == epic[u] # NoBody

\* The API server removes an object that is marked for deletion when its
\* last finalizer goes.
Without(r, f) ==
    IF r.deleting /\ r.fin \subseteq {f} THEN NoRoute ELSE [r EXCEPT !.fin = @ \ {f}]

\* A slip to try the properties on: only the last parentRef decides.
MissingLastParent == gws[ParentCount].uid = 0

MissingParent == \E i \in Parents : gws[i].uid = 0
MissingService == svc = 0

\* The route's spec with parent and backend names replaced by UIDs.
AnnouncedRoute(r) ==
    [gen |-> r.gen, parents |-> [i \in Parents |-> gws[i].uid], svc |-> svc]

-----------------------------------------------------------------------------
(* The ways a call of Reconcile goes on or ends.                           *)

Goto(label) == pc' = label /\ UNCHANGED <<queued, obj, body>>

\* TryAgain and an error both put the name back in the queue, Done does not.
Finish(again) ==
    /\ pc' = "idle"
    /\ queued' = (queued \/ again)
    /\ obj' = NoRoute
    /\ body' = NoBody

Fault == faults < MaxFaults /\ faults' = faults + 1
NoFault == UNCHANGED faults

Init ==
    /\ route = NoRoute
    /\ cache = NoRoute
    /\ gws = [i \in Parents |-> [uid |-> 1, policy |-> "allows"]]
    /\ svc = 1
    /\ epic = [u \in Stamps |-> NoBody]
    /\ changes = 1
    /\ faults = 0
    /\ queued = FALSE
    /\ pc = "idle"
    /\ obj = NoRoute
    /\ body = NoBody

-----------------------------------------------------------------------------
(* The worker: Reconcile, one action per call.                             *)

GetRoute ==
    /\ pc = "idle"
    /\ queued
    /\ queued' = FALSE
    /\ obj' = cache
    /\ pc' = CASE ~Exists(cache)  -> "idle"
               [] cache.deleting  -> "unfinalize"
               [] OTHER           -> "parents"
    /\ UNCHANGED <<route, cache, cluster, epic, changes, faults, body>>

\* The first pass over the parentRefs stops at the first parent that is
\* missing (TryAgain), belongs to another controller (Done), or does not
\* let the route attach (mark the status, Done).
Blocks(i) == gws[i].uid = 0 \/ gws[i].policy # "allows"

CheckParents ==
    /\ pc = "parents"
    /\ \/ /\ \A i \in Parents : ~Blocks(i)
          /\ Goto("finalize")
       \/ \E i \in Parents :
             /\ Blocks(i)
             /\ \A j \in 1..(i - 1) : ~Blocks(j)
             /\ \/ gws[i].uid = 0 /\ Finish(TRUE)
                \/ gws[i].uid # 0 /\ gws[i].policy = "foreign" /\ Finish(FALSE)
                \/ gws[i].uid # 0 /\ gws[i].policy = "rejects" /\ Goto("reject")
    /\ UNCHANGED <<route, cache, cluster, epic, changes, faults>>

\* The finalizer is added to a fresh copy from the cache; the update goes
\* through only if that copy is current and not marked for deletion.  If the
\* retries are exhausted, Reconcile returns the error.
CanAddFinalizer == cache = route /\ Exists(route) /\ ~route.deleting

\* Two slips: the finalizer is forgotten; it is patched onto whatever object
\* has the name, and the worker goes on with the copy that it had.
AddFinalizerSkipped ==
    /\ pc = "finalize"
    /\ Goto("resolve")
    /\ UNCHANGED <<route, cache, cluster, epic, changes, faults>>

AddFinalizerByPatch ==
    /\ pc = "finalize"
    /\ IF Exists(route) /\ ~route.deleting
       THEN route' = [route EXCEPT !.fin = @ \cup {"manager"}] /\ Goto("resolve")
       ELSE UNCHANGED route /\ Finish(TRUE)
    /\ UNCHANGED <<cache, cluster, epic, changes, faults>>

AddFinalizer ==
    /\ pc = "finalize"
    /\ \/ /\ Held(obj)
          /\ Goto("resolve")
          /\ UNCHANGED route
       \/ /\ ~Held(obj)
          /\ CanAddFinalizer
          /\ route' = [route EXCEPT !.fin = @ \cup {"manager"}]
          /\ obj' = route'
          /\ pc' = "resolve"
          /\ UNCHANGED <<queued, body>>
       \/ /\ ~Held(obj)
          /\ ~CanAddFinalizer
          /\ Finish(TRUE)
          /\ UNCHANGED route
    /\ UNCHANGED <<cache, cluster, epic, changes, faults>>

\* The second pass: replace names by UIDs and decide what to do.
Resolve ==
    /\ pc = "resolve"
    /\ \/ /\ ~MissingParent /\ ~MissingService
          /\ body' = AnnouncedRoute(obj)
          /\ pc' = "send"
          /\ UNCHANGED <<queued, obj>>
       \/ /\ MissingParent \/ MissingService
          /\ Linked(obj)
          /\ Goto("withdraw")
       \/ /\ MissingService
          /\ ~Linked(obj)
          /\ Goto("unresolved")
       \/ /\ MissingParent /\ ~MissingService
          /\ ~Linked(obj)
          /\ Finish(TRUE)
    /\ UNCHANGED <<route, cache, cluster, epic, changes, faults>>

\* PUT to the link; EPIC answers 404 if it has no such resource.  A reply
\* may be lost after EPIC has done its part.
UpdateRoute ==
    /\ pc = "send"
    /\ Linked(obj)
    /\ \/ /\ ~Stored(obj.link)
          /\ Finish(TRUE)
          /\ NoFault
          /\ UNCHANGED epic
       \/ /\ Stored(obj.link)
          /\ epic' = [epic EXCEPT ![obj.link] = body]
          /\ \/ Finish(FALSE) /\ NoFault
             \/ Finish(TRUE) /\ Fault
    /\ UNCHANGED <<route, cache, cluster, changes>>

\* POST; if EPIC already has a resource for this client UID then the reply
\* is 409 and that resource is fetched as it is.
AnnounceRoute ==
    /\ pc = "send"
    /\ ~Linked(obj)
    /\ epic' = IF Stored(obj.uid) THEN epic ELSE [epic EXCEPT ![obj.uid] = body]
    /\ \/ Goto("link") /\ NoFault
       \/ Finish(TRUE) /\ Fault
    /\ UNCHANGED <<route, cache, cluster, changes>>

\* A JSON patch that names the route, whatever its version.
AddEpicLink ==
    /\ pc = "link"
    /\ \/ /\ Exists(route)
          /\ route' = [route EXCEPT !.link = obj.uid]
          /\ obj' = route'
          /\ pc' = "accept"
          /\ UNCHANGED <<queued, body>>
       \/ /\ ~Exists(route)
          /\ Finish(TRUE)
          /\ UNCHANGED route
    /\ UNCHANGED <<cache, cluster, epic, changes, faults>>

\* A slip: the name of the call is written for the status.
StatusUnmapped(label) == label

\* The status is written to a fresh copy from the cache; if the retries on
\* conflict are exhausted Reconcile returns the error.
StatusFor(label) ==
    CASE label = "accept" -> "accepted"
      [] label = "reject" -> "rejected"
      [] OTHER            -> "unresolved"

MarkRouteConditions ==
    /\ pc \in MarkPcs
    /\ \/ /\ cache = route
          /\ Exists(route)
          /\ route' = [route EXCEPT !.status = StatusFor(pc)]
          /\ Finish(pc = "unresolved")
       \/ /\ cache # route \/ ~Exists(cache)
          /\ Finish(TRUE)
          /\ UNCHANGED route
    /\ UNCHANGED <<cache, cluster, epic, changes, faults>>

\* DELETE of the link; deleting what is not there is a 404, thus an error.
EpicDelete(next) ==
    \/ /\ ~Stored(obj.link)
       /\ Finish(TRUE)
       /\ NoFault
       /\ UNCHANGED epic
    \/ /\ Stored(obj.link)
       /\ epic' = [epic EXCEPT ![obj.link] = NoBody]
       /\ \/ next /\ NoFault
          \/ Finish(TRUE) /\ Fault

Withdraw ==
    /\ pc = "withdraw"
    /\ EpicDelete(Goto("unlink"))
    /\ UNCHANGED <<route, cache, cluster, changes>>

\* A slip: a withdrawn route is thought not to need its finalizer.
RemoveEpicLinkAndFinalizer ==
    /\ pc = "unlink"
    /\ route' = [route EXCEPT !.link = 0, !.fin = @ \ {"manager"}]
    /\ Finish(TRUE)
    /\ UNCHANGED <<cache, cluster, epic, changes, faults>>

\* A JSON patch; removing an annotation that is not there is an error.  Both
\* ways the name goes back to the queue.
RemoveEpicLink ==
    /\ pc = "unlink"
    /\ route' = IF Linked(route) THEN [route EXCEPT !.link = 0] ELSE route
    /\ Finish(TRUE)
    /\ UNCHANGED <<cache, cluster, epic, changes, faults>>

\* A slip: the finalizer is removed whether or not the copy is current.
RemoveFinalizerForced ==
    /\ pc = "unfinalize"
    /\ pc' = "delete"
    /\ route' = IF Held(obj) THEN Without(route, "manager") ELSE route
    /\ UNCHANGED <<cache, cluster, epic, changes, faults, queued, obj, body>>

\* Cleaning up: the finalizer goes first, and its failure is only logged.
\* The local route becomes the last copy that was read.
RemoveFinalizer ==
    /\ pc = "unfinalize"
    /\ pc' = "delete"
    /\ \/ /\ ~Held(obj) \/ ~Exists(cache)
          /\ UNCHANGED <<route, obj>>
       \/ /\ Held(obj)
          /\ Exists(cache)
          /\ cache = route
          /\ route' = Without(route, "manager")
          /\ obj' = [cache EXCEPT !.fin = @ \ {"manager"}]
       \/ /\ Held(obj)
          /\ Exists(cache)
          /\ cache # route
          /\ obj' = [cache EXCEPT !.fin = @ \ {"manager"}]
          /\ UNCHANGED route
    /\ UNCHANGED <<cache, cluster, epic, changes, faults, queued, body>>

\* A slip: the resource at EPIC is forgotten.
MaybeDeleteSkipped ==
    /\ pc = "delete"
    /\ Finish(FALSE)
    /\ UNCHANGED <<route, cache, cluster, epic, changes, faults>>

MaybeDelete ==
    /\ pc = "delete"
    /\ \/ /\ ~Linked(obj)
          /\ Finish(FALSE)
          /\ NoFault
          /\ UNCHANGED epic
       \/ /\ Linked(obj)
          /\ EpicDelete(Finish(FALSE))
    /\ UNCHANGED <<route, cache, cluster, changes>>

Reconcile ==
    \/ GetRoute \/ CheckParents \/ AddFinalizer \/ Resolve
    \/ UpdateRoute \/ AnnounceRoute \/ AddEpicLink \/ MarkRouteConditions
    \/ Withdraw \/ RemoveEpicLink \/ RemoveFinalizer \/ MaybeDelete

\* Any call may fail without an effect.  Only the failure to remove the
\* finalizer is not returned.
CallFails ==
    /\ pc # "idle"
    /\ Fault
    /\ IF pc = "unfinalize" THEN Goto("delete") ELSE Finish(TRUE)
    /\ UNCHANGED <<route, cache, cluster, epic, changes>>

\* The manager dies and is restarted: the informer lists everything anew.
Crash ==
    /\ Fault
    /\ pc' = "idle"
    /\ obj' = NoRoute
    /\ body' = NoBody
    /\ cache' = route
    /\ queued' = Exists(route)
    /\ UNCHANGED <<route, cluster, epic, changes>>

-----------------------------------------------------------------------------
(* What happens around the worker.                                         *)

\* The informer catches up, which is an event for the controller.
Sync ==
    /\ cache # route
    /\ cache' = route
    /\ queued' = TRUE
    /\ UNCHANGED <<route, cluster, epic, changes, faults, pc, obj, body>>

\* An event that does not change what is modelled of the route: the nudge of
\* a Gateway, the informer's periodic resync.
Touch ==
    /\ Exists(cache)
    /\ ~queued
    /\ queued' = TRUE
    /\ UNCHANGED <<route, cache, cluster, epic, changes, faults, pc, obj, body>>

\* A node agent adds its own finalizer, and removes it when the route is
\* marked for deletion.
AgentHolds ==
    /\ Exists(route)
    /\ ~route.deleting
    /\ "agent" \notin route.fin
    /\ route' = [route EXCEPT !.fin = @ \cup {"agent"}]
    /\ UNCHANGED <<cache, cluster, epic, changes, faults, worker>>

AgentReleases ==
    /\ route.deleting
    /\ "agent" \in route.fin
    /\ route' = Without(route, "agent")
    /\ UNCHANGED <<cache, cluster, epic, changes, faults, worker>>

Change(op) ==
    /\ op \in UserOps
    /\ changes < MaxChanges
    /\ changes' = changes + 1
    /\ UNCHANGED <<cache, epic, faults, worker>>

CreateRoute ==
    /\ ~Exists(route)
    /\ Change("createRoute")
    /\ route' = [NoRoute EXCEPT !.uid = changes', !.gen = changes']
    /\ UNCHANGED cluster

DeleteRoute ==
    /\ Exists(route)
    /\ ~route.deleting
    /\ Change("deleteRoute")
    /\ route' = IF route.fin = {} THEN NoRoute ELSE [route EXCEPT !.deleting = TRUE]
    /\ UNCHANGED cluster

EditRoute ==
    /\ Exists(route)
    /\ ~route.deleting
    /\ Change("editRoute")
    /\ route' = [route EXCEPT !.gen = changes']
    /\ UNCHANGED cluster

CreateGateway(i) ==
    /\ gws[i].uid = 0
    /\ Change("createGateway")
    /\ gws' = [gws EXCEPT ![i] = [uid |-> changes', policy |-> "allows"]]
    /\ UNCHANGED <<route, svc>>

DeleteGateway(i) ==
    /\ gws[i].uid # 0
    /\ Change("deleteGateway")
    /\ gws' = [gws EXCEPT ![i] = [uid |-> 0, policy |-> "allows"]]
    /\ UNCHANGED <<route, svc>>

SetPolicy(i, policy) ==
    /\ gws[i].uid # 0
    /\ gws[i].policy # policy
    /\ Change("setPolicy")
    /\ gws' = [gws EXCEPT ![i].policy = policy]
    /\ UNCHANGED <<route, svc>>

CreateService ==
    /\ svc = 0
    /\ Change("createService")
    /\ svc' = changes'
    /\ UNCHANGED <<route, gws>>

DeleteService ==
    /\ svc # 0
    /\ Change("deleteService")
    /\ svc' = 0
    /\ UNCHANGED <<route, gws>>

User ==
    \/ CreateRoute \/ DeleteRoute \/ EditRoute
    \/ \E i \in Parents :
          \/ CreateGateway(i)
          \/ DeleteGateway(i)
          \/ \E policy \in Policies : SetPolicy(i, policy)
    \/ CreateService \/ DeleteService

Next ==
    \/ Reconcile \/ CallFails \/ Crash
    \/ Sync \/ Touch \/ AgentHolds \/ AgentReleases
    \/ User

Spec == Init /\ [][Next]_vars

\* The controller keeps working, the informer keeps up, the resync comes
\* round, and the agents are alive.  Nothing is assumed of the user or of the
\* failures but that both are bounded.
Fairness ==
    /\ WF_vars(Reconcile)
    /\ WF_vars(Sync)
    /\ WF_vars(Touch)
    /\ WF_vars(AgentReleases)

FairSpec == Spec /\ Fairness

-----------------------------------------------------------------------------
(* What must hold.                                                         *)

\* Every variable stays in its type.
TypeOK ==
    /\ route \in Routes
    /\ cache \in Routes
    /\ gws \in [Parents -> [uid: Stamps, policy: Policies]]
    /\ svc \in Stamps
    /\ epic \in [Stamps -> Bodies]
    /\ changes \in Stamps
    /\ faults \in 0..MaxFaults
    /\ queued \in BOOLEAN
    /\ pc \in Pcs
    /\ obj \in Routes
    /\ body \in Bodies

\* The link annotation of a route is the link that EPIC issued for that very
\* object, never one left over from a deleted namesake: addEpicLink patches
\* by name, so only the finalizer keeps the object in place meanwhile.
LinkOwner == Linked(route) => route.link = route.uid

\* As long as EPIC has a resource for a route that is not being deleted, our
\* finalizer is on that route, whatever fails and whenever the manager dies:
\* the route cannot go without the reconciler seeing it.
Protected ==
    \A u \in Stamps :
       Stored(u) /\ route.uid = u /\ ~route.deleting => Held(route)

\* From the moment the finalizer is on, the route that the worker holds is the
\* one at the API server, though it was read from a cache that lags.
WorkerHolds ==
    pc \in {"resolve", "send", "link", "withdraw", "unlink"} =>
       /\ Exists(obj)
       /\ route.uid = obj.uid
       /\ Held(route)

\* Seen from outside, the reconciler is a mirror of the route in the sense of
\* EpicMirror.  Among others, EPIC is never given a resource for a route that is
\* gone or not protected, so that a late announcement cannot bring back what a
\* deletion cleaned up.
Mirror == INSTANCE EpicMirror
          WITH Uids <- Stamps, live <- route.uid, guarded <- Held(route),
               doomed <- route.deleting, held <- {u \in Stamps : Stored(u)}
MirrorsRoute == Mirror!Spec

\* As long as nothing has failed nothing is left behind at EPIC: each resource is
\* the one its live route links to, or the worker is about to add that link or to
\* delete the resource.
NoOrphan ==
    faults = 0 => \A u \in Stamps : Stored(u) =>
       \/ route.uid = u /\ route.link = u
       \/ pc = "link" /\ obj.uid = u /\ route.uid = u
       \/ pc = "delete" /\ obj.link = u

\* EPIC never has a spec in which a parent or the Service is unresolved, as
\* the two passes over the references must both be complete.
AnnouncedComplete ==
    \A u \in Stamps : Stored(u) =>
       /\ \A i \in Parents : epic[u].parents[i] # 0
       /\ epic[u].svc # 0

\* EPIC agrees with the cluster about a live route that all of its parents
\* accept: it has the current spec with the current UIDs under the annotated
\* link, or nothing while the Service is missing.
Live == Exists(route) /\ ~route.deleting
InSync ==
    Live /\ (\A i \in Parents : ~Blocks(i)) =>
       IF MissingService
       THEN ~Stored(route.uid) /\ ~Linked(route)
       ELSE epic[route.uid] = AnnouncedRoute(route) /\ route.link = route.uid

\* Once the user stops changing things, EPIC comes to agree with the cluster.
EventuallyInSync == <>[]InSync

\* When a route has been deleted, its EPIC resource goes too ("Delete the EPIC
\* resource if it was announced").
EventuallyCleaned == \A u \in Stamps : []<>(Stored(u) => route.uid = u)
=============================================================================
