------------------------------ MODULE SliceShadow ------------------------------
(***************************************************************************)
(* The EndpointSlices behind one route, mirrored into the EPIC server by   *)
(* two reconcilers that share a process but no lock.                       *)
(*                                                                         *)
(* The route's reconciler announces slices (announceSlices, as a part of   *)
(* each pass over the route) and leaves an EndpointSliceShadow with the    *)
(* link, because Kubernetes may remove finalizers and annotations from the *)
(* slice itself.  The EndpointSliceReconciler acts on the events of a      *)
(* slice, and only if there is a shadow of the slice's name: it updates    *)
(* EPIC, and when the slice is gone it deletes EPIC's resource and then    *)
(* the shadow.  Nothing but the slices themselves is watched by it, and    *)
(* the slices are not watched for the route.                               *)
(*                                                                         *)
(* Both read slices and shadows from informer caches that lag.  A slice's  *)
(* name is generated by Kubernetes and never used twice, so it also stands *)
(* for its UID and for its link; a version of a slice is the number of the *)
(* change that made it, and 0 if there is none.                            *)
(***************************************************************************)
EXTENDS Naturals, FiniteSets

CONSTANTS
    Backends,    \* for each Service that the route refers to, its slices
    MaxChanges,  \* bound: changes made to slices
    MaxFaults    \* bound: failed calls, lost replies and crashes

ASSUME BackendsAssumption ==
    /\ IsFiniteSet(Backends)
    /\ \A b \in Backends : IsFiniteSet(b)
    /\ \A b, c \in Backends : b # c => b \cap c = {}
ASSUME BoundsAssumption == MaxChanges \in Nat \ {0} /\ MaxFaults \in Nat

VARIABLES
    slice,       \* the version of each slice at the API server
    seen,        \* the manager's informer copy of it
    used,        \* the names of slices that have existed
    broken,      \* the versions with an endpoint on no node, or without an owner
    shadow,      \* the slices that have a shadow at the API server
    seenShadow,  \* the manager's informer copy of it
    epic,        \* the version of each slice that EPIC has
    changes, faults,
    rpc,         \* the route's reconciler: the call that it makes next
    todo,        \* how many pointers to each slice are left in its list
    read,        \* the versions that the pointers had when the list was made
    at,          \* the set of the slice that it is at
    queue,       \* the slices with an event for the EndpointSliceReconciler
    spc, cur,    \* the call that it makes next, and the set of its slice
    version      \* the version that it is about to send

Slices == UNION Backends
Versions == 0..MaxChanges
RoutePcs == {"idle", "check", "post", "shadow"}
SlicePcs == {"idle", "get", "put", "delete", "unshadow"}

world == <<slice, used, broken, changes>>
caches == <<seen, seenShadow>>
announcer == <<rpc, todo, read, at>>
updater == <<queue, spc, cur, version>>
vars == <<world, caches, shadow, epic, faults, announcer, updater>>

NoVersions == [s \in Slices |-> 0]

Fault == faults < MaxFaults /\ faults' = faults + 1
NoFault == UNCHANGED faults

Init ==
    /\ slice = NoVersions
    /\ seen = NoVersions
    /\ used = {}
    /\ broken = {}
    /\ shadow = {}
    /\ seenShadow = {}
    /\ epic = NoVersions
    /\ changes = 0
    /\ faults = 0
    /\ rpc = "idle"
    /\ todo = NoVersions
    /\ read = NoVersions
    /\ at = {}
    /\ queue = {}
    /\ spc = "idle"
    /\ cur = {}
    /\ version = 0

-----------------------------------------------------------------------------
(* The route's reconciler: announceSlices, called in every complete pass.  *)

EndPass == rpc' = "idle" /\ todo' = NoVersions /\ read' = NoVersions /\ at' = {}

\* Both reconcilers describe a slice to EPIC by the nodes of its endpoints and by
\* its first owner, without asking whether there is one: a nil pointer, and an
\* index out of range.
Describable(v) == v \notin broken

\* The manager dies and is restarted: the informers list everything anew.
Die ==
    /\ EndPass
    /\ seen' = slice
    /\ seenShadow' = shadow
    /\ queue' = {s \in Slices : slice[s] # 0}
    /\ spc' = "idle"
    /\ cur' = {}
    /\ version' = 0
    /\ UNCHANGED <<world, shadow, epic>>

\* On with the next pointer in the list.
Continue ==
    LET rest == [s \in Slices |-> IF s \in at THEN todo[s] - 1 ELSE todo[s]]
    IN  IF rest = NoVersions
        THEN EndPass
        ELSE rpc' = "check" /\ todo' = rest /\ at' = {} /\ UNCHANGED read

\* The list of pointers has one for each slice that a List of its Service
\* returned, but they are all pointers to the loop's variable, and so to the
\* slice that came last.  The order of a List from the cache is arbitrary.
Pointers(s, last) ==
    IF s \in last
    THEN Cardinality({t \in Slices : seen[t] # 0 /\ \E b \in Backends : {s, t} \subseteq b})
    ELSE 0

RouteSlices ==
    /\ rpc = "idle"
    /\ \E last \in SUBSET {s \in Slices : seen[s] # 0} :
          /\ last # {}
          /\ \A b \in Backends :
                Cardinality(last \cap b) = IF \E s \in b : seen[s] # 0 THEN 1 ELSE 0
          /\ todo' = [s \in Slices |-> Pointers(s, last)]
    /\ rpc' = "check"
    /\ read' = seen
    /\ at' = {}
    /\ UNCHANGED <<world, caches, shadow, epic, faults, updater>>

HasBeenAnnounced ==
    /\ rpc = "check"
    /\ \E s \in Slices :
          /\ todo[s] # 0
          /\ IF s \in seenShadow
             THEN LET rest == [todo EXCEPT ![s] = @ - 1]
                  IN  IF rest = NoVersions
                      THEN EndPass
                      ELSE todo' = rest /\ UNCHANGED <<rpc, read, at>>
             ELSE /\ rpc' = "post"
                  /\ at' = {s}
                  /\ UNCHANGED <<todo, read>>
    /\ UNCHANGED <<world, caches, shadow, epic, faults, updater>>

\* A slip: a conflict is answered with an update.
AnnounceSliceOverwrites ==
    /\ rpc = "post"
    /\ \/ /\ \A s \in at : Describable(read[s])
          /\ epic' = [s \in Slices |-> IF s \in at THEN read[s] ELSE epic[s]]
          /\ \/ rpc' = "shadow" /\ UNCHANGED <<todo, read, at>> /\ NoFault
             \/ Continue /\ Fault
          /\ UNCHANGED <<world, caches, shadow, updater>>
       \/ /\ \E s \in at : ~Describable(read[s])
          /\ Die
          /\ NoFault

\* POST; if EPIC has the slice then the reply is 409 and what EPIC has is
\* fetched.  An error is only logged.
AnnounceSlice ==
    /\ rpc = "post"
    /\ \/ /\ \A s \in at : Describable(read[s])
          /\ epic' = [s \in Slices |-> IF s \in at /\ epic[s] = 0 THEN read[s] ELSE epic[s]]
          /\ \/ rpc' = "shadow" /\ UNCHANGED <<todo, read, at>> /\ NoFault
             \/ Continue /\ Fault
          /\ UNCHANGED <<world, caches, shadow, updater>>
       \/ /\ \E s \in at : ~Describable(read[s])
          /\ Die
          /\ NoFault

\* A slip: the shadow is not created.
AddSliceEpicLinkSkipped ==
    /\ rpc = "shadow"
    /\ Continue
    /\ UNCHANGED <<world, caches, shadow, epic, faults, updater>>

\* Creating a shadow that exists is an error, which is only logged.
AddSliceEpicLink ==
    /\ rpc = "shadow"
    /\ shadow' = shadow \cup at
    /\ Continue
    /\ UNCHANGED <<world, caches, epic, faults, updater>>

AnnounceSlices == RouteSlices \/ HasBeenAnnounced \/ AnnounceSlice \/ AddSliceEpicLink

\* A call fails without an effect: reading a Node ends the pass, the errors of
\* EPIC and of the API server only end the turn of this slice.
AnnouncerCallFails ==
    /\ rpc \in {"post", "shadow"}
    /\ Fault
    /\ \/ Continue
       \/ rpc = "post" /\ EndPass
    /\ UNCHANGED <<world, caches, shadow, epic, updater>>

-----------------------------------------------------------------------------
(* The EndpointSliceReconciler.                                            *)

\* A slip: the slice is not let go of.
FinishKeepsSlice(again) ==
    /\ spc' = "idle"
    /\ version' = 0
    /\ queue' = IF again THEN queue \cup cur ELSE queue
    /\ UNCHANGED cur

Finish(again) ==
    /\ spc' = "idle"
    /\ cur' = {}
    /\ version' = 0
    /\ queue' = IF again THEN queue \cup cur ELSE queue

\* Without a shadow the slice is not interesting.
GetShadow(s) ==
    /\ spc = "idle"
    /\ s \in queue
    /\ queue' = queue \ {s}
    /\ IF s \in seenShadow
       THEN spc' = "get" /\ cur' = {s}
       ELSE UNCHANGED <<spc, cur>>
    /\ UNCHANGED <<world, caches, shadow, epic, faults, announcer, version>>

\* A slip: every slice that has an event is deleted.
GetSliceDeletes ==
    /\ spc = "get"
    /\ spc' = "delete"
    /\ UNCHANGED <<world, caches, shadow, epic, faults, announcer, queue, cur, version>>

GetSlice ==
    /\ spc = "get"
    /\ \E s \in cur :
          /\ spc' = IF seen[s] = 0 THEN "delete" ELSE "put"
          /\ version' = seen[s]
    /\ UNCHANGED <<world, caches, shadow, epic, faults, announcer, queue, cur>>

\* PUT, or DELETE if v is 0; EPIC answers 404 if it has no such slice.  A reply
\* may be lost after EPIC has done its part.
Send(v, next) ==
    \E s \in cur :
       \/ /\ epic[s] = 0
          /\ Finish(TRUE)
          /\ NoFault
          /\ UNCHANGED epic
       \/ /\ epic[s] # 0
          /\ epic' = [epic EXCEPT ![s] = v]
          /\ \/ next /\ NoFault
             \/ Finish(TRUE) /\ Fault

UpdateSlice ==
    /\ spc = "put"
    /\ \/ /\ Describable(version)
          /\ Send(version, Finish(FALSE))
          /\ UNCHANGED <<world, caches, shadow, announcer>>
       \/ /\ ~Describable(version)
          /\ Die
          /\ NoFault

EpicDelete ==
    /\ spc = "delete"
    /\ Send(0, spc' = "unshadow" /\ UNCHANGED <<queue, cur, version>>)
    /\ UNCHANGED <<world, caches, shadow, announcer>>

\* Deleting a shadow that is gone is an error.
DeleteShadow ==
    /\ spc = "unshadow"
    /\ shadow' = shadow \ cur
    /\ Finish(~(cur \subseteq shadow))
    /\ UNCHANGED <<world, caches, epic, faults, announcer>>

Update == GetSlice \/ UpdateSlice \/ EpicDelete \/ DeleteShadow

UpdaterCallFails ==
    /\ spc # "idle"
    /\ Fault
    /\ Finish(TRUE)
    /\ UNCHANGED <<world, caches, shadow, epic, announcer>>

-----------------------------------------------------------------------------
(* What happens around the reconcilers.                                    *)

\* The informers catch up.  A shadow is no event for anyone.
Sync(s) ==
    /\ seen[s] # slice[s]
    /\ seen' = [seen EXCEPT ![s] = slice[s]]
    /\ queue' = queue \cup {s}
    /\ UNCHANGED <<world, shadow, seenShadow, epic, faults, announcer, spc, cur, version>>

SyncShadow(s) ==
    /\ (s \in seenShadow) # (s \in shadow)
    /\ seenShadow' = IF s \in shadow THEN seenShadow \cup {s} ELSE seenShadow \ {s}
    /\ UNCHANGED <<world, seen, shadow, epic, faults, announcer, updater>>

\* The periodic resync delivers the slices that are there.
Touch(s) ==
    /\ seen[s] # 0
    /\ s \notin queue
    /\ queue' = queue \cup {s}
    /\ UNCHANGED <<world, caches, shadow, epic, faults, announcer, spc, cur, version>>

Crash == Fault /\ Die

\* The EndpointSlice controller of Kubernetes.
Change ==
    /\ changes < MaxChanges
    /\ changes' = changes + 1
    /\ UNCHANGED <<caches, shadow, epic, faults, announcer, updater>>

\* A new version may be one with an endpoint on no node, such as an address that
\* somebody else looks after.
CreateSlice(s) ==
    /\ s \notin used
    /\ Change
    /\ broken' \in {broken, broken \cup {changes'}}
    /\ used' = used \cup {s}
    /\ slice' = [slice EXCEPT ![s] = changes']

EditSlice(s) ==
    /\ slice[s] # 0
    /\ Change
    /\ broken' \in {broken, broken \cup {changes'}}
    /\ slice' = [slice EXCEPT ![s] = changes']
    /\ UNCHANGED used

DeleteSlice(s) ==
    /\ slice[s] # 0
    /\ Change
    /\ slice' = [slice EXCEPT ![s] = 0]
    /\ UNCHANGED <<used, broken>>

Next ==
    \/ AnnounceSlices \/ AnnouncerCallFails
    \/ Update \/ UpdaterCallFails \/ Crash
    \/ \E s \in Slices :
          \/ GetShadow(s) \/ Sync(s) \/ SyncShadow(s) \/ Touch(s)
          \/ CreateSlice(s) \/ EditSlice(s) \/ DeleteSlice(s)

Spec == Init /\ [][Next]_vars

\* The route is resynced now and then, so its reconciler makes passes; the work
\* queue is first in, first out, so no slice in it is passed over.
Fairness ==
    /\ WF_vars(AnnounceSlices)
    /\ WF_vars(Update)
    /\ \A s \in Slices :
          /\ SF_vars(GetShadow(s))
          /\ WF_vars(Sync(s))
          /\ WF_vars(SyncShadow(s))
          /\ WF_vars(Touch(s))

FairSpec == Spec /\ Fairness

-----------------------------------------------------------------------------
(* What must hold.                                                         *)

\* Every variable stays in its type, and there is only one slice at a time.
TypeOK ==
    /\ slice \in [Slices -> Versions]
    /\ seen \in [Slices -> Versions]
    /\ used \subseteq Slices
    /\ broken \subseteq Versions
    /\ shadow \subseteq Slices
    /\ seenShadow \subseteq Slices
    /\ epic \in [Slices -> Versions]
    /\ changes \in Versions
    /\ faults \in 0..MaxFaults
    /\ rpc \in RoutePcs
    /\ todo \in [Slices -> 0..Cardinality(Slices)]
    /\ read \in [Slices -> Versions]
    /\ at \in SUBSET Slices /\ Cardinality(at) = IF rpc \in {"post", "shadow"} THEN 1 ELSE 0
    /\ queue \subseteq Slices
    /\ spc \in SlicePcs
    /\ cur \in SUBSET Slices /\ Cardinality(cur) = IF spc = "idle" THEN 0 ELSE 1
    /\ version \in Versions

\* The shadow of a slice that exists has a link that works, whatever fails: the
\* EndpointSliceReconciler deletes at EPIC only what is gone for good.
LinkWorks == \A s \in shadow : slice[s] # 0 => epic[s] # 0

\* EPIC's copy of a slice never goes back to an older version, though two
\* reconcilers write it from caches that lag.
NeverBackwards ==
    [][\A s \in Slices : epic[s] # 0 /\ epic'[s] # 0 => epic[s] <= epic'[s]]_vars

\* As long as nothing has failed or been indescribable, a pass announces every
\* slice that the Lists returned and that still exists ("routeSlices returns all
\* of the slices that belong to all of the services referenced by route").
PassComplete ==
    [][rpc # "idle" /\ rpc' = "idle" /\ faults' = 0 /\ broken' = {} =>
          \A s \in Slices : read[s] # 0 /\ slice[s] # 0 => epic'[s] # 0]_vars

\* Once the slices stop changing, EPIC has the current version of each, unless
\* there is one among them that cannot be described, which makes the manager
\* panic anew after every restart.  One that was fixed or deleted does no harm.
EventuallyInSync ==
    <>[]((\A s \in Slices : slice[s] \notin broken) =>
            \A s \in Slices : slice[s] # 0 => epic[s] = slice[s] /\ s \in shadow)
=============================================================================
