------------------------------- MODULE RouteKinds -------------------------------
(***************************************************************************)
(* The lifecycle of a route of either kind.                                *)
(*                                                                         *)
(* TCPRoutes are reconciled by a copy of the reconciler for HTTPRoutes.    *)
(* It differs in what it says of a route: nothing when a reference is      *)
(* missing, and otherwise it writes the verdict to the HTTPRoute of the    *)
(* same name (the "namesake" here), which may be there or not, and which   *)
(* has a reconciler of its own.  An error of that write is returned.       *)
(*                                                                         *)
(* What is asked is whether a TCPRoute is served, and cleaned up after,    *)
(* as an HTTPRoute is, whatever becomes of these writes: the properties    *)
(* are those of RouteLifecycle.  The kinds also differ when the manager is *)
(* told to stop: then it takes its finalizer off the HTTPRoutes, live ones *)
(* included, and leaves it on the TCPRoutes.                               *)
(***************************************************************************)
EXTENDS RouteLifecycle

VARIABLES
    kind,      \* the kind of the route: "http" or "tcp"
    trouble,   \* what may go wrong in this run: "failures" of calls and crashes,
               \* "missing" references, or a "shutdown" of the manager
    manager,   \* "up", "stopping" or "down"
    namesake   \* who wrote the status of the HTTPRoute that has the name of our
               \* TCPRoute: "none" if there is no such HTTPRoute

kindVars == <<kind, trouble, manager, namesake>>
allVars == <<vars, kindVars>>

Kinds == {"http", "tcp"}
Writers == {"none", "itself", "tcproute"}

KindsInit ==
    /\ Init
    /\ kind \in Kinds
    /\ trouble \in {"failures", "missing", "shutdown"}
    /\ manager = "up"
    /\ namesake = "none"

-----------------------------------------------------------------------------
(* The TCPRouteReconciler.                                                 *)

\* The parents are read, and whatever is missing, of another controller or not
\* willing ends the pass, as for an HTTPRoute.
PrepareTCP == GetRoute \/ CheckParents \/ AddFinalizer

\* A missing Service gets no status.
ResolveTCP ==
    /\ pc = "resolve"
    /\ \/ /\ ~MissingParent /\ ~MissingService
          /\ body' = AnnouncedRoute(obj)
          /\ pc' = "send"
          /\ UNCHANGED <<queued, obj>>
       \/ /\ MissingParent \/ MissingService
          /\ Linked(obj)
          /\ Goto("withdraw")
       \/ /\ MissingParent \/ MissingService
          /\ ~Linked(obj)
          /\ Finish(TRUE)
    /\ UNCHANGED <<route, cache, cluster, epic, changes, faults>>

WithdrawTCP == Withdraw \/ RemoveEpicLink

\* A slip: once EPIC has the route, the verdict is written before the link.
AnnounceTCPThenMark ==
    \/ UpdateRoute
    \/ AnnounceRoute
    \/ /\ namesake # "none"
       /\ AddEpicLink
    \/ /\ namesake = "none" /\ pc = "link"
       /\ Finish(TRUE)
       /\ UNCHANGED <<route, cache, cluster, epic, changes, faults>>

AnnounceTCP == UpdateRoute \/ AnnounceRoute \/ AddEpicLink

\* The verdict goes to the namesake.  Without one the call fails, and so it does
\* if conflicts with others outlast the retries; the pass is then repeated.
MarkNamesake ==
    /\ pc \in {"accept", "reject"}
    /\ \/ /\ namesake # "none"
          /\ namesake' = "tcproute"
          /\ Finish(FALSE)
       \/ /\ Finish(TRUE)
          /\ UNCHANGED namesake
    /\ UNCHANGED <<route, cache, cluster, epic, changes, faults, kind, trouble, manager>>

CleanUpTCP == RemoveFinalizer \/ MaybeDelete

ReconcileTCP ==
    \/ /\ PrepareTCP \/ ResolveTCP \/ WithdrawTCP \/ AnnounceTCP \/ CleanUpTCP
       /\ UNCHANGED kindVars
    \/ MarkNamesake

-----------------------------------------------------------------------------

\* The user creates and deletes the namesake, and its own reconciler writes its
\* status.
NamesakeChanges ==
    /\ kind = "tcp"
    /\ namesake' \in CASE namesake = "none"     -> {"itself"}
                       [] namesake = "itself"   -> {"none"}
                       [] namesake = "tcproute" -> {"none", "itself"}
    /\ UNCHANGED <<vars, kind, trouble, manager>>

ReconcileKind ==
    /\ manager = "up"
    /\ \/ kind = "http" /\ Reconcile /\ UNCHANGED kindVars
       \/ kind = "tcp" /\ ReconcileTCP

Informer == manager = "up" /\ (Sync \/ Touch) /\ UNCHANGED kindVars

\* On a signal the manager lets its worker finish.
Stop ==
    /\ trouble = "shutdown"
    /\ manager = "up"
    /\ pc = "idle"
    /\ Fault
    /\ manager' = "stopping"
    /\ queued' = FALSE
    /\ UNCHANGED <<route, cache, cluster, epic, changes, pc, obj, body, kind, trouble, namesake>>

\* The Cleanup of the HTTPRouteReconciler, which is the only one of the two that
\* main calls.  The informer has stopped: if its copy is not current then the
\* finalizer stays, and the failure is logged.
Cleanup ==
    /\ manager = "stopping"
    /\ manager' = "down"
    /\ route' = IF kind = "http" /\ Held(cache) /\ cache = route
                THEN Without(route, "manager") ELSE route
    /\ UNCHANGED <<cache, cluster, epic, changes, faults, worker, kind, trouble, namesake>>

\* Every object that the new informer lists is an event.
Restart ==
    /\ manager = "down"
    /\ manager' = "up"
    /\ cache' = route
    /\ queued' = Exists(route)
    /\ UNCHANGED <<route, cluster, epic, changes, faults, pc, obj, body, kind, trouble, namesake>>

\* A withdrawal that fails half-way is never made good (the run route_stuck).  A
\* deletion that fails leaves its resource behind, as the finalizer goes first,
\* and so does a deletion that finds the manager down.  So routes are deleted
\* only in the runs where nothing fails and references go missing.
Troubles ==
    /\ trouble # "missing" =>
          /\ MissingParent' = MissingParent /\ MissingService' = MissingService
          /\ Exists(route) => route'.uid = route.uid /\ route'.deleting = route.deleting
    /\ trouble # "failures" => faults' = faults \/ manager' # manager

KindsNext ==
    /\ \/ ReconcileKind \/ Informer
       \/ Stop \/ Cleanup \/ Restart
       \/ /\ CallFails \/ Crash \/ AgentHolds \/ AgentReleases \/ User
          /\ UNCHANGED kindVars
       \/ NamesakeChanges
    /\ Troubles

\* As in RouteLifecycle, and a manager that stops is started again; nothing is
\* assumed of the namesake.
KindsSpec ==
    /\ KindsInit /\ [][KindsNext]_allVars
    /\ WF_allVars(ReconcileKind /\ Troubles)
    /\ WF_allVars(manager = "up" /\ Sync /\ UNCHANGED kindVars)
    /\ WF_allVars(manager = "up" /\ Touch /\ UNCHANGED kindVars)
    /\ WF_allVars(AgentReleases /\ UNCHANGED kindVars)
    /\ WF_allVars(Cleanup) /\ WF_allVars(Restart)

-----------------------------------------------------------------------------

\* Once the user stops, a route of either kind that its parents accept is at
\* EPIC as it should be and carries the finalizer if it is: also after the
\* manager has been stopped, which takes the finalizer off an announced route,
\* or has failed, and whatever becomes of the namesake.  (A route that a parent
\* has come to reject meanwhile does not get its finalizer back.)
EventuallyServed ==
    <>[](InSync /\ ((\A i \in Parents : ~Blocks(i)) => Protected))

=============================================================================
