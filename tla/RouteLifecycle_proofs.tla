-------------------------- MODULE RouteLifecycle_proofs --------------------------
(***************************************************************************)
(* Proofs, for every number of parents, changes and faults, that the       *)
(* finalizer protects what is at EPIC: type correctness, LinkOwner,        *)
(* Protected, WorkerHolds and NoLateAnnouncement, NoOrphan until something *)
(* fails, and that EPIC only gets complete specs and is a mirror.          *)
(*                                                                         *)
(* What carries the argument is that only the worker removes the finalizer *)
(* "manager", and only from an object that it has read as being deleted.   *)
(* So a copy that carries the finalizer and is not marked for deletion,    *)
(* however old it is, is a copy of the object that is at the API server    *)
(* and still carries it there.                                             *)
(***************************************************************************)
EXTENDS RouteLifecycle, TLAPS

\* UIDs come from the counter, so a new one is larger than any in use.
Fresh ==
    /\ route.uid <= changes
    /\ cache.uid <= changes
    /\ obj.uid <= changes
    /\ \A u \in Stamps : Stored(u) => u <= changes /\ u # 0

\* UID 0 is nobody's.
Vanished(copy) == ~Exists(copy) => copy = NoRoute

\* What an old copy says of the object at the API server.
Faithful(copy) ==
    /\ Exists(copy) /\ Held(copy) /\ ~copy.deleting =>
          route.uid = copy.uid /\ Held(route)
    /\ Exists(copy) /\ copy.deleting =>
          IF route.uid = copy.uid THEN route.deleting ELSE ~Held(route)

\* What the worker knows of its local route, by the call it is at.
WorkerKnows ==
    /\ pc \in {"parents", "finalize", "reject"} => Exists(obj) /\ ~obj.deleting
    /\ pc = "unfinalize" => Exists(obj) /\ obj.deleting

IInv ==
    /\ TypeOK
    /\ Fresh
    /\ Vanished(route)
    /\ Vanished(cache)
    /\ Faithful(cache)
    /\ Faithful(obj)
    /\ WorkerKnows
    /\ WorkerHolds
    /\ LinkOwner
    /\ Protected

-----------------------------------------------------------------------------
(* Type correctness.                                                       *)

LEMMA StampFacts ==
    /\ 0 \in Stamps
    /\ Stamps \subseteq Nat
    /\ \A n \in Stamps : n < MaxChanges => n + 1 \in Stamps
BY CountsAssumption DEF Stamps

LEMMA RouteFields ==
    /\ NoRoute \in Routes
    /\ \A r \in Routes : /\ r.uid \in Stamps /\ r.gen \in Stamps /\ r.link \in Stamps
                         /\ r.deleting \in BOOLEAN /\ r.status \in Statuses
                         /\ r.fin \in SUBSET Finalizers
BY StampFacts DEF Routes, NoRoute, Statuses, Finalizers

LEMMA RouteUpdates ==
    ASSUME NEW r \in Routes
    PROVE  /\ \A n \in Stamps : [r EXCEPT !.link = n] \in Routes
           /\ \A n \in Stamps : [r EXCEPT !.gen = n] \in Routes
           /\ \A m, n \in Stamps : [r EXCEPT !.uid = m, !.gen = n] \in Routes
           /\ \A x \in Statuses : [r EXCEPT !.status = x] \in Routes
           /\ [r EXCEPT !.deleting = TRUE] \in Routes
           /\ \A f \in Finalizers : [r EXCEPT !.fin = @ \cup {f}] \in Routes
           /\ \A f \in Finalizers : [r EXCEPT !.fin = @ \ {f}] \in Routes
           /\ \A f \in Finalizers : Without(r, f) \in Routes
BY RouteFields DEF Routes, Without

LEMMA BodyTypes ==
    /\ NoBody \in Bodies
    /\ \A r \in Routes :
          gws \in [Parents -> [uid: Stamps, policy: Policies]] /\ svc \in Stamps =>
             AnnouncedRoute(r) \in Bodies
BY StampFacts, RouteFields DEF Bodies, NoBody, AnnouncedRoute

\* Every action keeps every variable in its type.
LEMMA TypeStep == TypeOK /\ [Next]_vars => TypeOK'
<1> SUFFICES ASSUME TypeOK, [Next]_vars PROVE TypeOK'
  OBVIOUS
<1> USE StampFacts, RouteFields, BodyTypes
    DEF TypeOK, Goto, Finish, cluster, worker
<1>a. \A l \in Pcs : pc' = l => pc' \in Pcs
  OBVIOUS
<1>b. {"idle", "parents", "finalize", "resolve", "send", "link", "withdraw", "unlink",
       "unfinalize", "delete", "accept", "reject", "unresolved"} = Pcs
  BY DEF Pcs, MarkPcs
<1>c. Fault \/ NoFault => faults' \in 0..MaxFaults
  BY CountsAssumption DEF Fault, NoFault
<1>1. CASE GetRoute
  BY <1>1, <1>b DEF GetRoute
<1>2. CASE CheckParents
  BY <1>2, <1>b DEF CheckParents
<1>3. CASE AddFinalizer
  <2>1. [route EXCEPT !.fin = @ \cup {"manager"}] \in Routes
    BY RouteUpdates DEF Finalizers
  <2>2. route' \in Routes /\ obj' \in Routes
    BY <1>3, <2>1 DEF AddFinalizer
  <2> QED
    BY <1>3, <1>b, <2>2 DEF AddFinalizer
<1>4. CASE Resolve
  BY <1>4, <1>b DEF Resolve
<1>5. CASE UpdateRoute
  BY <1>5, <1>b, <1>c DEF UpdateRoute
<1>6. CASE AnnounceRoute
  BY <1>6, <1>b, <1>c DEF AnnounceRoute
<1>7. CASE AddEpicLink
  <2>1. [route EXCEPT !.link = obj.uid] \in Routes
    BY RouteUpdates
  <2>2. route' \in Routes /\ obj' \in Routes
    BY <1>7, <2>1 DEF AddEpicLink
  <2> QED
    BY <1>7, <1>b, <2>2 DEF AddEpicLink
<1>8. CASE MarkRouteConditions
  BY <1>8, <1>b, RouteUpdates DEF MarkRouteConditions, StatusFor, Statuses
<1>9. CASE Withdraw
  BY <1>9, <1>b, <1>c DEF Withdraw, EpicDelete
<1>10. CASE RemoveEpicLink
  BY <1>10, <1>b, RouteUpdates DEF RemoveEpicLink
<1>11. CASE RemoveFinalizer
  BY <1>11, <1>b, RouteUpdates DEF RemoveFinalizer, Finalizers
<1>12. CASE MaybeDelete
  BY <1>12, <1>b, <1>c DEF MaybeDelete, EpicDelete
<1>13. CASE CallFails
  BY <1>13, <1>b, <1>c DEF CallFails
<1>14. CASE Crash
  BY <1>14, <1>b, <1>c DEF Crash, Exists
<1>15. CASE Sync
  BY <1>15, <1>b DEF Sync
<1>16. CASE Touch
  BY <1>16, <1>b DEF Touch
<1>17. CASE AgentHolds
  BY <1>17, <1>b, RouteUpdates DEF AgentHolds, Finalizers
<1>18. CASE AgentReleases
  BY <1>18, <1>b, RouteUpdates DEF AgentReleases, Finalizers
<1>19. CASE User
  <2>a. Change("createRoute") \/ Change("deleteRoute") \/ Change("editRoute") \/ Change("createGateway") \/
        Change("deleteGateway") \/ Change("setPolicy") \/ Change("createService") \/ Change("deleteService")
        => changes' \in Stamps
    BY DEF Change
  <2>1. CASE CreateRoute
    BY <2>1, <2>a, RouteUpdates DEF CreateRoute, Change
  <2>2. CASE DeleteRoute
    BY <2>2, <2>a, RouteUpdates DEF DeleteRoute, Change
  <2>3. CASE EditRoute
    BY <2>3, <2>a, RouteUpdates DEF EditRoute, Change
  <2>4. CASE \E i \in Parents : CreateGateway(i)
    BY <2>4, <2>a DEF CreateGateway, Change, Policies
  <2>5. CASE \E i \in Parents : DeleteGateway(i)
    BY <2>5, <2>a DEF DeleteGateway, Change, Policies
  <2>6. CASE \E i \in Parents, policy \in Policies : SetPolicy(i, policy)
    BY <2>6, <2>a DEF SetPolicy, Change, Policies
  <2>7. CASE CreateService
    BY <2>7, <2>a DEF CreateService, Change
  <2>8. CASE DeleteService
    BY <2>8, <2>a DEF DeleteService, Change
  <2> QED
    BY <1>19, <2>1, <2>2, <2>3, <2>4, <2>5, <2>6, <2>7, <2>8 DEF User
<1>20. CASE UNCHANGED vars
  BY <1>20 DEF vars
<1> QED
  BY <1>1, <1>2, <1>3, <1>4, <1>5, <1>6, <1>7, <1>8, <1>9, <1>10, <1>11, <1>12, <1>13, <1>14, <1>15, <1>16, <1>17, <1>18, <1>19, <1>20 DEF Next, Reconcile

-----------------------------------------------------------------------------
(* The inductive invariant.                                                *)

\* The invariant holds at the start.
LEMMA InvInit == Init => IInv
<1> SUFFICES ASSUME Init PROVE IInv
  OBVIOUS
<1>1. TypeOK
  <2>1. 1 \in Stamps /\ 0 \in 0..MaxFaults
    BY CountsAssumption DEF Stamps
  <2>2. gws \in [Parents -> [uid: Stamps, policy: Policies]]
    BY <2>1 DEF Init, Policies
  <2>3. epic \in [Stamps -> Bodies]
    BY BodyTypes DEF Init
  <2>4. pc \in Pcs
    BY DEF Init, Pcs
  <2> QED
    BY <2>1, <2>2, <2>3, <2>4, RouteFields, BodyTypes DEF Init, TypeOK
<1> QED
  BY <1>1 DEF Init, IInv, Fresh, Vanished, Faithful, WorkerKnows, WorkerHolds, LinkOwner, Protected,
              Exists, Held, Linked, Stored, NoRoute

\* Every step keeps it.
LEMMA InvStep == IInv /\ [Next]_vars => IInv'
<1> SUFFICES ASSUME IInv, [Next]_vars PROVE IInv'
  OBVIOUS
<1>t. TypeOK /\ TypeOK'
  BY TypeStep DEF IInv
<1>f. /\ route \in Routes /\ cache \in Routes /\ obj \in Routes
      /\ route' \in Routes /\ cache' \in Routes /\ obj' \in Routes
      /\ changes \in Nat /\ changes' \in Nat
      /\ epic \in [Stamps -> Bodies] /\ epic' \in [Stamps -> Bodies]
  BY <1>t, StampFacts DEF TypeOK
<1> USE <1>t, <1>f, StampFacts
    DEF IInv, Fresh, Vanished, Faithful, WorkerKnows, WorkerHolds, LinkOwner, Protected, Routes,
        Exists, Held, Linked, Stored, NoRoute, Goto, Finish, cluster, worker
<1>1. CASE GetRoute
  <2>0. Vanished(route)' /\ Vanished(cache)'
    BY <1>1 DEF GetRoute
  <2>1. Fresh'
    BY <1>1 DEF GetRoute
  <2>2. Faithful(cache)'
    BY <1>1 DEF GetRoute
  <2>3. Faithful(obj)'
    BY <1>1 DEF GetRoute
  <2>4. WorkerKnows'
    <3>1. CASE ~Exists(cache)
      BY <1>1, <3>1 DEF GetRoute
    <3>2. CASE Exists(cache) /\ cache.deleting
      BY <1>1, <3>2 DEF GetRoute
    <3>3. CASE Exists(cache) /\ ~cache.deleting
      BY <1>1, <3>3 DEF GetRoute
    <3> QED
      BY <3>1, <3>2, <3>3
  <2>5. WorkerHolds'
    BY <1>1 DEF GetRoute
  <2>6. LinkOwner'
    BY <1>1 DEF GetRoute
  <2>7. Protected'
    BY <1>1 DEF GetRoute
  <2> QED
    BY <2>0, <2>1, <2>2, <2>3, <2>4, <2>5, <2>6, <2>7
<1>2. CASE CheckParents
  BY <1>2 DEF CheckParents
<1>3. CASE AddFinalizer
  BY <1>3 DEF AddFinalizer, CanAddFinalizer
<1>4. CASE Resolve
  <2>0. Vanished(route)' /\ Vanished(cache)'
    BY <1>4 DEF Resolve
  <2>1. Fresh'
    BY <1>4 DEF Resolve
  <2>2. Faithful(cache)'
    BY <1>4 DEF Resolve
  <2>3. Faithful(obj)'
    BY <1>4 DEF Resolve
  <2>4. WorkerKnows'
    BY <1>4 DEF Resolve
  <2>5. WorkerHolds'
    BY <1>4 DEF Resolve
  <2>6. LinkOwner'
    BY <1>4 DEF Resolve
  <2>7. Protected'
    BY <1>4 DEF Resolve
  <2> QED
    BY <2>0, <2>1, <2>2, <2>3, <2>4, <2>5, <2>6, <2>7
<1>5. CASE UpdateRoute
  <2>0. Vanished(route)' /\ Vanished(cache)'
    BY <1>5 DEF UpdateRoute
  <2>1. Fresh'
    BY <1>5 DEF UpdateRoute
  <2>2. Faithful(cache)'
    BY <1>5 DEF UpdateRoute
  <2>3. Faithful(obj)'
    BY <1>5 DEF UpdateRoute
  <2>4. WorkerKnows'
    BY <1>5 DEF UpdateRoute
  <2>5. WorkerHolds'
    BY <1>5 DEF UpdateRoute
  <2>6. LinkOwner'
    BY <1>5 DEF UpdateRoute
  <2>7. Protected'
    BY <1>5 DEF UpdateRoute
  <2> QED
    BY <2>0, <2>1, <2>2, <2>3, <2>4, <2>5, <2>6, <2>7
<1>6. CASE AnnounceRoute
  BY <1>6 DEF AnnounceRoute
<1>7. CASE AddEpicLink
  BY <1>7 DEF AddEpicLink
<1>8. CASE MarkRouteConditions
  BY <1>8 DEF MarkRouteConditions, MarkPcs
<1>9. CASE Withdraw
  <2>0. Vanished(route)' /\ Vanished(cache)'
    BY <1>9 DEF Withdraw, EpicDelete
  <2>1. Fresh'
    BY <1>9 DEF Withdraw, EpicDelete
  <2>2. Faithful(cache)'
    BY <1>9 DEF Withdraw, EpicDelete
  <2>3. Faithful(obj)'
    BY <1>9 DEF Withdraw, EpicDelete
  <2>4. WorkerKnows'
    BY <1>9 DEF Withdraw, EpicDelete
  <2>5. WorkerHolds'
    BY <1>9 DEF Withdraw, EpicDelete
  <2>6. LinkOwner'
    BY <1>9 DEF Withdraw, EpicDelete
  <2>7. Protected'
    BY <1>9 DEF Withdraw, EpicDelete
  <2> QED
    BY <2>0, <2>1, <2>2, <2>3, <2>4, <2>5, <2>6, <2>7
<1>10. CASE RemoveEpicLink
  <2>0. Vanished(route)' /\ Vanished(cache)'
    BY <1>10 DEF RemoveEpicLink
  <2>1. Fresh'
    BY <1>10 DEF RemoveEpicLink
  <2>2. Faithful(cache)'
    BY <1>10 DEF RemoveEpicLink
  <2>3. Faithful(obj)'
    BY <1>10 DEF RemoveEpicLink
  <2>4. WorkerKnows'
    BY <1>10 DEF RemoveEpicLink
  <2>5. WorkerHolds'
    BY <1>10 DEF RemoveEpicLink
  <2>6. LinkOwner'
    BY <1>10 DEF RemoveEpicLink
  <2>7. Protected'
    BY <1>10 DEF RemoveEpicLink
  <2> QED
    BY <2>0, <2>1, <2>2, <2>3, <2>4, <2>5, <2>6, <2>7
<1>11. CASE RemoveFinalizer
  <2>0. Vanished(route)' /\ Vanished(cache)'
    BY <1>11 DEF RemoveFinalizer, Without
  <2>1. Fresh'
    BY <1>11 DEF RemoveFinalizer, Without
  <2>2. Faithful(cache)'
    BY <1>11 DEF RemoveFinalizer, Without
  <2>3. Faithful(obj)'
    BY <1>11 DEF RemoveFinalizer, Without
  <2>4. WorkerKnows'
    BY <1>11 DEF RemoveFinalizer, Without
  <2>5. WorkerHolds'
    BY <1>11 DEF RemoveFinalizer, Without
  <2>6. LinkOwner'
    BY <1>11 DEF RemoveFinalizer, Without
  <2>7. Protected'
    BY <1>11 DEF RemoveFinalizer, Without
  <2> QED
    BY <2>0, <2>1, <2>2, <2>3, <2>4, <2>5, <2>6, <2>7
<1>12. CASE MaybeDelete
  <2>0. Vanished(route)' /\ Vanished(cache)'
    BY <1>12 DEF MaybeDelete, EpicDelete
  <2>1. Fresh'
    BY <1>12 DEF MaybeDelete, EpicDelete
  <2>2. Faithful(cache)'
    BY <1>12 DEF MaybeDelete, EpicDelete
  <2>3. Faithful(obj)'
    BY <1>12 DEF MaybeDelete, EpicDelete
  <2>4. WorkerKnows'
    BY <1>12 DEF MaybeDelete, EpicDelete
  <2>5. WorkerHolds'
    BY <1>12 DEF MaybeDelete, EpicDelete
  <2>6. LinkOwner'
    BY <1>12 DEF MaybeDelete, EpicDelete
  <2>7. Protected'
    BY <1>12 DEF MaybeDelete, EpicDelete
  <2> QED
    BY <2>0, <2>1, <2>2, <2>3, <2>4, <2>5, <2>6, <2>7
<1>13. CASE CallFails
  BY <1>13 DEF CallFails
<1>14. CASE Crash
  BY <1>14 DEF Crash
<1>15. CASE Sync
  BY <1>15 DEF Sync
<1>16. CASE Touch
  BY <1>16 DEF Touch
<1>17. CASE AgentHolds
  BY <1>17 DEF AgentHolds
<1>18. CASE AgentReleases
  <2>0. Vanished(route)' /\ Vanished(cache)'
    BY <1>18 DEF AgentReleases, Without
  <2>1. Fresh'
    BY <1>18 DEF AgentReleases, Without
  <2>2. Faithful(cache)'
    BY <1>18 DEF AgentReleases, Without
  <2>3. Faithful(obj)'
    BY <1>18 DEF AgentReleases, Without
  <2>4. WorkerKnows'
    BY <1>18 DEF AgentReleases, Without
  <2>5. WorkerHolds'
    BY <1>18 DEF AgentReleases, Without
  <2>6. LinkOwner'
    BY <1>18 DEF AgentReleases, Without
  <2>7. Protected'
    BY <1>18 DEF AgentReleases, Without
  <2> QED
    BY <2>0, <2>1, <2>2, <2>3, <2>4, <2>5, <2>6, <2>7
<1>19. CASE User
  <2>1. CASE CreateRoute
    BY <2>1 DEF CreateRoute, Change
  <2>2. CASE DeleteRoute
    BY <2>2 DEF DeleteRoute, Change
  <2>3. CASE EditRoute
    BY <2>3 DEF EditRoute, Change
  <2>4. CASE UNCHANGED <<route, cache, epic, worker>> /\ changes' = changes + 1
    <3>a. \A n \in Nat : n <= changes => n <= changes'
      BY <2>4
    <3>b. route' = route /\ cache' = cache /\ obj' = obj /\ epic' = epic
      BY <2>4
    <3>c. \A u \in Stamps : u \in Nat
      OBVIOUS
    <3>d. /\ route.uid \in Nat /\ cache.uid \in Nat /\ obj.uid \in Nat
          /\ route.uid <= changes /\ cache.uid <= changes /\ obj.uid <= changes
      BY <3>c
    <3>e. \A u \in Stamps : epic'[u] # NoBody => u <= changes' /\ u # 0
      BY <3>a, <3>b, <3>c
    <3>1. Fresh'
      BY <3>a, <3>b, <3>d, <3>e
    <3>2. /\ Vanished(route)' /\ Vanished(cache)' /\ Faithful(cache)' /\ Faithful(obj)'
          /\ WorkerKnows' /\ WorkerHolds' /\ LinkOwner' /\ Protected'
      BY <2>4
    <3> QED
      BY <3>1, <3>2
  <2> QED
    BY <1>19, <2>1, <2>2, <2>3, <2>4
    DEF User, Change, CreateGateway, DeleteGateway, SetPolicy, CreateService, DeleteService
<1>20. CASE UNCHANGED vars
  BY <1>20 DEF vars
<1> QED
  BY <1>1, <1>2, <1>3, <1>4, <1>5, <1>6, <1>7, <1>8, <1>9, <1>10, <1>11, <1>12, <1>13, <1>14, <1>15, <1>16, <1>17, <1>18, <1>19, <1>20 DEF Next, Reconcile

-----------------------------------------------------------------------------
(* The theorems that hold whatever fails.                                  *)

\* The inductive invariant is one.
LEMMA Invariance == Spec => []IInv
  BY InvInit, InvStep, PTL DEF Spec

\* Every variable of the specification stays in its type.
THEOREM TypeCorrect == Spec => []TypeOK
<1>1. IInv => TypeOK
  BY DEF IInv
<1> QED
  BY Invariance, <1>1, PTL

\* addEpicLink never puts the link of one route on another.
THEOREM LinkOwnerHolds == Spec => []LinkOwner
<1>1. IInv => LinkOwner
  BY DEF IInv
<1> QED
  BY Invariance, <1>1, PTL

\* The finalizer is on every live route that EPIC has a resource for.
THEOREM ProtectedHolds == Spec => []Protected
<1>1. IInv => Protected
  BY DEF IInv
<1> QED
  BY Invariance, <1>1, PTL

\* The route that the worker works on cannot be replaced under its hands.
THEOREM WorkerHoldsHolds == Spec => []WorkerHolds
<1>1. IInv => WorkerHolds
  BY DEF IInv
<1> QED
  BY Invariance, <1>1, PTL

\* EPIC is never given a resource for a route that is gone or not protected,
\* so a late announcement cannot bring back what a deletion cleaned up.
NoLateAnnouncement ==
    [][\A u \in Stamps :
          ~Stored(u) /\ Stored(u)' => route.uid = u /\ Held(route)]_vars

\* EPIC is never given a resource for a route that is gone or unprotected.
THEOREM NoLateAnnouncementHolds == Spec => NoLateAnnouncement
<1>1. IInv /\ [Next]_vars =>
         [\A u \in Stamps : ~Stored(u) /\ Stored(u)' => route.uid = u /\ Held(route)]_vars
  <2> SUFFICES ASSUME IInv, Next, NEW u \in Stamps, ~Stored(u), Stored(u)'
               PROVE  route.uid = u /\ Held(route)
    BY DEF vars
  <2>1. epic \in [Stamps -> Bodies]
    BY DEF IInv, TypeOK
  <2>2. CASE AnnounceRoute
    BY <2>1, <2>2 DEF AnnounceRoute, Stored, IInv, WorkerHolds
  <2>3. CASE UpdateRoute
    BY <2>1, <2>3 DEF UpdateRoute, Stored
  <2>4. CASE Withdraw \/ MaybeDelete
    BY <2>1, <2>4 DEF Withdraw, MaybeDelete, EpicDelete, Stored
  <2>5. CASE GetRoute \/ CheckParents \/ AddFinalizer \/ Resolve \/ AddEpicLink
                \/ MarkRouteConditions \/ RemoveEpicLink \/ RemoveFinalizer
    BY <2>5 DEF GetRoute, CheckParents, AddFinalizer, Resolve, AddEpicLink,
                MarkRouteConditions, RemoveEpicLink, RemoveFinalizer, Stored
  <2>6. CASE CallFails \/ Crash \/ Sync \/ Touch \/ AgentHolds \/ AgentReleases
    BY <2>6 DEF CallFails, Crash, Sync, Touch, AgentHolds, AgentReleases, Stored
  <2>7. CASE User
    BY <2>7 DEF User, Change, CreateRoute, DeleteRoute, EditRoute, CreateGateway,
                DeleteGateway, SetPolicy, CreateService, DeleteService, Stored
  <2> QED
    BY <2>2, <2>3, <2>4, <2>5, <2>6, <2>7 DEF Next, Reconcile
<1> QED
  BY Invariance, <1>1, PTL DEF Spec, NoLateAnnouncement

-----------------------------------------------------------------------------
(* Without failures nothing is left behind.                                *)

\* A copy of the route carries its own link or none.
OwnLink(copy) == Linked(copy) => copy.link = copy.uid

\* Each resource has a live, protected route that has or is about to get the
\* link, or is about to be deleted.
Kept ==
    \A u \in Stamps : Stored(u) =>
       \/ /\ route.uid = u
          /\ Held(route)
          /\ route.link = u \/ (pc = "link" /\ obj.uid = u)
       \/ pc = "delete" /\ obj.link = u

CleanInv ==
    /\ OwnLink(cache)
    /\ OwnLink(obj)
    /\ pc = "withdraw" => Linked(obj)
    /\ pc = "unlink" => ~Stored(obj.uid)
    /\ Kept

\* Failures are counted, and none is forgotten.
LEMMA FaultsStep == TypeOK /\ [Next]_vars => faults' = faults \/ Fault
<1> SUFFICES ASSUME TypeOK, [Next]_vars PROVE faults' = faults \/ Fault
  OBVIOUS
<1>1. CASE Reconcile
  BY <1>1
  DEF Reconcile, GetRoute, CheckParents, AddFinalizer, Resolve, UpdateRoute, AnnounceRoute,
      AddEpicLink, MarkRouteConditions, Withdraw, RemoveEpicLink, RemoveFinalizer, MaybeDelete,
      EpicDelete, NoFault
<1>2. CASE CallFails \/ Crash \/ Sync \/ Touch \/ AgentHolds \/ AgentReleases
  BY <1>2 DEF CallFails, Crash, Sync, Touch, AgentHolds, AgentReleases
<1>3. CASE User
  BY <1>3
  DEF User, Change, CreateRoute, DeleteRoute, EditRoute, CreateGateway, DeleteGateway, SetPolicy,
      CreateService, DeleteService
<1>4. CASE UNCHANGED vars
  BY <1>4 DEF vars
<1> QED
  BY <1>1, <1>2, <1>3, <1>4 DEF Next

\* Until something fails CleanInv is inductive on top of IInv.
LEMMA CleanStep ==
    IInv /\ (faults = 0 => CleanInv) /\ [Next]_vars => (faults' = 0 => CleanInv')
<1> SUFFICES ASSUME IInv, faults = 0 => CleanInv, [Next]_vars, faults' = 0 PROVE CleanInv'
  OBVIOUS
<1>t. TypeOK /\ TypeOK'
  BY TypeStep DEF IInv
<1>f. /\ route \in Routes /\ cache \in Routes /\ obj \in Routes
      /\ route' \in Routes /\ cache' \in Routes /\ obj' \in Routes
      /\ epic \in [Stamps -> Bodies] /\ epic' \in [Stamps -> Bodies]
  BY <1>t DEF TypeOK
<1>n. ~Fault
  BY <1>t DEF Fault, TypeOK
<1>c. CleanInv
  BY <1>n, <1>t, FaultsStep
<1>i. Vanished(route) /\ Vanished(cache) /\ WorkerHolds /\ LinkOwner /\ Fresh
  BY DEF IInv
<1> USE <1>f, <1>n, <1>c, <1>i, StampFacts
    DEF CleanInv, OwnLink, Kept, Vanished, WorkerHolds, LinkOwner, Routes,
        Exists, Held, Linked, Stored, NoRoute, Goto, Finish, cluster, worker
<1>1. CASE GetRoute
  BY <1>1 DEF GetRoute
<1>2. CASE CheckParents
  BY <1>2 DEF CheckParents
<1>3. CASE AddFinalizer
  BY <1>3 DEF AddFinalizer, CanAddFinalizer
<1>4. CASE Resolve
  BY <1>4 DEF Resolve
<1>5. CASE UpdateRoute
  BY <1>5 DEF UpdateRoute
<1>6. CASE AnnounceRoute
  BY <1>6 DEF AnnounceRoute
<1>7. CASE AddEpicLink
  BY <1>7 DEF AddEpicLink
<1>8. CASE MarkRouteConditions
  BY <1>8 DEF MarkRouteConditions, MarkPcs
<1>9. CASE Withdraw
  BY <1>9 DEF Withdraw, EpicDelete
<1>10. CASE RemoveEpicLink
  BY <1>10 DEF RemoveEpicLink
<1>11. CASE RemoveFinalizer
  BY <1>11 DEF RemoveFinalizer, Without
<1>12. CASE MaybeDelete
  <2>1. CASE ~Linked(obj)
    <3>1. epic' = epic /\ route' = route /\ cache' = cache /\ obj' = NoRoute /\ pc' = "idle"
      BY <1>12, <2>1 DEF MaybeDelete
    <3>2. \A u \in Stamps : Stored(u) => u # 0
      BY DEF Fresh
    <3>3. pc = "delete" /\ obj.link = 0
      BY <1>12, <2>1 DEF MaybeDelete
    <3>4. Kept'
      BY <3>1, <3>2, <3>3
    <3> QED
      BY <3>1, <3>4
  <2>2. CASE Linked(obj)
    BY <1>12, <2>2 DEF MaybeDelete, EpicDelete, Fresh
  <2> QED
    BY <2>1, <2>2
<1>13. CASE Sync
  BY <1>13 DEF Sync
<1>14. CASE Touch
  BY <1>14 DEF Touch
<1>15. CASE AgentHolds
  BY <1>15 DEF AgentHolds
<1>16. CASE AgentReleases
  BY <1>16 DEF AgentReleases, Without
<1>17. CASE CallFails \/ Crash
  BY <1>17 DEF CallFails, Crash
<1>18. CASE User
  <2>1. CASE CreateRoute
    BY <2>1 DEF CreateRoute, Change, Fresh
  <2>2. CASE DeleteRoute
    BY <2>2 DEF DeleteRoute, Change
  <2>3. CASE EditRoute
    BY <2>3 DEF EditRoute, Change
  <2>4. CASE UNCHANGED <<route, cache, epic, worker>>
    BY <2>4
  <2> QED
    BY <1>18, <2>1, <2>2, <2>3, <2>4
    DEF User, Change, CreateGateway, DeleteGateway, SetPolicy, CreateService, DeleteService
<1>19. CASE UNCHANGED vars
  BY <1>19 DEF vars
<1> QED
  BY <1>1, <1>2, <1>3, <1>4, <1>5, <1>6, <1>7, <1>8, <1>9, <1>10, <1>11, <1>12, <1>13, <1>14, <1>15, <1>16, <1>17, <1>18, <1>19 DEF Next, Reconcile

\* Until something fails EPIC keeps no resource without a live route that links
\* to it, save for the moments between the two calls that make it so.
THEOREM NoOrphanHolds == Spec => []NoOrphan
<1>1. Init => (faults = 0 => CleanInv)
  BY DEF Init, CleanInv, OwnLink, Kept, Linked, Stored, NoRoute
<1>2. IInv /\ (faults = 0 => CleanInv) /\ [Next]_vars => (faults = 0 => CleanInv)'
  BY CleanStep
<1>3. (faults = 0 => CleanInv) => NoOrphan
  BY DEF CleanInv, Kept, NoOrphan
<1> QED
  BY Invariance, <1>1, <1>2, <1>3, PTL DEF Spec

-----------------------------------------------------------------------------
(* Only complete specs reach EPIC.                                         *)

\* Every reference of a spec has been replaced by a UID.
Complete(spec) == (\A i \in Parents : spec.parents[i] # 0) /\ spec.svc # 0

CompleteInv ==
    /\ pc = "send" => Complete(body)
    /\ \A u \in Stamps : Stored(u) => Complete(epic[u])

\* CompleteInv is inductive on top of the types: what is sent was resolved in the
\* same pass, whatever has become of the references since.
LEMMA CompleteStep == TypeOK /\ CompleteInv /\ [Next]_vars => CompleteInv'
<1> SUFFICES ASSUME TypeOK, CompleteInv, [Next]_vars PROVE CompleteInv'
  OBVIOUS
<1>e. epic \in [Stamps -> Bodies]
  BY DEF TypeOK
<1>same. epic' = epic => \A u \in Stamps : Stored(u)' => Complete(epic'[u])
  BY DEF CompleteInv, Stored
<1>idle. epic' = epic /\ pc' # "send" => CompleteInv'
  BY <1>same DEF CompleteInv
<1>1. CASE Resolve
  <2>1. CASE pc' = "send"
    <3>1. /\ \A i \in Parents : gws[i].uid # 0
          /\ svc # 0 /\ body' = AnnouncedRoute(obj)
      BY <1>1, <2>1 DEF Resolve, Goto, Finish, MissingParent, MissingService
    <3>2. Complete(body)'
      BY <3>1 DEF AnnouncedRoute, Complete
    <3> QED
      BY <1>1, <1>same, <3>2 DEF Resolve, CompleteInv
  <2>2. CASE pc' # "send"
    BY <1>1, <1>idle, <2>2 DEF Resolve
  <2> QED
    BY <2>1, <2>2
<1>2. CASE UpdateRoute \/ AnnounceRoute
  <2>1. Complete(body) /\ pc' # "send"
    BY <1>2 DEF UpdateRoute, AnnounceRoute, CompleteInv, Goto, Finish
  <2>2. \A u \in Stamps : epic'[u] = epic[u] \/ epic'[u] = body
    BY <1>2, <1>e DEF UpdateRoute, AnnounceRoute
  <2> QED
    BY <2>1, <2>2 DEF CompleteInv, Stored, Complete
<1>3. CASE Withdraw \/ MaybeDelete
  <2>1. \A u \in Stamps : epic'[u] = epic[u] \/ epic'[u] = NoBody
    BY <1>3, <1>e DEF Withdraw, MaybeDelete, EpicDelete
  <2>2. pc' # "send" /\ NoBody' = NoBody
    BY <1>3 DEF Withdraw, MaybeDelete, EpicDelete, Goto, Finish, NoBody
  <2> QED
    BY <2>1, <2>2 DEF CompleteInv, Stored, Complete
<1>4. CASE GetRoute \/ CheckParents \/ AddFinalizer \/ AddEpicLink
              \/ MarkRouteConditions \/ RemoveEpicLink \/ RemoveFinalizer
  BY <1>4, <1>idle DEF GetRoute, CheckParents, AddFinalizer, AddEpicLink, MarkRouteConditions,
                       RemoveEpicLink, RemoveFinalizer, Goto, Finish
<1>5. CASE CallFails \/ Crash
  BY <1>5, <1>idle DEF CallFails, Crash, Goto, Finish
<1>6. CASE UNCHANGED <<epic, pc, body>>
  BY <1>6 DEF CompleteInv, Stored, Complete
<1>7. CASE Sync \/ Touch \/ AgentHolds \/ AgentReleases
  BY <1>6, <1>7 DEF Sync, Touch, AgentHolds, AgentReleases, worker
<1>8. CASE User
  BY <1>6, <1>8 DEF User, Change, CreateRoute, DeleteRoute, EditRoute, CreateGateway, DeleteGateway,
                    SetPolicy, CreateService, DeleteService, worker
<1>9. CASE UNCHANGED vars
  BY <1>6, <1>9 DEF vars
<1> QED
  BY <1>1, <1>2, <1>3, <1>4, <1>5, <1>7, <1>8, <1>9 DEF Next, Reconcile

\* EPIC has no spec with a parent or a Service that is unresolved.
THEOREM AnnouncedCompleteHolds == Spec => []AnnouncedComplete
<1>1. Init => CompleteInv
  BY DEF Init, CompleteInv, Stored
<1>2. CompleteInv => AnnouncedComplete
  BY DEF CompleteInv, Complete, AnnouncedComplete
<1> QED
  BY TypeCorrect, CompleteStep, <1>1, <1>2, PTL DEF Spec

-----------------------------------------------------------------------------
(* The reconciler is a mirror of the route.                                *)

\* A step of the reconciler, or around it, is a step of EpicMirror or none.
LEMMA MirrorStep == IInv /\ [Next]_vars => [Mirror!Next]_Mirror!vars
<1> SUFFICES ASSUME IInv, [Next]_vars PROVE [Mirror!Next]_Mirror!vars
  OBVIOUS
<1>t. TypeOK /\ TypeOK'
  BY TypeStep DEF IInv
<1>f. /\ route \in Routes /\ route' \in Routes
      /\ epic \in [Stamps -> Bodies] /\ epic' \in [Stamps -> Bodies]
  BY <1>t DEF TypeOK
<1>i. /\ Vanished(route) /\ Fresh /\ WorkerHolds /\ WorkerKnows
      /\ Faithful(obj) /\ Faithful(cache)
  BY DEF IInv
<1> DEFINE held == {u \in Stamps : Stored(u)}
<1>same. epic' = epic => held' = held
  BY DEF Stored
<1>stutter. route' = route /\ epic' = epic => UNCHANGED Mirror!vars
  BY <1>same DEF Mirror!vars, Held
<1> HIDE DEF held
<1>1. CASE AnnounceRoute
  <2>1. route' = route /\ route.uid = obj.uid /\ Held(route) /\ route.uid \in Stamps
    BY <1>1, <1>i, <1>f DEF AnnounceRoute, WorkerHolds, Routes
  <2>2. CASE Stored(obj.uid)
    BY <1>1, <2>1, <2>2, <1>stutter DEF AnnounceRoute
  <2>3. CASE ~Stored(obj.uid)
    <3>1. epic' = [epic EXCEPT ![obj.uid] = body]
      BY <1>1, <2>3 DEF AnnounceRoute
    <3>2. CASE body = NoBody
      <4>1. epic' = epic
        BY <3>1, <3>2, <2>3, <1>f DEF Stored
      <4> QED
        BY <4>1, <2>1, <1>stutter
    <3>3. CASE body # NoBody
      <4>1. held' = held \cup {route.uid}
        BY <3>1, <3>3, <2>1, <1>f DEF held, Stored
      <4> QED
        BY <4>1, <2>1 DEF Mirror!Next, Mirror!Announce, held
    <3> QED
      BY <3>2, <3>3
  <2> QED
    BY <2>2, <2>3
<1>2. CASE UpdateRoute
  <2>1. route' = route
    BY <1>2 DEF UpdateRoute
  <2>2. CASE epic' = epic
    BY <2>1, <2>2, <1>stutter
  <2>3. CASE Stored(obj.link) /\ epic' = [epic EXCEPT ![obj.link] = body]
    <3>1. held' = held \/ held' = held \ {obj.link}
      BY <2>3, <1>f DEF held, Stored
    <3>2. obj.link \in Stamps
      BY <1>t DEF TypeOK, Routes
    <3> QED
      BY <2>1, <3>1, <3>2 DEF Mirror!Next, Mirror!Withdraw, Mirror!vars, held, Held
  <2> QED
    BY <1>2, <2>2, <2>3 DEF UpdateRoute
<1>3. CASE Withdraw \/ MaybeDelete
  <2>1. route' = route
    BY <1>3 DEF Withdraw, MaybeDelete
  <2>2. CASE epic' = epic
    BY <2>1, <2>2, <1>stutter
  <2>3. CASE epic' = [epic EXCEPT ![obj.link] = NoBody]
    <3>1. held' = held \ {obj.link}
      BY <2>3, <1>f DEF held, Stored
    <3>2. obj.link \in Stamps
      BY <1>t DEF TypeOK, Routes
    <3> QED
      BY <2>1, <3>1, <3>2 DEF Mirror!Next, Mirror!Withdraw, held
  <2> QED
    BY <1>3, <2>2, <2>3 DEF Withdraw, MaybeDelete, EpicDelete
<1>4. CASE AddFinalizer
  <2>1. epic' = epic
    BY <1>4 DEF AddFinalizer
  <2>2. CASE route' = route
    BY <2>1, <2>2, <1>stutter
  <2>3. CASE CanAddFinalizer /\ route' = [route EXCEPT !.fin = @ \cup {"manager"}]
    BY <2>1, <2>3, <1>same, <1>f
    DEF CanAddFinalizer, Mirror!Next, Mirror!Guard, Routes, Held, Exists, held
  <2> QED
    BY <1>4, <2>2, <2>3 DEF AddFinalizer
<1>5. CASE RemoveFinalizer
  <2>1. epic' = epic
    BY <1>5 DEF RemoveFinalizer
  <2>2. CASE route' = route
    BY <2>1, <2>2, <1>stutter
  <2>3. CASE /\ Held(obj) /\ Exists(cache) /\ cache = route
             /\ route' = Without(route, "manager")
    <3>1. IF route.uid = obj.uid THEN route.deleting ELSE ~Held(route)
      BY <1>5, <1>i DEF RemoveFinalizer, WorkerKnows, Faithful
    <3>2. CASE route.deleting
      BY <2>1, <2>3, <3>2, <1>same, <1>f
      DEF Mirror!Next, Mirror!Release, Without, Routes, Held, NoRoute, held
    <3>3. CASE ~route.deleting
      <4>1. route' = route
        BY <2>3, <3>1, <3>3, <1>f DEF Without, Routes, Held
      <4> QED
        BY <2>1, <4>1, <1>stutter
    <3> QED
      BY <3>2, <3>3
  <2> QED
    BY <1>5, <2>2, <2>3 DEF RemoveFinalizer
<1>6. CASE AddEpicLink \/ MarkRouteConditions \/ RemoveEpicLink
  <2>1. epic' = epic
    BY <1>6 DEF AddEpicLink, MarkRouteConditions, RemoveEpicLink
  <2>2. route'.uid = route.uid /\ route'.fin = route.fin /\ route'.deleting = route.deleting
    BY <1>6, <1>f DEF AddEpicLink, MarkRouteConditions, RemoveEpicLink, Routes
  <2> QED
    BY <2>1, <2>2, <1>same DEF Mirror!vars, Held, held
<1>7. CASE GetRoute \/ CheckParents \/ Resolve \/ CallFails \/ Crash \/ Sync \/ Touch
  BY <1>7, <1>stutter DEF GetRoute, CheckParents, Resolve, CallFails, Crash, Sync, Touch
<1>8. CASE AgentHolds
  <2>1. epic' = epic
    BY <1>8 DEF AgentHolds
  <2>2. /\ route'.uid = route.uid /\ route'.deleting = route.deleting
        /\ Held(route)' <=> Held(route)
    BY <1>8, <1>f DEF AgentHolds, Routes, Held
  <2> QED
    BY <2>1, <2>2, <1>same DEF Mirror!vars, Held, held
<1>9. CASE AgentReleases
  <2>1. epic' = epic /\ route.deleting /\ route' = Without(route, "agent")
    BY <1>9 DEF AgentReleases
  <2>2. CASE route.fin \subseteq {"agent"}
    BY <2>1, <2>2, <1>same, <1>f, <1>i
    DEF Mirror!Next, Mirror!Vanish, Without, Held, NoRoute, held, Vanished, Exists
  <2>3. CASE ~(route.fin \subseteq {"agent"})
    <3>1. /\ route'.uid = route.uid /\ route'.deleting = route.deleting
          /\ Held(route)' <=> Held(route)
      BY <2>1, <2>3, <1>f DEF Without, Routes, Held
    <3>2. epic' = epic
      BY <2>1
    <3> QED
      BY <3>1, <3>2, <1>same, SMTT(30) DEF Mirror!vars, Held, held
  <2> QED
    BY <2>2, <2>3
<1>10. CASE CreateRoute
  <2>1. /\ epic' = epic /\ route = NoRoute
        /\ changes' = changes + 1
        /\ route' = [NoRoute EXCEPT !.uid = changes', !.gen = changes']
    BY <1>10, <1>i DEF CreateRoute, Change, Vanished
  <2>2. route'.uid = changes' /\ ~Held(route)' /\ ~route'.deleting
    BY <2>1 DEF NoRoute, Held
  <2>3. changes' \in Stamps /\ changes \in Nat /\ \A u \in Stamps : u \in Nat
    BY <1>t, StampFacts DEF TypeOK
  <2>4. changes' \notin held /\ changes' # 0
    BY <1>i, <2>1, <2>3 DEF Fresh, held
  <2> QED
    BY <2>1, <2>2, <2>3, <2>4, <1>same DEF Mirror!Next, Mirror!Appear, NoRoute, Held, held
<1>11. CASE DeleteRoute
  <2>1. epic' = epic /\ Exists(route) /\ ~route.deleting
    BY <1>11 DEF DeleteRoute, Change
  <2>2. CASE route.fin = {}
    BY <1>11, <2>1, <2>2, <1>same
    DEF DeleteRoute, Mirror!Next, Mirror!Vanish, Held, NoRoute, held, Exists
  <2>3. CASE route.fin # {}
    <3>1. route'.uid = route.uid /\ route'.fin = route.fin /\ route'.deleting
      BY <1>11, <2>3, <1>f DEF DeleteRoute, Routes
    <3> QED
      BY <2>1, <3>1, <1>same DEF Mirror!Next, Mirror!Doom, Held, held, Exists
  <2> QED
    BY <2>2, <2>3
<1>12. CASE EditRoute
  <2>1. epic' = epic
    BY <1>12 DEF EditRoute, Change
  <2>2. route'.uid = route.uid /\ route'.fin = route.fin /\ route'.deleting = route.deleting
    BY <1>12, <1>f DEF EditRoute, Routes
  <2> QED
    BY <2>1, <2>2, <1>same DEF Mirror!vars, Held, held
<1>13. CASE CreateService \/ DeleteService \/ \E i \in Parents :
          CreateGateway(i) \/ DeleteGateway(i) \/ \E policy \in Policies : SetPolicy(i, policy)
  BY <1>13, <1>stutter
  DEF CreateService, DeleteService, CreateGateway, DeleteGateway, SetPolicy, Change
<1>14. CASE UNCHANGED vars
  BY <1>14, <1>stutter DEF vars
<1> QED
  BY <1>1, <1>2, <1>3, <1>4, <1>5, <1>6, <1>7, <1>8, <1>9, <1>10, <1>11, <1>12,
     <1>13, <1>14 DEF Next, Reconcile, User

\* Every behaviour of the route's reconciler is a behaviour of EpicMirror.
THEOREM MirrorsRouteHolds == Spec => MirrorsRoute
<1>1. Init => Mirror!Init
  BY DEF Init, Mirror!Init, NoRoute, Held, Stored
<1>2. IInv /\ [Next]_vars => [Mirror!Next]_Mirror!vars
  BY MirrorStep
<1> QED
  BY Invariance, <1>1, <1>2, PTL DEF Spec, MirrorsRoute, Mirror!Spec
=============================================================================
