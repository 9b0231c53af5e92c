------------------------- MODULE GatewayLifecycle_proofs -------------------------
(***************************************************************************)
(* Proofs, for every number of changes and faults and whether or not the   *)
(* retries are patient, that a Gateway's finalizer protects what is at     *)
(* EPIC: type correctness, LinkOwner, NoOrphan until something fails, and  *)
(* that the reconciler is a mirror of the Gateway.                         *)
(*                                                                         *)
(* The argument is that of RouteLifecycle_proofs: only the worker adds and *)
(* removes the finalizer, so a copy that carries it and is not marked for  *)
(* deletion is a copy of the Gateway that is at the API server.            *)
(***************************************************************************)
EXTENDS GatewayLifecycle, TLAPS

\* UIDs come from the counter, so a new one is larger than any in use.
Fresh ==
    /\ gw.uid <= changes
    /\ cache.uid <= changes
    /\ obj.uid <= changes
    /\ \A u \in epic : u <= changes /\ u # 0

\* UID 0 is nobody's.
Vanished(copy) == ~Exists(copy) => copy = NoGateway

\* What an old copy says of the Gateway at the API server.
Faithful(copy) ==
    /\ Exists(copy) /\ copy.held /\ ~copy.deleting => gw.uid = copy.uid /\ gw.held
    /\ Exists(copy) /\ copy.deleting =>
          IF gw.uid = copy.uid THEN gw.deleting ELSE ~gw.held

\* The calls after AddFinalizer: the Gateway that the worker holds is the one at
\* the API server, and cannot go.
HoldingPcs == MarkPcs \cup {"children", "announce", "refuse", "link", "address", "nudge"}
WorkerHolds == pc \in HoldingPcs => Exists(obj) /\ gw.uid = obj.uid /\ gw.held

\* What the worker knows of its copy in the calls before that.
WorkerKnows ==
    /\ pc = "finalize" => Exists(obj) /\ ~obj.deleting
    /\ pc = "unfinalize" => Exists(obj) /\ obj.deleting

IInv ==
    /\ TypeOK
    /\ Fresh
    /\ Vanished(gw)
    /\ Vanished(cache)
    /\ Faithful(cache)
    /\ Faithful(obj)
    /\ WorkerKnows
    /\ WorkerHolds
    /\ LinkOwner

-----------------------------------------------------------------------------
(* Type correctness.                                                       *)

LEMMA StampFacts ==
    /\ 0 \in Stamps
    /\ Stamps \subseteq Nat
    /\ \A n \in Stamps : n < MaxChanges => n + 1 \in Stamps
BY BoundsAssumption DEF Stamps

LEMMA GatewayFields ==
    /\ NoGateway \in Gateways
    /\ \A g \in Gateways : /\ g.uid \in Stamps /\ g.link \in Stamps
                           /\ g.deleting \in BOOLEAN /\ g.held \in BOOLEAN
                           /\ g.addressed \in BOOLEAN /\ g.status \in Statuses
BY StampFacts DEF Gateways, NoGateway, Statuses

LEMMA GatewayUpdates ==
    ASSUME NEW g \in Gateways
    PROVE  /\ \A n \in Stamps : [g EXCEPT !.uid = n] \in Gateways
           /\ \A n \in Stamps : [g EXCEPT !.link = n] \in Gateways
           /\ \A x \in Statuses : [g EXCEPT !.status = x] \in Gateways
           /\ \A b \in BOOLEAN : [g EXCEPT !.held = b] \in Gateways
           /\ [g EXCEPT !.deleting = TRUE] \in Gateways
           /\ [g EXCEPT !.addressed = TRUE] \in Gateways
BY GatewayFields DEF Gateways

\* Every action keeps every variable in its type.
LEMMA TypeStep == TypeOK /\ [Next]_vars => TypeOK'
<1> SUFFICES ASSUME TypeOK, [Next]_vars PROVE TypeOK'
  OBVIOUS
<1> USE StampFacts, GatewayFields DEF TypeOK, Goto, Finish, world, worker
<1>a. {"idle", "unfinalize", "delete", "finalize", "children", "announce", "refuse", "link",
       "address", "nudge", "invalid", "refresh", "status"} = Pcs
  BY DEF Pcs, MarkPcs
<1>b. Fault \/ NoFault => faults' \in 0..MaxFaults
  BY BoundsAssumption DEF Fault, NoFault
<1>1. CASE GetGateway
  BY <1>1, <1>a DEF GetGateway
<1>2. CASE AddFinalizer
  BY <1>2, <1>a, GatewayUpdates DEF AddFinalizer
<1>3. CASE Children
  BY <1>3, <1>a DEF Children
<1>4. CASE Announce
  BY <1>4, <1>a, <1>b DEF Announce
<1>5. CASE Refuse
  BY <1>5, <1>a, GatewayUpdates DEF Refuse, Statuses
<1>6. CASE AddEpicLink
  <2>1. [gw EXCEPT !.link = obj.uid] \in Gateways
    BY GatewayUpdates
  <2>2. gw' \in Gateways /\ obj' \in Gateways
    BY <1>6, <2>1 DEF AddEpicLink
  <2> QED
    BY <1>6, <1>a, <2>2 DEF AddEpicLink
<1>7. CASE MarkAddresses
  BY <1>7, <1>a, GatewayUpdates DEF MarkAddresses
<1>8. CASE UpdateStatus
  BY <1>8, <1>a, GatewayUpdates DEF UpdateStatus, StatusFor, Statuses
<1>9. CASE NudgeChildren
  BY <1>9, <1>a, <1>b DEF NudgeChildren
<1>10. CASE RemoveFinalizer
  BY <1>10, <1>a, GatewayUpdates DEF RemoveFinalizer
<1>11. CASE Delete
  BY <1>11, <1>a, <1>b DEF Delete
<1>12. CASE CallFails
  BY <1>12, <1>a, <1>b DEF CallFails
<1>13. CASE Crash
  BY <1>13, <1>a, <1>b DEF Crash, Exists
<1>14. CASE Sync \/ Touch \/ ChildReconcile
  BY <1>14 DEF Sync, Touch, ChildReconcile
<1>15. CASE User
  <2>1. \A op \in Ops : Change(op) => changes' \in Stamps
    BY DEF Change
  <2>2. CASE CreateGateway
    BY <2>1, <2>2, GatewayUpdates DEF CreateGateway, Change, Ops
  <2>3. CASE DeleteGateway
    BY <2>1, <2>3, GatewayUpdates DEF DeleteGateway, Change, Ops
  <2>4. CASE SetTLS \/ SetClass \/ CreateChild
    BY <2>1, <2>4 DEF SetTLS, SetClass, CreateChild, Change, Ops
  <2> QED
    BY <1>15, <2>2, <2>3, <2>4 DEF User
<1>16. CASE UNCHANGED vars
  BY <1>16 DEF vars
<1> QED
  BY <1>1, <1>2, <1>3, <1>4, <1>5, <1>6, <1>7, <1>8, <1>9, <1>10, <1>11, <1>12,
     <1>13, <1>14, <1>15, <1>16 DEF Next, Reconcile

-----------------------------------------------------------------------------
(* The inductive invariant.                                                *)

\* The invariant holds at the start.
LEMMA InvInit == Init => IInv
<1> SUFFICES ASSUME Init PROVE IInv
  OBVIOUS
<1>1. TypeOK
  <2>1. 0 \in 0..MaxFaults
    BY BoundsAssumption
  <2>2. class \in Classes /\ pc \in Pcs
    BY DEF Init, Classes, Pcs
  <2> QED
    BY <2>1, <2>2, StampFacts, GatewayFields DEF Init, TypeOK
<1> QED
  BY <1>1 DEF Init, IInv, Fresh, Vanished, Faithful, WorkerKnows, WorkerHolds, HoldingPcs, MarkPcs,
              LinkOwner, Exists, Linked, NoGateway

\* Every step keeps it.
LEMMA InvStep == IInv /\ [Next]_vars => IInv'
<1> SUFFICES ASSUME IInv, [Next]_vars PROVE IInv'
  OBVIOUS
<1>t. TypeOK /\ TypeOK'
  BY TypeStep DEF IInv
<1>f. /\ gw \in Gateways /\ cache \in Gateways /\ obj \in Gateways
      /\ gw' \in Gateways /\ cache' \in Gateways /\ obj' \in Gateways
      /\ changes \in Nat /\ changes' \in Nat
      /\ epic \subseteq Stamps /\ epic' \subseteq Stamps
  BY <1>t, StampFacts DEF TypeOK
<1> USE <1>t, <1>f, StampFacts
    DEF IInv, Fresh, Vanished, Faithful, WorkerKnows, WorkerHolds, HoldingPcs, MarkPcs, LinkOwner,
        Gateways, Exists, Linked, NoGateway, Goto, Finish, world, worker
<1>1. CASE GetGateway
  BY <1>1 DEF GetGateway
<1>2. CASE AddFinalizer
  BY <1>2 DEF AddFinalizer, Current
<1>3. CASE Children
  BY <1>3 DEF Children
<1>4. CASE Announce
  BY <1>4 DEF Announce
<1>5. CASE Refuse
  BY <1>5 DEF Refuse
<1>6. CASE AddEpicLink
  BY <1>6 DEF AddEpicLink
<1>7. CASE MarkAddresses
  BY <1>7 DEF MarkAddresses
<1>8. CASE UpdateStatus
  BY <1>8 DEF UpdateStatus
<1>9. CASE NudgeChildren
  BY <1>9 DEF NudgeChildren
<1>10. CASE RemoveFinalizer
  BY <1>10 DEF RemoveFinalizer, Current
<1>11. CASE Delete
  BY <1>11 DEF Delete
<1>12. CASE CallFails
  BY <1>12 DEF CallFails
<1>13. CASE Crash
  BY <1>13 DEF Crash
<1>14. CASE Sync \/ Touch \/ ChildReconcile
  BY <1>14 DEF Sync, Touch, ChildReconcile
<1>15. CASE User
  <2>1. CASE CreateGateway
    BY <2>1 DEF CreateGateway, Change
  <2>2. CASE DeleteGateway
    BY <2>2 DEF DeleteGateway, Change, Live
  <2>3. CASE UNCHANGED <<gw, cache, epic, worker>> /\ changes' = changes + 1
    <3>1. \A n \in Nat : n <= changes => n <= changes'
      BY <2>3
    <3>2. \A u \in epic' : u <= changes' /\ u # 0
      BY <2>3, <3>1
    <3>3. Fresh'
      BY <2>3, <3>1, <3>2
    <3>4. /\ Vanished(gw)' /\ Vanished(cache)' /\ Faithful(cache)' /\ Faithful(obj)'
          /\ WorkerKnows' /\ WorkerHolds' /\ LinkOwner'
      BY <2>3
    <3> QED
      BY <3>3, <3>4
  <2> QED
    BY <1>15, <2>1, <2>2, <2>3 DEF User, SetTLS, SetClass, CreateChild, Change
<1>16. CASE UNCHANGED vars
  BY <1>16 DEF vars
<1> QED
  BY <1>1, <1>2, <1>3, <1>4, <1>5, <1>6, <1>7, <1>8, <1>9, <1>10, <1>11, <1>12,
     <1>13, <1>14, <1>15, <1>16 DEF Next, Reconcile

-----------------------------------------------------------------------------
(* The theorems that hold whatever fails.                                  *)

\* The strengthened invariant.
LEMMA Invariance == Spec => []IInv
  BY InvInit, InvStep, PTL DEF Spec

\* Every variable of the specification stays in its type.
THEOREM TypeCorrect == Spec => []TypeOK
<1>1. IInv => TypeOK
  BY DEF IInv
<1> QED
  BY Invariance, <1>1, PTL

\* addEpicLink never puts the link of one Gateway on another.
THEOREM LinkOwnerHolds == Spec => []LinkOwner
<1>1. IInv => LinkOwner
  BY DEF IInv
<1> QED
  BY Invariance, <1>1, PTL

-----------------------------------------------------------------------------
(* Without failures nothing is left behind.                                *)

\* Each resource has a protected Gateway that has or is about to get the link,
\* or is about to be deleted.
Kept ==
    \A u \in epic :
       \/ gw.uid = u /\ gw.held /\ (gw.link = u \/ (pc = "link" /\ obj.uid = u))
       \/ pc = "delete" /\ obj.link = u

\* Failures are counted, and none is forgotten.
LEMMA FaultsStep == TypeOK /\ [Next]_vars => faults' = faults \/ Fault
<1> SUFFICES ASSUME TypeOK, [Next]_vars PROVE faults' = faults \/ Fault
  OBVIOUS
<1>1. CASE Reconcile
  BY <1>1 DEF Reconcile, GetGateway, AddFinalizer, Children, Announce, Refuse, AddEpicLink,
              MarkAddresses, UpdateStatus, NudgeChildren, RemoveFinalizer, Delete, NoFault
<1>2. CASE CallFails \/ Crash \/ Sync \/ Touch \/ ChildReconcile
  BY <1>2 DEF CallFails, Crash, Sync, Touch, ChildReconcile
<1>3. CASE User
  BY <1>3 DEF User, Change, CreateGateway, DeleteGateway, SetTLS, SetClass, CreateChild
<1>4. CASE UNCHANGED vars
  BY <1>4 DEF vars
<1> QED
  BY <1>1, <1>2, <1>3, <1>4 DEF Next

\* Until something fails Kept is inductive on top of IInv.
LEMMA KeptStep == IInv /\ (faults = 0 => Kept) /\ [Next]_vars => (faults' = 0 => Kept')
<1> SUFFICES ASSUME IInv, faults = 0 => Kept, [Next]_vars, faults' = 0 PROVE Kept'
  OBVIOUS
<1>t. TypeOK /\ TypeOK'
  BY TypeStep DEF IInv
<1>n. ~Fault
  BY <1>t DEF Fault, TypeOK
<1>k. Kept
  BY <1>n, <1>t, FaultsStep
<1>i. Vanished(gw) /\ Vanished(cache) /\ WorkerHolds /\ LinkOwner /\ Fresh
  BY DEF IInv
<1>f. /\ gw \in Gateways /\ cache \in Gateways /\ obj \in Gateways
      /\ epic \subseteq Stamps
  BY <1>t DEF TypeOK
<1> USE <1>f, <1>n, <1>k, <1>i
    DEF Kept, Vanished, WorkerHolds, HoldingPcs, MarkPcs, LinkOwner, Fresh, Gateways, Exists, Linked,
        NoGateway, Goto, Finish, world, worker
<1>1. CASE GetGateway \/ Children \/ NudgeChildren
  BY <1>1 DEF GetGateway, Children, NudgeChildren
<1>2. CASE AddFinalizer
  BY <1>2 DEF AddFinalizer, Current
<1>3. CASE Announce
  BY <1>3 DEF Announce
<1>4. CASE Refuse
  BY <1>4 DEF Refuse
<1>5. CASE AddEpicLink
  BY <1>5 DEF AddEpicLink
<1>6. CASE MarkAddresses
  BY <1>6 DEF MarkAddresses
<1>7. CASE UpdateStatus
  BY <1>7 DEF UpdateStatus
<1>8. CASE RemoveFinalizer
  BY <1>8 DEF RemoveFinalizer, Current
<1>9. CASE Delete
  BY <1>9 DEF Delete
<1>10. CASE CallFails \/ Crash
  BY <1>10 DEF CallFails, Crash
<1>11. CASE Sync \/ Touch \/ ChildReconcile
  BY <1>11 DEF Sync, Touch, ChildReconcile
<1>12. CASE User
  <2>1. CASE CreateGateway
    BY <2>1 DEF CreateGateway, Change
  <2>2. CASE DeleteGateway
    BY <2>2 DEF DeleteGateway, Change, Live
  <2>3. CASE UNCHANGED <<gw, epic, worker>>
    BY <2>3
  <2> QED
    BY <1>12, <2>1, <2>2, <2>3 DEF User, SetTLS, SetClass, CreateChild, Change
<1>13. CASE UNCHANGED vars
  BY <1>13 DEF vars
<1> QED
  BY <1>1, <1>2, <1>3, <1>4, <1>5, <1>6, <1>7, <1>8, <1>9, <1>10, <1>11, <1>12,
     <1>13 DEF Next, Reconcile

\* Until something fails EPIC keeps no resource without a live Gateway that links
\* to it, save for the moments between the two calls that make it so.
THEOREM NoOrphanHolds == Spec => []NoOrphan
<1>1. Init => (faults = 0 => Kept)
  BY DEF Init, Kept
<1>2. IInv /\ (faults = 0 => Kept) /\ [Next]_vars => (faults = 0 => Kept)'
  BY KeptStep
<1>3. (faults = 0 => Kept) => NoOrphan
  BY DEF Kept, NoOrphan
<1> QED
  BY Invariance, <1>1, <1>2, <1>3, PTL DEF Spec

-----------------------------------------------------------------------------
(* The reconciler is a mirror of the Gateway.                              *)

\* A step of the reconciler, or around it, is a step of EpicMirror or none.
LEMMA MirrorStep == IInv /\ [Next]_vars => [Mirror!Next]_Mirror!vars
<1> SUFFICES ASSUME IInv, [Next]_vars PROVE [Mirror!Next]_Mirror!vars
  OBVIOUS
<1>t. TypeOK /\ TypeOK'
  BY TypeStep DEF IInv
<1>f. gw \in Gateways /\ cache \in Gateways /\ obj \in Gateways /\ epic \subseteq Stamps
  BY <1>t DEF TypeOK
<1>i. /\ Vanished(gw) /\ Fresh /\ WorkerHolds /\ WorkerKnows
      /\ Faithful(obj) /\ Faithful(cache)
  BY DEF IInv
<1>stutter. /\ gw'.uid = gw.uid /\ gw'.held = gw.held /\ gw'.deleting = gw.deleting
            /\ epic' = epic
            => UNCHANGED Mirror!vars
  BY DEF Mirror!vars
<1>1. CASE Announce
  <2>1. gw' = gw /\ epic' = epic \cup {gw.uid} /\ gw.held
    BY <1>1, <1>i DEF Announce, WorkerHolds, HoldingPcs
  <2> QED
    BY <2>1 DEF Mirror!Next, Mirror!Announce
<1>2. CASE Delete
  <2>1. gw' = gw /\ epic' = epic \ {obj.link} /\ obj.link \in Stamps
    BY <1>2, <1>f DEF Delete, Gateways
  <2> QED
    BY <2>1 DEF Mirror!Next, Mirror!Withdraw
<1>3. CASE AddFinalizer
  <2>1. epic' = epic
    BY <1>3 DEF AddFinalizer
  <2>2. CASE gw' = gw
    BY <2>1, <2>2, <1>stutter
  <2>3. CASE Current /\ ~gw.deleting /\ gw' = [gw EXCEPT !.held = TRUE]
    BY <2>1, <2>3, <1>f DEF Current, Exists, Mirror!Next, Mirror!Guard, Gateways
  <2> QED
    BY <1>3, <2>2, <2>3 DEF AddFinalizer
<1>4. CASE RemoveFinalizer
  <2>1. epic' = epic
    BY <1>4 DEF RemoveFinalizer
  <2>2. CASE gw' = gw
    BY <2>1, <2>2, <1>stutter
  <2>3. CASE /\ Current
             /\ gw' = IF gw.deleting THEN NoGateway ELSE [gw EXCEPT !.held = FALSE]
    <3>1. IF gw.uid = obj.uid THEN gw.deleting ELSE ~gw.held
      BY <1>4, <1>i DEF RemoveFinalizer, WorkerKnows, Faithful
    <3>2. CASE gw.deleting
      BY <2>1, <2>3, <3>2 DEF Mirror!Next, Mirror!Release, NoGateway
    <3>3. CASE ~gw.deleting
      BY <2>1, <2>3, <3>1, <3>3, <1>f, <1>stutter DEF Gateways
    <3> QED
      BY <3>2, <3>3
  <2> QED
    BY <1>4, <2>2, <2>3 DEF RemoveFinalizer
<1>5. CASE Refuse \/ AddEpicLink \/ MarkAddresses \/ UpdateStatus
  BY <1>5, <1>f, <1>stutter DEF Refuse, AddEpicLink, MarkAddresses, UpdateStatus, Gateways
<1>6. CASE \/ GetGateway \/ Children \/ NudgeChildren \/ CallFails \/ Crash
           \/ Sync \/ Touch \/ ChildReconcile \/ SetTLS \/ SetClass \/ CreateChild
  BY <1>6, <1>stutter
  DEF GetGateway, Children, NudgeChildren, CallFails, Crash, Sync, Touch, ChildReconcile,
      SetTLS, SetClass, CreateChild, Change
<1>7. CASE CreateGateway
  <2>1. /\ epic' = epic /\ gw = NoGateway /\ changes' = changes + 1
        /\ gw' = [NoGateway EXCEPT !.uid = changes']
    BY <1>7, <1>i DEF CreateGateway, Change, Vanished
  <2>2. changes \in Nat /\ changes' \in Stamps
    BY <1>t, StampFacts DEF TypeOK
  <2>3. changes' \notin epic /\ changes' # 0
    BY <1>i, <1>f, <2>1, <2>2, StampFacts DEF Fresh
  <2> QED
    BY <2>1, <2>2, <2>3 DEF Mirror!Next, Mirror!Appear, NoGateway
<1>8. CASE DeleteGateway
  <2>1. epic' = epic /\ Exists(gw)
    BY <1>8 DEF DeleteGateway, Change, Live
  <2>2. CASE gw.held
    BY <1>8, <2>1, <2>2, <1>f DEF DeleteGateway, Mirror!Next, Mirror!Doom, Gateways, Exists
  <2>3. CASE ~gw.held
    BY <1>8, <2>1, <2>3 DEF DeleteGateway, Mirror!Next, Mirror!Vanish, NoGateway, Exists
  <2> QED
    BY <2>2, <2>3
<1>9. CASE UNCHANGED vars
  BY <1>9, <1>stutter DEF vars
<1> QED
  BY <1>1, <1>2, <1>3, <1>4, <1>5, <1>6, <1>7, <1>8, <1>9 DEF Next, Reconcile, User

\* Every behaviour of the Gateway's reconciler is a behaviour of EpicMirror.
THEOREM MirrorsGatewayHolds == Spec => MirrorsGateway
<1>1. Init => Mirror!Init
  BY DEF Init, Mirror!Init, NoGateway
<1>2. IInv /\ [Next]_vars => [Mirror!Next]_Mirror!vars
  BY MirrorStep
<1> QED
  BY Invariance, <1>1, <1>2, PTL DEF Spec, MirrorsGateway, Mirror!Spec
=============================================================================
