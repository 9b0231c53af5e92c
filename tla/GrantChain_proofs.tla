--------------------------- MODULE GrantChain_proofs ---------------------------
(***************************************************************************)
(* Proofs about GrantChain, for any grants, Gateways, Secrets and bounds:  *)
(* its types, and that the finalizer goes only from grants that are being  *)
(* deleted.                                                                *)
(*                                                                         *)
(* The second is about old copies.  The reconciler decides by the cached   *)
(* copy, and writes to the grant that has the name later.  What saves it   *)
(* is that a namesake has no finalizer but the one that this reconciler    *)
(* adds, and it can add that only when the cache has caught up.            *)
(***************************************************************************)
EXTENDS GrantChain, FiniteSetTheorems, TLAPS

-----------------------------------------------------------------------------
(* Types.                                                                  *)

WorkerOK(w) == w \in Workers /\ Cardinality(w.at) = IF w.pc = "idle" THEN 0 ELSE 1

\* A listener has a condition of each type, whatever is wrong with its TLS.
LEMMA StatusTyped == \A problem : ListenerStatus(problem) \in Statuses
<1>1. Hopeful \in Statuses
  BY DEF Hopeful, Statuses
<1>2. \A s \in Statuses, c \in Conditions :
         AddListenerCondition(s, c, "False") \in Statuses
  BY DEF AddListenerCondition, Statuses
<1>3. {"Ready", "ResolvedRefs", "Accepted", "Programmed"} \subseteq Conditions
  BY DEF Conditions
<1>4. \A problem : TLSCondition(problem) \in Statuses
  BY <1>1, <1>2, <1>3 DEF TLSCondition
<1> QED
  BY <1>2, <1>3, <1>4 DEF ListenerStatus

LEMMA NothingTyped ==
  /\ NoGrant \in GrantObjects
  /\ NoGateway \in GatewayObjects
  /\ NewGateways \subseteq GatewayObjects
  /\ NoStatus \in Statuses
<1>1. NoStatus \in Statuses
  BY DEF NoStatus, Statuses
<1>2. NoGrant \in GrantObjects
  BY DEF NoGrant, GrantObjects
<1> QED
  BY <1>1, <1>2 DEF NoGateway, NewGateways, GatewayObjects

LEMMA IdleOK == WorkerOK(Idle)
<1>1. Idle \in Workers
  BY NothingTyped DEF Idle, Workers
<1> QED
  BY <1>1, FS_EmptySet DEF Idle, WorkerOK

\* A worker that is at an object, with whatever it has in hand.
LEMMA BusyOK ==
  ASSUME NEW n \in Names, NEW w \in Workers, w.at = {n}, w.pc # "idle"
  PROVE  WorkerOK(w)
BY FS_Singleton DEF WorkerOK

LEMMA AtOK ==
  ASSUME NEW n \in Names,
         NEW label \in {"release", "finalize", "list", "validate", "mark"}
  PROVE  At(n, label) \in Workers /\ WorkerOK(At(n, label))
<1>1. At(n, label) \in Workers /\ At(n, label).at = {n} /\ At(n, label).pc = label
  BY NothingTyped DEF At, Idle, Workers
<1> QED
  BY <1>1, BusyOK

LEMMA NudgingOK ==
  ASSUME NEW at \in SUBSET Names, Cardinality(at) = 1, NEW todo \in SUBSET Gateways
  PROVE  WorkerOK(Nudging(at, todo))
<1> DEFINE w == [Idle EXCEPT !.pc = "nudge", !.at = at, !.todo = todo]
<1>1. w \in Workers /\ w.at = at /\ w.pc = "nudge"
  BY NothingTyped DEF Idle, Workers
<1> HIDE DEF w
<1>2. WorkerOK(w)
  BY <1>1 DEF WorkerOK
<1>3. Nudging(at, todo) = Idle \/ Nudging(at, todo) = w
  BY DEF Nudging, w
<1> QED
  BY <1>2, <1>3, IdleOK

LEMMA CountersOK ==
  ASSUME TypeOK
  PROVE  /\ NoFault \/ Fault => faults' \in 0..MaxFaults
         /\ \A n : Change(n) => changes' \in 0..MaxChanges
BY BoundsAssumption DEF TypeOK, NoFault, Fault, Change

LEMMA TypeOKInit == Init => TypeOK
<1> SUFFICES ASSUME Init
             PROVE  TypeOK
  OBVIOUS
<1>1. /\ grant \in [Grants -> GrantObjects]
      /\ gateway \in [Gateways -> GatewayObjects]
      /\ [w \in Gateways |-> NoGateway] \in [Gateways -> GatewayObjects]
  BY NothingTyped DEF Init
<1>2. seen \in [grant: [Grants -> GrantObjects], gateway: [Gateways -> GatewayObjects]]
  BY <1>1 DEF Init
<1>3. 0 \in 0..MaxChanges /\ 0 \in 0..MaxFaults
  BY BoundsAssumption
<1> QED
  BY <1>1, <1>2, <1>3, IdleOK DEF Init, TypeOK, WorkerOK, Names

\* The steps of the worker for grants.
LEMMA GrantSteps ==
  ASSUME TypeOK, GrantWork
  PROVE  TypeOK'
<1>1. /\ WorkerOK(granter) /\ WorkerOK(gatewayer)
      /\ Grants \subseteq Names /\ Gateways \subseteq Names
      /\ grant \in [Grants -> GrantObjects]
      /\ lags \subseteq Names /\ queue \subseteq Names /\ missed \subseteq Names
  BY DEF TypeOK, WorkerOK, Names
<1>2. UNCHANGED <<gateway, seen, changes, gatewayer>>
  BY DEF GrantWork, ReconcileGrant, ReadGrant, RemoveFinalizer, AddFinalizer, ListGateways, Nudge
<1>3. ASSUME NEW g \in Grants, ReadGrant(g)
      PROVE  TypeOK'
  <2>1. WorkerOK(granter')
    BY <1>1, <1>3, AtOK, IdleOK DEF ReadGrant
  <2>2. queue' \subseteq Names
    BY <1>1, <1>3 DEF ReadGrant
  <2> QED
    BY <1>1, <1>2, <1>3, <2>1, <2>2 DEF ReadGrant, TypeOK, WorkerOK
<1>4. ASSUME NEW g \in Grants, RemoveFinalizer(g)
      PROVE  TypeOK'
  <2>1. WorkerOK(granter')
    BY <1>4, IdleOK DEF RemoveFinalizer
  <2>2. NoFault \/ Fault
    BY <1>4 DEF RemoveFinalizer
  <2>3. faults' \in 0..MaxFaults
    BY <2>2, CountersOK
  <2>4. grant' \in [Grants -> GrantObjects]
    BY <1>1, <1>4, NothingTyped DEF RemoveFinalizer, Gone
  <2>5. lags' \subseteq Names /\ missed' \subseteq Names
    BY <1>1, <1>4 DEF RemoveFinalizer, Gone
  <2> QED
    BY <1>1, <1>2, <1>4, <2>1, <2>3, <2>4, <2>5 DEF RemoveFinalizer, TypeOK, WorkerOK
<1>5. ASSUME NEW g \in Grants, AddFinalizer(g)
      PROVE  TypeOK'
  <2>1. WorkerOK(granter')
    BY <1>1, <1>5, AtOK, IdleOK DEF AddFinalizer
  <2>2. NoFault \/ Fault
    BY <1>5 DEF AddFinalizer
  <2>3. faults' \in 0..MaxFaults
    BY <2>2, CountersOK
  <2>4. grant' \in [Grants -> GrantObjects]
    BY <1>1, <1>5 DEF AddFinalizer, GrantObjects
  <2>5. lags' \subseteq Names /\ queue' \subseteq Names
    BY <1>1, <1>5 DEF AddFinalizer
  <2> QED
    BY <1>1, <1>2, <1>5, <2>1, <2>3, <2>4, <2>5 DEF AddFinalizer, TypeOK, WorkerOK
<1>6. ASSUME NEW g \in Grants, ListGateways(g)
      PROVE  TypeOK'
  <2>1. WorkerOK(granter')
    <3>1. {g} \in SUBSET Names /\ Cardinality({g}) = 1
      BY <1>1, FS_Singleton
    <3>2. {w \in Gateways : seen.gateway[w].exists} \in SUBSET Gateways
      OBVIOUS
    <3> QED
      BY <1>6, <3>1, <3>2, NudgingOK, IdleOK DEF ListGateways
  <2>2. NoFault \/ Fault
    BY <1>6 DEF ListGateways
  <2>3. faults' \in 0..MaxFaults
    BY <2>2, CountersOK
  <2>4. queue' \subseteq Names
    BY <1>1, <1>6 DEF ListGateways
  <2> QED
    BY <1>1, <1>2, <1>6, <2>1, <2>3, <2>4 DEF ListGateways, TypeOK, WorkerOK
<1>7. ASSUME NEW w \in Gateways, Nudge(w)
      PROVE  TypeOK'
  <2>1. WorkerOK(granter')
    <3>1. granter.at \in SUBSET Names /\ Cardinality(granter.at) = 1
      BY <1>1, <1>7 DEF Nudge, WorkerOK, Workers
    <3>2. granter.todo \ {w} \in SUBSET Gateways
      BY <1>1 DEF WorkerOK, Workers
    <3> QED
      BY <1>7, <3>1, <3>2, NudgingOK DEF Nudge
  <2>2. NoFault \/ Fault
    BY <1>7 DEF Nudge
  <2>3. faults' \in 0..MaxFaults
    BY <2>2, CountersOK
  <2>4. lags' \subseteq Names /\ missed' \subseteq Names
    BY <1>1, <1>7 DEF Nudge
  <2> QED
    BY <1>1, <1>2, <1>7, <2>1, <2>3, <2>4 DEF Nudge, TypeOK, WorkerOK
<1> QED
  BY <1>3, <1>4, <1>5, <1>6, <1>7 DEF GrantWork, ReconcileGrant

\* The steps of the worker for Gateways.
LEMMA GatewaySteps ==
  ASSUME TypeOK, NEW w \in Gateways, ReconcileGateway(w)
  PROVE  TypeOK'
<1>1. /\ WorkerOK(granter) /\ WorkerOK(gatewayer)
      /\ w \in Names
      /\ gateway \in [Gateways -> GatewayObjects]
      /\ seen.gateway \in [Gateways -> GatewayObjects]
      /\ lags \subseteq Names /\ queue \subseteq Names /\ missed \subseteq Names
  BY DEF TypeOK, WorkerOK, Names
<1>2. CASE ReadGateway(w)
  <2> DEFINE v == [At(w, "validate") EXCEPT !.refs = seen.gateway[w].refs]
  <2>1. seen.gateway[w].refs \in CertRefs \cup {<<>>}
    BY <1>1 DEF GatewayObjects
  <2>2. v \in Workers /\ v.at = {w} /\ v.pc = "validate"
    BY <1>1, <2>1, NothingTyped DEF At, Idle, Workers
  <2>3. gatewayer' = v \/ gatewayer' = Idle
    BY <1>2 DEF ReadGateway
  <2> HIDE DEF v
  <2>4. WorkerOK(gatewayer')
    BY <1>1, <2>2, <2>3, BusyOK, IdleOK
  <2>5. queue' \subseteq Names
    BY <1>1, <1>2 DEF ReadGateway
  <2> QED
    BY <1>1, <1>2, <2>4, <2>5 DEF ReadGateway, TypeOK, WorkerOK
<1>3. CASE ValidGatewayTLS(w)
  <2>1. PICK readable \in BOOLEAN, secrets \in {Secrets, {}} :
           LET fine == readable /\ secrets = Secrets
           IN  /\ gatewayer' = [At(w, "mark") EXCEPT !.status = ListenerStatus(
                      TLSProblem(GatewayNs, gatewayer.refs, readable, GetGrants(seen.grant), secrets))]
               /\ IF fine THEN NoFault ELSE Fault
               /\ missed' = CASE ~fine                        -> missed \cup {w}
                             [] fine /\ lags \cap Grants = {} -> missed \ {w}
                             [] OTHER                         -> missed
    BY <1>3 DEF ValidGatewayTLS
  <2> DEFINE v == gatewayer'
  <2>2. PICK s \in Statuses : v = [At(w, "mark") EXCEPT !.status = s]
    BY <2>1, StatusTyped
  <2>3. v \in Workers /\ v.at = {w} /\ v.pc = "mark"
    BY <1>1, <2>2, NothingTyped DEF At, Idle, Workers
  <2> HIDE DEF v
  <2>4. WorkerOK(v)
    BY <1>1, <2>3, BusyOK
  <2>5. faults' \in 0..MaxFaults
    BY <2>1, CountersOK
  <2>6. missed' \subseteq Names
    BY <1>1, <2>1
  <2> QED
    BY <1>1, <1>3, <2>4, <2>5, <2>6 DEF ValidGatewayTLS, TypeOK, WorkerOK, v
<1>4. CASE UpdateStatus(w)
  <2>1. WorkerOK(gatewayer')
    BY <1>4, IdleOK DEF UpdateStatus
  <2>2. NoFault \/ Fault
    BY <1>4 DEF UpdateStatus
  <2>3. faults' \in 0..MaxFaults
    BY <2>2, CountersOK
  <2>4. gateway' \in [Gateways -> GatewayObjects]
    <3>1. gatewayer.status \in Statuses /\ gateway[w] \in GatewayObjects
      BY <1>1 DEF WorkerOK, Workers
    <3>2. [gateway[w] EXCEPT !.status = gatewayer.status] \in GatewayObjects
      BY <3>1 DEF GatewayObjects
    <3>3. \/ UNCHANGED gateway
          \/ gateway' = [gateway EXCEPT ![w] = [gateway[w] EXCEPT !.status = gatewayer.status]]
      BY <1>1, <1>4 DEF UpdateStatus
    <3> QED
      BY <1>1, <3>2, <3>3
  <2>5. lags' \subseteq Names /\ queue' \subseteq Names
    BY <1>1, <1>4 DEF UpdateStatus
  <2> QED
    BY <1>1, <1>4, <2>1, <2>3, <2>4, <2>5 DEF UpdateStatus, TypeOK, WorkerOK
<1> QED
  BY <1>2, <1>3, <1>4 DEF ReconcileGateway

\* The steps of the user, the informers and the manager's restart.
LEMMA WorldSteps ==
  ASSUME TypeOK,
         \/ \E w \in Gateways : ChangeGateway(w)
         \/ \E g \in Grants : EditGrant(g) \/ DeleteGrant(g)
         \/ \E n \in Names : Sync(n)
         \/ Crash
  PROVE  TypeOK'
<1>1. /\ WorkerOK(granter) /\ WorkerOK(gatewayer)
      /\ Grants \subseteq Names /\ Gateways \subseteq Names
      /\ grant \in [Grants -> GrantObjects]
      /\ gateway \in [Gateways -> GatewayObjects]
      /\ seen \in [grant: [Grants -> GrantObjects], gateway: [Gateways -> GatewayObjects]]
      /\ lags \subseteq Names /\ queue \subseteq Names /\ missed \subseteq Names
  BY DEF TypeOK, WorkerOK, Names
<1>2. ASSUME NEW n \in Names, Change(n)
      PROVE  /\ changes' \in 0..MaxChanges /\ lags' \subseteq Names
             /\ UNCHANGED <<seen, queue, faults, granter, gatewayer>>
  BY <1>1, <1>2, CountersOK DEF Change
<1>3. ASSUME NEW w \in Gateways, ChangeGateway(w)
      PROVE  TypeOK'
  <2>1. gateway' \in [Gateways -> GatewayObjects]
    BY <1>1, <1>3, NothingTyped DEF ChangeGateway
  <2>2. Change(w) /\ w \in Names
    BY <1>1, <1>3 DEF ChangeGateway
  <2> QED
    BY <1>1, <1>2, <1>3, <2>1, <2>2 DEF ChangeGateway, TypeOK, WorkerOK
<1>4. ASSUME NEW g \in Grants, EditGrant(g)
      PROVE  TypeOK'
  <2>1. grant' \in [Grants -> GrantObjects]
    <3>1. \A spec \in Specs :
             /\ [NoGrant EXCEPT !.exists = TRUE, !.spec = spec] \in GrantObjects
             /\ [grant[g] EXCEPT !.spec = spec] \in GrantObjects
      BY <1>1, NothingTyped DEF GrantObjects
    <3>2. \E new \in GrantObjects : grant' = [grant EXCEPT ![g] = new]
      BY <1>1, <1>4, <3>1 DEF EditGrant
    <3> QED
      BY <1>1, <3>2
  <2>2. Change(g) /\ g \in Names
    BY <1>1, <1>4 DEF EditGrant
  <2> QED
    BY <1>1, <1>2, <1>4, <2>1, <2>2 DEF EditGrant, TypeOK, WorkerOK
<1>5. ASSUME NEW g \in Grants, DeleteGrant(g)
      PROVE  TypeOK'
  <2>1. grant' \in [Grants -> GrantObjects]
    <3>1. grant[g] \in GrantObjects
      BY <1>1
    <3>2. [grant[g] EXCEPT !.deleting = TRUE] \in GrantObjects
      BY <3>1 DEF GrantObjects
    <3>3. \E new \in GrantObjects : grant' = [grant EXCEPT ![g] = new]
      BY <1>1, <1>5, <3>2, NothingTyped DEF DeleteGrant, Gone
    <3> QED
      BY <1>1, <3>3
  <2>2. Change(g) /\ g \in Names
    BY <1>1, <1>5 DEF DeleteGrant
  <2>3. missed' \subseteq Names
    BY <1>1, <1>5 DEF DeleteGrant, Gone
  <2> QED
    BY <1>1, <1>2, <1>5, <2>1, <2>2, <2>3 DEF DeleteGrant, TypeOK, WorkerOK
<1>6. ASSUME NEW n \in Names, Sync(n)
      PROVE  TypeOK'
  <2>1. seen' \in [grant: [Grants -> GrantObjects], gateway: [Gateways -> GatewayObjects]]
    <3>1. CASE n \in Grants
      <4>1. grant[n] \in GrantObjects
        BY <1>1, <3>1
      <4> QED
        BY <1>1, <1>6, <3>1, <4>1 DEF Sync
    <3>2. CASE n \notin Grants
      <4>1. n \in Gateways
        BY <3>2 DEF Names
      <4>2. gateway[n] \in GatewayObjects
        BY <1>1, <4>1
      <4> QED
        BY <1>1, <1>6, <3>2, <4>1, <4>2 DEF Sync
    <3> QED
      BY <3>1, <3>2
  <2>2. lags' \subseteq Names /\ queue' \subseteq Names
    BY <1>1, <1>6 DEF Sync
  <2> QED
    BY <1>1, <1>6, <2>1, <2>2 DEF Sync, TypeOK, WorkerOK
<1>7. CASE Crash
  <2>1. Fault
    BY <1>7 DEF Crash
  <2>2. faults' \in 0..MaxFaults
    BY <2>1, CountersOK
  <2>3. seen' \in [grant: [Grants -> GrantObjects], gateway: [Gateways -> GatewayObjects]]
    BY <1>1, <1>7 DEF Crash
  <2>4. queue' \subseteq Names
    BY <1>1, <1>7 DEF Crash
  <2> QED
    BY <1>7, <2>2, <2>3, <2>4, IdleOK DEF Crash, TypeOK, WorkerOK
<1> QED
  BY <1>3, <1>4, <1>5, <1>6, <1>7

LEMMA TypeOKStep == TypeOK /\ [Next]_vars => TypeOK'
<1> SUFFICES ASSUME TypeOK, [Next]_vars
             PROVE  TypeOK'
  OBVIOUS
<1>1. CASE Next
  BY <1>1, GrantSteps, GatewaySteps, WorldSteps DEF Next
<1>2. CASE UNCHANGED vars
  BY <1>2 DEF vars, TypeOK
<1> QED
  BY <1>1, <1>2

\* Whatever the user does and whatever fails, the state stays in its types, and each
\* worker that is not idle is at exactly one object.
THEOREM TypeCorrect == Spec => []TypeOK
BY TypeOKInit, TypeOKStep, PTL DEF Spec

-----------------------------------------------------------------------------
(* Finalizers.                                                             *)

\* What the cache, and the worker that has read it, still know of a grant that has
\* its finalizer.
CopyInv(g) ==
  /\ grant[g].held => grant[g].exists
  /\ g \notin lags => seen.grant[g] = grant[g]
  /\ seen.grant[g].deleting /\ grant[g].held => grant[g].deleting
  /\ granter.pc = "release" /\ g \in granter.at /\ grant[g].held => grant[g].deleting

IInv == TypeOK /\ \A g \in Grants : CopyInv(g)

LEMMA WorkerFields ==
  /\ Idle.pc = "idle"
  /\ \A n, label : At(n, label).pc = label /\ At(n, label).at = {n}
  /\ \A at, todo : Nudging(at, todo).pc # "release"
<1>1. Idle.pc = "idle"
  BY DEF Idle
<1>2. \A n, label : At(n, label).pc = label /\ At(n, label).at = {n}
  BY DEF At, Idle
<1>3. \A at, todo : [Idle EXCEPT !.pc = "nudge", !.at = at, !.todo = todo].pc = "nudge"
  BY DEF Idle
<1>4. \A at, todo : Nudging(at, todo).pc # "release"
  BY <1>1, <1>3 DEF Nudging
<1> QED
  BY <1>1, <1>2, <1>4

LEMMA CopyInvStep ==
  ASSUME TypeOK, NEW h \in Grants, CopyInv(h), Next
  PROVE  CopyInv(h)'
<1>1. /\ grant \in [Grants -> GrantObjects] /\ grant[h] \in GrantObjects
      /\ seen \in [grant: [Grants -> GrantObjects], gateway: [Gateways -> GatewayObjects]]
      /\ seen.grant[h] \in GrantObjects
  BY DEF TypeOK
<1>0. \A new \in GrantObjects, g \in Grants :
         [grant EXCEPT ![g] = new][h] = IF g = h THEN new ELSE grant[h]
  BY <1>1
<1>2. ASSUME NEW g \in Grants, ReadGrant(g)
      PROVE  CopyInv(h)'
  <2>1. granter'.pc = "release" => granter'.at = {g} /\ seen.grant[g].deleting
    BY <1>2, WorkerFields DEF ReadGrant
  <2> QED
    BY <1>2, <2>1 DEF ReadGrant, CopyInv
<1>3. ASSUME NEW g \in Grants, RemoveFinalizer(g)
      PROVE  CopyInv(h)'
  <2>1. granter'.pc = "idle"
    BY <1>3, WorkerFields DEF RemoveFinalizer
  <2>2. \/ UNCHANGED <<grant, lags>>
        \/ grant' = [grant EXCEPT ![g] = NoGrant] /\ lags' = lags \cup {g}
    BY <1>3 DEF RemoveFinalizer, Gone
  <2>3. UNCHANGED seen /\ lags \subseteq lags'
    BY <1>3 DEF RemoveFinalizer
  <2>4. grant'[h] = grant[h] \/ (g = h /\ ~grant'[h].held /\ h \in lags')
    <3>1. ~NoGrant.held
      BY DEF NoGrant
    <3>2. CASE UNCHANGED <<grant, lags>>
      BY <3>2
    <3>3. CASE grant' = [grant EXCEPT ![g] = NoGrant] /\ lags' = lags \cup {g}
      BY <1>1, <3>1, <3>3
    <3> QED
      BY <2>2, <3>2, <3>3
  <2> QED
    BY <2>1, <2>3, <2>4 DEF CopyInv
<1>4. ASSUME NEW g \in Grants, AddFinalizer(g)
      PROVE  CopyInv(h)'
  <2>1. granter'.pc # "release"
    <3>1. granter' = At(g, "list") \/ granter' = Idle
      BY <1>4 DEF AddFinalizer
    <3> QED
      BY <3>1, WorkerFields
  <2>2. \/ UNCHANGED <<grant, lags>>
        \/ /\ g \notin lags /\ grant[g].exists /\ ~grant[g].deleting
           /\ grant' = [grant EXCEPT ![g] = [grant[g] EXCEPT !.held = TRUE]]
           /\ lags' = lags \cup {g}
    BY <1>1, <1>4 DEF AddFinalizer
  <2>3. UNCHANGED seen
    BY <1>4 DEF AddFinalizer
  <2>4. /\ [grant[h] EXCEPT !.held = TRUE] \in GrantObjects
        /\ [grant[h] EXCEPT !.held = TRUE].exists = grant[h].exists
        /\ [grant[h] EXCEPT !.held = TRUE].deleting = grant[h].deleting
    BY <1>1 DEF GrantObjects
  <2>5. CASE g = h /\ lags' = lags \cup {h} /\ h \notin lags
    BY <1>0, <2>1, <2>2, <2>3, <2>4, <2>5 DEF CopyInv
  <2>6. CASE grant'[h] = grant[h] /\ (h \notin lags' => h \notin lags)
    BY <2>1, <2>3, <2>6 DEF CopyInv
  <2> QED
    BY <1>1, <2>2, <2>5, <2>6
<1>5. ASSUME NEW g \in Grants, ListGateways(g)
      PROVE  CopyInv(h)'
  <2>1. granter'.pc # "release"
    <3>1. granter' = Idle \/ \E at, todo : granter' = Nudging(at, todo)
      BY <1>5 DEF ListGateways
    <3> QED
      BY <3>1, WorkerFields
  <2> QED
    BY <1>5, <2>1 DEF ListGateways, CopyInv
<1>6. ASSUME NEW w \in Gateways, Nudge(w)
      PROVE  CopyInv(h)'
  <2>1. granter'.pc # "release"
    BY <1>6, WorkerFields DEF Nudge
  <2>2. UNCHANGED <<grant, seen>> /\ lags \subseteq lags'
    BY <1>6 DEF Nudge
  <2> QED
    BY <2>1, <2>2 DEF CopyInv
<1>7. ASSUME NEW w \in Gateways, ReconcileGateway(w) \/ ChangeGateway(w)
      PROVE  CopyInv(h)'
  <2>1. UNCHANGED <<grant, seen, granter>> /\ lags \subseteq lags'
    BY <1>7 DEF ReconcileGateway, ReadGateway, ValidGatewayTLS, UpdateStatus, ChangeGateway, Change
  <2> QED
    BY <2>1 DEF CopyInv
<1>8. ASSUME NEW g \in Grants, EditGrant(g)
      PROVE  CopyInv(h)'
  <2>1. UNCHANGED <<seen, granter>> /\ lags' = lags \cup {g}
    BY <1>8 DEF EditGrant, Change
  <2>2. PICK spec \in Specs :
           \/ grant' = [grant EXCEPT ![g] = [NoGrant EXCEPT !.exists = TRUE, !.spec = spec]]
           \/ grant' = [grant EXCEPT ![g] = [grant[g] EXCEPT !.spec = spec]]
    BY <1>1, <1>8 DEF EditGrant
  <2>3. \/ grant'[h] = grant[h] /\ g # h
        \/ g = h /\ ~grant'[h].held
        \/ /\ g = h /\ grant'[h].held = grant[h].held
           /\ grant'[h].exists = grant[h].exists /\ grant'[h].deleting = grant[h].deleting
    <3>1. CASE g # h
      BY <1>1, <2>2, <3>1
    <3>2. CASE g = h
      <4> DEFINE new == [NoGrant EXCEPT !.exists = TRUE, !.spec = spec]
                 edited == [grant[h] EXCEPT !.spec = spec]
      <4>1. ~new.held
        BY DEF NoGrant
      <4>2. /\ edited.held = grant[h].held /\ edited.exists = grant[h].exists
            /\ edited.deleting = grant[h].deleting
        BY <1>1 DEF GrantObjects
      <4>3. grant'[h] = new \/ grant'[h] = edited
        BY <1>1, <2>2, <3>2
      <4> HIDE DEF new, edited
      <4> QED
        BY <3>2, <4>1, <4>2, <4>3
    <3> QED
      BY <3>1, <3>2
  <2> QED
    BY <2>1, <2>3 DEF CopyInv
<1>9. ASSUME NEW g \in Grants, DeleteGrant(g)
      PROVE  CopyInv(h)'
  <2>1. UNCHANGED <<seen, granter>> /\ lags' = lags \cup {g}
    BY <1>9 DEF DeleteGrant, Change
  <2>2. \/ grant' = [grant EXCEPT ![g].deleting = TRUE]
        \/ grant' = [grant EXCEPT ![g] = NoGrant]
    BY <1>9 DEF DeleteGrant, Gone
  <2>3. \/ grant'[h] = grant[h] /\ g # h
        \/ g = h /\ ~grant'[h].held
        \/ /\ g = h /\ grant'[h].held = grant[h].held
           /\ grant'[h].exists = grant[h].exists /\ grant'[h].deleting
    BY <1>1, <2>2 DEF NoGrant, GrantObjects
  <2> QED
    BY <2>1, <2>3 DEF CopyInv
<1>10. ASSUME NEW n \in Names, Sync(n)
       PROVE  CopyInv(h)'
  <2>1. UNCHANGED <<grant, granter>> /\ lags' = lags \ {n}
    BY <1>10 DEF Sync
  <2>2. seen'.grant[h] = IF n = h THEN grant[h] ELSE seen.grant[h]
    BY <1>1, <1>10 DEF Sync
  <2> QED
    BY <2>1, <2>2 DEF CopyInv
<1>11. CASE Crash
  <2>1. granter'.pc = "idle" /\ seen'.grant = grant /\ UNCHANGED grant
    BY <1>11 DEF Crash, Idle
  <2> QED
    BY <2>1 DEF CopyInv
<1> QED
  BY <1>2, <1>3, <1>4, <1>5, <1>6, <1>7, <1>8, <1>9, <1>10, <1>11
     DEF Next, GrantWork, ReconcileGrant

LEMMA IInvHolds == Spec => []IInv
<1>1. Init => IInv
  <2> SUFFICES ASSUME Init, NEW g \in Grants
               PROVE  CopyInv(g)
    BY TypeOKInit DEF IInv
  <2>1. seen.grant = grant /\ granter.pc = "idle"
    BY DEF Init, Idle
  <2>2. ~grant[g].held
    BY DEF Init, NoGrant
  <2> QED
    BY <2>1, <2>2 DEF CopyInv
<1>2. IInv /\ [Next]_vars => IInv'
  <2> SUFFICES ASSUME IInv, [Next]_vars
               PROVE  IInv'
    OBVIOUS
  <2>1. TypeOK'
    BY TypeOKStep DEF IInv
  <2>2. CASE Next
    BY <2>1, <2>2, CopyInvStep DEF IInv
  <2>3. CASE UNCHANGED vars
    BY <2>1, <2>3 DEF vars, IInv, CopyInv
  <2> QED
    BY <2>2, <2>3
<1> QED
  BY <1>1, <1>2, PTL DEF Spec

\* The finalizer is taken only off a grant that is being deleted, however old the
\* copy is that the reconciler has read.
THEOREM ReleasedWhenDeletedHolds == Spec => ReleasedWhenDeleted
<1> DEFINE Step == \A g \in Grants : grant[g].held /\ ~grant'[g].held => grant[g].deleting
<1>1. ASSUME IInv, Next
      PROVE  Step
  <2> SUFFICES ASSUME NEW h \in Grants, grant[h].held, ~grant'[h].held
               PROVE  grant[h].deleting
    OBVIOUS
  <2>1. grant \in [Grants -> GrantObjects] /\ CopyInv(h)
    BY <1>1 DEF IInv, TypeOK
  <2>2. ASSUME NEW g \in Grants, RemoveFinalizer(g)
        PROVE  grant[h].deleting
    <3>1. granter.pc = "release" /\ g \in granter.at
      BY <2>2 DEF RemoveFinalizer
    <3>2. grant' = grant \/ grant' = [grant EXCEPT ![g] = NoGrant]
      BY <2>2 DEF RemoveFinalizer, Gone
    <3> QED
      BY <2>1, <3>1, <3>2 DEF CopyInv
  <2>3. ASSUME NEW g \in Grants, AddFinalizer(g)
        PROVE  FALSE
    <3>1. grant' = grant \/ grant' = [grant EXCEPT ![g].held = TRUE]
      BY <2>3 DEF AddFinalizer
    <3> QED
      BY <2>1, <3>1 DEF GrantObjects
  <2>4. ASSUME NEW g \in Grants, EditGrant(g)
        PROVE  FALSE
    <3>1. \E spec :
             \/ /\ ~grant[g].exists
                /\ grant' = [grant EXCEPT ![g] = [NoGrant EXCEPT !.exists = TRUE, !.spec = spec]]
             \/ grant' = [grant EXCEPT ![g].spec = spec]
      BY <2>4 DEF EditGrant
    <3> QED
      BY <2>1, <3>1 DEF CopyInv, GrantObjects
  <2>5. ASSUME NEW g \in Grants, DeleteGrant(g)
        PROVE  FALSE
    <3>1. \/ grant' = [grant EXCEPT ![g].deleting = TRUE]
          \/ ~grant[g].held /\ grant' = [grant EXCEPT ![g] = NoGrant]
      BY <2>5 DEF DeleteGrant, Gone
    <3> QED
      BY <2>1, <3>1 DEF GrantObjects
  <2>6. CASE UNCHANGED grant
    BY <2>6
  <2> QED
    BY <1>1, <2>2, <2>3, <2>4, <2>5, <2>6
       DEF Next, GrantWork, ReconcileGrant, ReadGrant, ListGateways, Nudge, ReconcileGateway,
           ReadGateway, ValidGatewayTLS, UpdateStatus, ChangeGateway, Sync, Crash
<1>2. IInv /\ [Next]_vars => [Step]_vars
  BY <1>1
<1> QED
  BY <1>2, IInvHolds, PTL DEF Spec, ReleasedWhenDeleted
=============================================================================
