---------------------------- MODULE SliceShadow_proofs ----------------------------
(***************************************************************************)
(* Proofs, for every set of Services and slices and every number of        *)
(* changes and faults, that the two reconcilers that write EPIC's slices   *)
(* do not need a lock: type correctness, LinkWorks and NeverBackwards, and *)
(* PassComplete where no Service has more than one slice.                  *)
(*                                                                         *)
(* What carries the argument is that a slice's name is never used twice,   *)
(* so that a slice whose deletion the informer has seen is dead for good,  *)
(* that only slices which the informer has seen get a shadow, and that     *)
(* whatever is on its way to EPIC is no newer than the informer's copy.    *)
(***************************************************************************)
EXTENDS SliceShadow, FiniteSetTheorems, TLAPS

\* The types, with the sets of one slice said to be that.
Types ==
    /\ slice \in [Slices -> Versions]
    /\ seen \in [Slices -> Versions]
    /\ used \subseteq Slices
    /\ broken \subseteq Versions
    /\ shadow \subseteq Slices
    /\ seenShadow \subseteq Slices
    /\ epic \in [Slices -> Versions]
    /\ changes \in Versions
    /\ faults \in 0..MaxFaults
    /\ rpc \in RoutePcs
    /\ todo \in [Slices -> 0..Cardinality(Slices)]
    /\ read \in [Slices -> Versions]
    /\ IF rpc \in {"post", "shadow"} THEN \E s \in Slices : at = {s} ELSE at = {}
    /\ queue \subseteq Slices
    /\ spc \in SlicePcs
    /\ IF spc = "idle" THEN cur = {} ELSE \E s \in Slices : cur = {s}
    /\ version \in Versions

\* Versions come from the counter, and the informer's copy is an old version.
Ordered ==
    \A s \in Slices :
       /\ slice[s] <= changes
       /\ seen[s] <= changes
       /\ slice[s] # 0 => seen[s] <= slice[s]
       /\ slice[s] # 0 \/ seen[s] # 0 => s \in used

\* A slice that is gone, as the informer knows; it does not come back.
Dead(s) == s \in used /\ slice[s] = 0 /\ seen[s] = 0

\* What anybody has to do with has been seen, so the informer has no copy of it
\* only if it is gone.
Met(s) == s \in shadow \cup seenShadow \cup cur \/ read[s] # 0 \/ epic[s] # 0
Acquainted == \A s \in Slices : Met(s) => s \in used /\ (seen[s] = 0 => slice[s] = 0)

\* Neither EPIC nor the route's reconciler is ahead of the informer.
Behind == \A s \in Slices : seen[s] # 0 => read[s] <= seen[s] /\ epic[s] <= seen[s]

\* A slice that was announced stays at EPIC until it is dead.
Kept(s) == epic[s] # 0 \/ Dead(s)
ShadowsKept == \A s \in shadow \cup seenShadow : Kept(s)

\* What each reconciler knows at its calls.
AnnouncerKnows ==
    /\ \A s \in at : todo[s] # 0
    /\ \A s \in Slices : todo[s] # 0 => read[s] # 0
    /\ rpc = "shadow" => \A s \in at : Kept(s)

UpdaterKnows ==
    \A s \in cur :
       /\ Kept(s)
       /\ spc \in {"delete", "unshadow"} => Dead(s)
       /\ spc = "put" => /\ version # 0 /\ epic[s] # 0
                         /\ epic[s] <= version
                         /\ seen[s] # 0 => version <= seen[s]

IInv ==
    /\ Types
    /\ Ordered
    /\ Acquainted
    /\ Behind
    /\ ShadowsKept
    /\ AnnouncerKnows
    /\ UpdaterKnows

-----------------------------------------------------------------------------
(* The list of pointers.                                                   *)

\* There are finitely many slices, and no more pointers to one than slices
\* (Pointers, for routeSlices).
LEMMA SlicesFinite == IsFiniteSet(Slices) /\ Cardinality(Slices) \in Nat
<1>1. IsFiniteSet(Slices)
  BY FS_UNION, BackendsAssumption DEF Slices
<1> QED
  BY <1>1, FS_CardinalityType

LEMMA PointersBounded ==
  ASSUME NEW s, NEW last
  PROVE  Pointers(s, last) \in 0..Cardinality(Slices)
<1> DEFINE P == {t \in Slices : seen[t] # 0 /\ \E b \in Backends : {s, t} \subseteq b}
<1>1. P \subseteq Slices
  OBVIOUS
<1>2. Cardinality(P) \in Nat /\ Cardinality(P) <= Cardinality(Slices)
  BY <1>1, SlicesFinite, FS_Subset, FS_CardinalityType
<1>3. Pointers(s, last) = IF s \in last THEN Cardinality(P) ELSE 0
  BY DEF Pointers
<1> HIDE DEF P
<1> QED
  BY <1>2, <1>3, SlicesFinite

\* Going on with the list, or giving it up, leaves no pointer that was not in
\* it, and forgets none of the versions that are still needed.
Shorter ==
    /\ todo' \in [Slices -> 0..Cardinality(Slices)]
    /\ read' \in [Slices -> Versions]
    /\ at' = {}
    /\ rpc' \in {"idle", "check"}
    /\ \A s \in Slices : /\ todo'[s] # 0 => todo[s] # 0 /\ read'[s] = read[s]
                         /\ read'[s] = 0 \/ read'[s] = read[s]

LEMMA NoVersionsTyped ==
  /\ NoVersions \in [Slices -> Versions]
  /\ NoVersions \in [Slices -> 0..Cardinality(Slices)]
  /\ \A s \in Slices : NoVersions[s] = 0
BY SlicesFinite, BoundsAssumption DEF NoVersions, Versions

LEMMA EndPassShorter ==
  ASSUME EndPass
  PROVE  Shorter
BY NoVersionsTyped DEF EndPass, Shorter

LEMMA ContinueShorter ==
  ASSUME Types, \A s \in at : todo[s] # 0, Continue
  PROVE  Shorter
<1> DEFINE rest == [s \in Slices |-> IF s \in at THEN todo[s] - 1 ELSE todo[s]]
<1>1. rest \in [Slices -> 0..Cardinality(Slices)]
  BY SlicesFinite DEF Types
<1>2. \A s \in Slices : rest[s] # 0 => todo[s] # 0
  OBVIOUS
<1>3. CASE EndPass
  BY <1>3, EndPassShorter
<1>4. CASE rpc' = "check" /\ todo' = rest /\ at' = {} /\ UNCHANGED read
  <2> HIDE DEF rest
  <2> QED
    BY <1>1, <1>2, <1>4 DEF Shorter, Types
<1> QED
  BY <1>3, <1>4 DEF Continue

-----------------------------------------------------------------------------
(* The types.                                                              *)

LEMMA TypesInit == Init => Types
BY NoVersionsTyped, BoundsAssumption DEF Init, Types, Versions, RoutePcs, SlicePcs

\* A manager that dies and is restarted has nothing in its hands, and has read
\* everything anew.
LEMMA DieTypes ==
  ASSUME Types, Die, faults' \in 0..MaxFaults
  PROVE  Types'
BY EndPassShorter, BoundsAssumption
DEF Die, Shorter, Types, RoutePcs, SlicePcs, Versions, world

\* Each step of the route's reconciler keeps the types of its own variables and
\* leaves the list shorter, or makes a new one (routeSlices) of what the
\* informer has.
LEMMA AnnouncerTypes ==
  ASSUME IInv, AnnounceSlices \/ AnnouncerCallFails
  PROVE  Types'
<1> USE DEF IInv, AnnouncerKnows
<1>1. CASE RouteSlices
  BY <1>1, PointersBounded
  DEF RouteSlices, Types, RoutePcs, world, caches, updater
<1>2. CASE HasBeenAnnounced
  <2>1. PICK s \in Slices :
           /\ todo[s] # 0
           /\ IF s \in seenShadow
              THEN LET rest == [todo EXCEPT ![s] = @ - 1]
                   IN  IF rest = NoVersions
                       THEN EndPass
                       ELSE todo' = rest /\ UNCHANGED <<rpc, read, at>>
              ELSE rpc' = "post" /\ at' = {s} /\ UNCHANGED <<todo, read>>
    BY <1>2 DEF HasBeenAnnounced
  <2>2. [todo EXCEPT ![s] = @ - 1] \in [Slices -> 0..Cardinality(Slices)]
    BY <2>1, SlicesFinite DEF Types
  <2>3. CASE EndPass
    BY <1>2, <2>3, EndPassShorter
    DEF Shorter, HasBeenAnnounced, Types, RoutePcs, world, caches, updater
  <2>4. CASE ~EndPass
    BY <1>2, <2>1, <2>2, <2>4
    DEF HasBeenAnnounced, Types, RoutePcs, world, caches, updater
  <2> QED
    BY <2>3, <2>4
<1>3. CASE AnnounceSlice
  <2>1. CASE Die /\ NoFault
    BY <2>1, DieTypes DEF NoFault, Types
  <2>2. CASE UNCHANGED <<world, caches, shadow, updater>>
             /\ epic' = [s \in Slices |-> IF s \in at /\ epic[s] = 0 THEN read[s] ELSE epic[s]]
    <3>1. epic' \in [Slices -> Versions]
      BY <2>2 DEF Types
    <3>2. CASE rpc' = "shadow" /\ UNCHANGED <<todo, read, at>> /\ NoFault
      BY <1>3, <2>2, <3>1, <3>2
      DEF AnnounceSlice, NoFault, Types, RoutePcs, world, caches, updater
    <3>3. CASE Continue /\ Fault
      BY <2>2, <3>1, <3>3, ContinueShorter, BoundsAssumption
      DEF Shorter, Fault, Types, RoutePcs, world, caches, updater
    <3>4. CASE Die /\ NoFault
      BY <2>1, <3>4
    <3> QED
      BY <1>3, <3>2, <3>3, <3>4 DEF AnnounceSlice
  <2> QED
    BY <1>3, <2>1, <2>2 DEF AnnounceSlice
<1>4. CASE AddSliceEpicLink
  BY <1>4, ContinueShorter
  DEF AddSliceEpicLink, Shorter, Types, RoutePcs, world, caches, updater
<1>5. CASE AnnouncerCallFails
  <2>1. Shorter
    BY <1>5, ContinueShorter, EndPassShorter DEF AnnouncerCallFails
  <2> QED
    BY <1>5, <2>1, BoundsAssumption
    DEF AnnouncerCallFails, Shorter, Fault, Types, RoutePcs, world, caches, updater
<1> QED
  BY <1>1, <1>2, <1>3, <1>4, <1>5 DEF AnnounceSlices

LEMMA UpdaterTypes ==
  ASSUME Types, Update \/ UpdaterCallFails \/ \E s \in Slices : GetShadow(s)
  PROVE  Types'
<1>7. CASE Die /\ NoFault
  BY <1>7, DieTypes DEF NoFault, Types
<1> USE BoundsAssumption
    DEF Types, SlicePcs, Versions, Finish, world, caches, announcer
<1>1. ASSUME NEW s \in Slices, GetShadow(s)
      PROVE  Types'
  BY <1>1 DEF GetShadow
<1>2. CASE GetSlice
  BY <1>2 DEF GetSlice
<1>3. CASE UpdateSlice
  <2>1. CASE spc = "put" /\ Send(version, Finish(FALSE)) /\ UNCHANGED <<world, caches, shadow, announcer>>
    BY <2>1 DEF Send, Fault, NoFault
  <2> QED
    BY <1>3, <1>7, <2>1 DEF UpdateSlice
<1>4. CASE EpicDelete
  BY <1>4 DEF EpicDelete, Send, Fault, NoFault
<1>5. CASE DeleteShadow
  BY <1>5 DEF DeleteShadow
<1>6. CASE UpdaterCallFails
  BY <1>6 DEF UpdaterCallFails, Fault
<1> QED
  BY <1>1, <1>2, <1>3, <1>4, <1>5, <1>6 DEF Update

LEMMA WorldTypes ==
  ASSUME Types,
         Crash \/ \E s \in Slices : \/ Sync(s) \/ SyncShadow(s) \/ Touch(s)
                                    \/ CreateSlice(s) \/ EditSlice(s) \/ DeleteSlice(s)
  PROVE  Types'
<1> USE DEF Types, world, caches, announcer, updater
<1>1. CASE Crash
  <2>1. Die /\ faults' \in 0..MaxFaults
    BY <1>1, BoundsAssumption DEF Crash, Fault
  <2> QED
    BY <2>1, DieTypes
<1>2. ASSUME NEW s \in Slices, Sync(s) \/ SyncShadow(s) \/ Touch(s)
      PROVE  Types'
  BY <1>2 DEF Sync, SyncShadow, Touch
<1>3. ASSUME NEW s \in Slices, CreateSlice(s) \/ EditSlice(s) \/ DeleteSlice(s)
      PROVE  Types'
  <2>1. changes' \in Versions
    BY <1>3, BoundsAssumption DEF CreateSlice, EditSlice, DeleteSlice, Change, Versions
  <2>2. broken' \subseteq Versions
    BY <1>3, <2>1 DEF CreateSlice, EditSlice, DeleteSlice
  <2>3. slice' \in [Slices -> Versions] /\ used' \subseteq Slices
    BY <1>3, <2>1, BoundsAssumption DEF CreateSlice, EditSlice, DeleteSlice, Change, Versions
  <2> QED
    BY <1>3, <2>1, <2>2, <2>3 DEF CreateSlice, EditSlice, DeleteSlice, Change
<1> QED
  BY <1>1, <1>2, <1>3

LEMMA TypesStep ==
  ASSUME IInv, [Next]_vars
  PROVE  Types'
<1>1. CASE UNCHANGED vars
  BY <1>1 DEF IInv, Types, vars, world, caches, announcer, updater
<1> QED
  BY <1>1, AnnouncerTypes, UpdaterTypes, WorldTypes DEF IInv, Next

-----------------------------------------------------------------------------
(* The invariant is inductive.                                             *)

LEMMA InvInit == Init => IInv
<1> SUFFICES ASSUME Init PROVE IInv
  OBVIOUS
<1>1. /\ Types
      /\ \A s \in Slices : slice[s] = 0 /\ seen[s] = 0 /\ read[s] = 0 /\ todo[s] = 0 /\ epic[s] = 0
  BY TypesInit, NoVersionsTyped DEF Init
<1> QED
  BY <1>1
  DEF Init, IInv, Ordered, Acquainted, Met, Behind, ShadowsKept, Kept,
      AnnouncerKnows, UpdaterKnows

LEMMA DieStep ==
  ASSUME IInv, Types', Die
  PROVE  IInv'
BY EndPassShorter
DEF Die, Shorter, IInv, Types, Ordered, Acquainted, Met, Behind, ShadowsKept, Kept, Dead,
    AnnouncerKnows, UpdaterKnows, Versions, world

\* The steps that end a turn of a slice, or the pass: they change the list, and
\* nothing else but what is said of them below.
LEMMA AnnouncerStep ==
  ASSUME IInv, Types', AnnounceSlices \/ AnnouncerCallFails
  PROVE  IInv'
<1> USE DEF IInv, Ordered, Acquainted, Met, Behind, ShadowsKept, Kept, Dead,
            AnnouncerKnows, UpdaterKnows, Versions, world, caches, updater
<1>1. CASE RouteSlices
  <2>1. ASSUME NEW s \in Slices, todo'[s] # 0
        PROVE  seen[s] # 0
    BY <1>1, <2>1 DEF RouteSlices, Pointers
  <2> QED
    BY <1>1, <2>1 DEF RouteSlices, Types
<1>2. CASE HasBeenAnnounced
  <2>1. PICK s \in Slices :
           /\ todo[s] # 0
           /\ IF s \in seenShadow
              THEN LET rest == [todo EXCEPT ![s] = @ - 1]
                   IN  IF rest = NoVersions
                       THEN EndPass
                       ELSE todo' = rest /\ UNCHANGED <<rpc, read, at>>
              ELSE rpc' = "post" /\ at' = {s} /\ UNCHANGED <<todo, read>>
    BY <1>2 DEF HasBeenAnnounced
  <2>2. CASE EndPass
    BY <1>2, <2>2, EndPassShorter DEF HasBeenAnnounced, Types, Shorter
  <2>3. CASE ~EndPass
    BY <1>2, <2>1, <2>3 DEF HasBeenAnnounced, Types
  <2> QED
    BY <2>2, <2>3
<1>3. CASE AnnounceSlice
  <2>1. CASE Die
    BY <2>1, DieStep
  <2>2. CASE ~Die
    <3>1. /\ UNCHANGED <<world, caches, shadow, updater>>
          /\ \A s \in Slices :
                /\ epic'[s] = IF s \in at /\ epic[s] = 0 THEN read[s] ELSE epic[s]
                /\ s \in at => epic'[s] # 0
      BY <1>3, <2>2 DEF AnnounceSlice, Types
    <3>2. CASE rpc' = "shadow" /\ UNCHANGED <<todo, read, at>> /\ NoFault
      BY <1>3, <3>1, <3>2 DEF AnnounceSlice, Types
    <3>3. CASE Continue /\ Fault
      BY <1>3, <3>1, <3>3, ContinueShorter DEF AnnounceSlice, Shorter, Types
    <3> QED
      BY <1>3, <2>2, <3>2, <3>3 DEF AnnounceSlice
  <2> QED
    BY <2>1, <2>2
<1>4. CASE AddSliceEpicLink
  BY <1>4, ContinueShorter DEF AddSliceEpicLink, Shorter, Types
<1>5. CASE AnnouncerCallFails
  <2>1. Shorter
    BY <1>5, ContinueShorter, EndPassShorter DEF AnnouncerCallFails
  <2> QED
    BY <1>5, <2>1 DEF AnnouncerCallFails, Shorter, Types
<1> QED
  BY <1>1, <1>2, <1>3, <1>4, <1>5 DEF AnnounceSlices

LEMMA UpdaterStep ==
  ASSUME IInv, Types', Update \/ UpdaterCallFails \/ \E s \in Slices : GetShadow(s)
  PROVE  IInv'
<1> USE DEF IInv, Ordered, Acquainted, Met, Behind, ShadowsKept, Kept, Dead,
            AnnouncerKnows, UpdaterKnows, Versions, Finish, world, caches, announcer
<1>1. ASSUME NEW s \in Slices, GetShadow(s)
      PROVE  IInv'
  BY <1>1 DEF GetShadow, Types
<1>2. CASE GetSlice
  BY <1>2 DEF GetSlice, Types
<1>3. CASE UpdateSlice
  BY <1>3, DieStep DEF UpdateSlice, Send, Types
<1>4. CASE EpicDelete
  BY <1>4 DEF EpicDelete, Send, Types
<1>5. CASE DeleteShadow
  BY <1>5 DEF DeleteShadow, Types
<1>6. CASE UpdaterCallFails
  BY <1>6 DEF UpdaterCallFails, Types
<1> QED
  BY <1>1, <1>2, <1>3, <1>4, <1>5, <1>6 DEF Update

LEMMA WorldStep ==
  ASSUME IInv, Types',
         Crash \/ \E s \in Slices : \/ Sync(s) \/ SyncShadow(s) \/ Touch(s)
                                    \/ CreateSlice(s) \/ EditSlice(s) \/ DeleteSlice(s)
  PROVE  IInv'
<1> USE DEF IInv, Types, Ordered, Acquainted, Met, Behind, ShadowsKept, Kept, Dead,
            AnnouncerKnows, UpdaterKnows, Versions, world, caches, announcer, updater
<1>1. CASE Crash
  BY <1>1, DieStep DEF Crash
<1>2. ASSUME NEW s \in Slices, Sync(s)
      PROVE  IInv'
  BY <1>2 DEF Sync
<1>3. ASSUME NEW s \in Slices, SyncShadow(s) \/ Touch(s)
      PROVE  IInv'
  BY <1>3 DEF SyncShadow, Touch
<1>4. ASSUME NEW s \in Slices, CreateSlice(s) \/ EditSlice(s) \/ DeleteSlice(s)
      PROVE  IInv'
  BY <1>4 DEF CreateSlice, EditSlice, DeleteSlice, Change
<1> QED
  BY <1>1, <1>2, <1>3, <1>4

LEMMA InvStep == IInv /\ [Next]_vars => IInv'
<1> SUFFICES ASSUME IInv, [Next]_vars PROVE IInv'
  OBVIOUS
<1>1. CASE UNCHANGED vars
  BY <1>1
  DEF IInv, Types, Ordered, Acquainted, Met, Behind, ShadowsKept, Kept, Dead,
      AnnouncerKnows, UpdaterKnows, vars, world, caches, announcer, updater
<1> QED
  BY <1>1, TypesStep, AnnouncerStep, UpdaterStep, WorldStep DEF Next

LEMMA Invariance == Spec => []IInv
BY InvInit, InvStep, PTL DEF Spec

-----------------------------------------------------------------------------
(* What follows from it.                                                   *)

\* Every variable stays in its type, and each reconciler is at no more than one
\* slice at a time (TypeOK, for every set of slices).
THEOREM TypeCorrect == Spec => []TypeOK
<1>1. IInv => TypeOK
  <2> SUFFICES ASSUME Types PROVE TypeOK
    BY DEF IInv
  <2>1. /\ Cardinality({}) = 0
        /\ \A s \in Slices : Cardinality({s}) = 1
    BY FS_EmptySet, FS_Singleton
  <2>2. at \in SUBSET Slices /\ Cardinality(at) = IF rpc \in {"post", "shadow"} THEN 1 ELSE 0
    BY <2>1 DEF Types
  <2>3. cur \in SUBSET Slices /\ Cardinality(cur) = IF spc = "idle" THEN 0 ELSE 1
    BY <2>1 DEF Types
  <2> QED
    BY <2>2, <2>3 DEF Types, TypeOK
<1> QED
  BY <1>1, Invariance, PTL

\* The link in the shadow of a slice that exists works, though the two
\* reconcilers announce, update and delete at EPIC without a lock and from
\* caches that lag, and any of their calls may fail.
THEOREM LinkWorksHolds == Spec => []LinkWorks
<1>1. IInv => LinkWorks
  BY DEF IInv, Types, ShadowsKept, Kept, Dead, LinkWorks
<1> QED
  BY <1>1, Invariance, PTL

\* Neither reconciler puts an older version of a slice over a newer one: the
\* announcer writes only what EPIC does not have, and no version that the
\* updater sends is older than what EPIC has.
THEOREM NeverBackwardsHolds == Spec => NeverBackwards
<1> DEFINE Forward == \A s \in Slices : epic[s] # 0 /\ epic'[s] # 0 => epic[s] <= epic'[s]
<1>1. IInv /\ [Next]_vars => [Forward]_vars
  <2> SUFFICES ASSUME IInv, Next PROVE Forward
    BY DEF vars, world, caches, announcer, updater
  <2>1. epic \in [Slices -> Nat]
    BY BoundsAssumption DEF IInv, Types, Versions
  <2>2. CASE UNCHANGED epic
    BY <2>1, <2>2
  <2>3. CASE AnnounceSlice
    BY <2>1, <2>3 DEF AnnounceSlice, Die
  <2>4. ASSUME NEW t \in Slices, NEW v \in Nat, epic' = [epic EXCEPT ![t] = v],
               v = 0 \/ epic[t] <= v
        PROVE  Forward
    BY <2>1, <2>4
  <2>5. CASE UpdateSlice
    <3>1. PICK t \in Slices :
             cur = {t} /\ (UNCHANGED epic \/ epic' = [epic EXCEPT ![t] = version])
      BY <2>5 DEF UpdateSlice, Send, Die, IInv, Types
    <3>2. version \in Nat /\ epic[t] <= version
      BY <2>5, <3>1, BoundsAssumption DEF UpdateSlice, IInv, Types, Versions, UpdaterKnows
    <3> QED
      BY <2>2, <2>4, <3>1, <3>2
  <2>6. CASE EpicDelete
    <3>1. PICK t \in Slices : UNCHANGED epic \/ epic' = [epic EXCEPT ![t] = 0]
      BY <2>6 DEF EpicDelete, Send, IInv, Types
    <3> QED
      BY <2>2, <2>4, <3>1
  <2>7. Next => UNCHANGED epic \/ AnnounceSlice \/ UpdateSlice \/ EpicDelete
    BY DEF Next, AnnounceSlices, RouteSlices, HasBeenAnnounced, AddSliceEpicLink,
           AnnouncerCallFails, Update, GetSlice, DeleteShadow, UpdaterCallFails,
           Crash, Die, GetShadow, Sync, SyncShadow, Touch, CreateSlice, EditSlice,
           DeleteSlice, Change
  <2> QED
    BY <2>2, <2>3, <2>5, <2>6, <2>7
<1> QED
  BY <1>1, Invariance, PTL DEF Spec, NeverBackwards

-----------------------------------------------------------------------------
(* Passes that leave nothing out.                                          *)

\* Each Service has no more than one slice.
Single == \A b \in Backends : \A s, t \in b : s = t

\* As long as nothing has failed, what is not in the list has been dealt with.
Covered ==
    faults = 0 /\ rpc # "idle" =>
       \A s \in Slices : read[s] # 0 => todo[s] # 0 \/ slice[s] = 0 \/ epic[s] # 0

\* A list that is made has a pointer to every slice, if no Service has two.
LEMMA SinglePointers ==
  ASSUME Single, RouteSlices, NEW s \in Slices, seen[s] # 0
  PROVE  todo'[s] # 0
<1>1. PICK last :
         /\ \A b \in Backends :
               Cardinality(last \cap b) = IF \E t \in b : seen[t] # 0 THEN 1 ELSE 0
         /\ todo' = [t \in Slices |-> Pointers(t, last)]
  BY DEF RouteSlices
<1>2. PICK b \in Backends : s \in b
  BY DEF Slices
<1>3. s \in last
  <2>1. Cardinality(last \cap b) = 1
    BY <1>1, <1>2
  <2>2. last \cap b # {}
    BY <2>1, FS_EmptySet
  <2> QED
    BY <1>2, <2>2 DEF Single
<1> DEFINE P == {t \in Slices : seen[t] # 0 /\ \E c \in Backends : {s, t} \subseteq c}
<1>4. P # {} /\ IsFiniteSet(P)
  <2>1. s \in P
    BY <1>2
  <2>2. P \subseteq Slices
    OBVIOUS
  <2> QED
    BY <2>1, <2>2, SlicesFinite, FS_Subset
<1>5. Cardinality(P) # 0
  BY <1>4, FS_EmptySet
<1>6. todo'[s] = Cardinality(P)
  BY <1>1, <1>3 DEF Pointers
<1> QED
  BY <1>5, <1>6

\* Going on takes only the slice that the reconciler is at from the list.
LEMMA ContinueLeaves ==
  ASSUME Types, Continue, NEW s \in Slices, s \notin at, todo[s] # 0
  PROVE  rpc' = "check" /\ todo'[s] # 0
<1> DEFINE rest == [t \in Slices |-> IF t \in at THEN todo[t] - 1 ELSE todo[t]]
<1>1. rest[s] # 0
  OBVIOUS
<1>2. rest # NoVersions
  BY <1>1, NoVersionsTyped
<1>3. rpc' = "check" /\ todo' = rest
  BY <1>2 DEF Continue
<1> QED
  BY <1>1, <1>3

\* The pass goes on or ends only with what it has dealt with.
LEMMA CoveredStep ==
  ASSUME Single, IInv, Covered, [Next]_vars
  PROVE  /\ Covered'
         /\ rpc # "idle" /\ rpc' = "idle" /\ faults' = 0 /\ broken' = {} =>
               \A s \in Slices : read[s] # 0 /\ slice[s] # 0 => epic'[s] # 0
<1> USE DEF IInv, Covered
<1>1. CASE UNCHANGED vars
  BY <1>1 DEF vars, world, caches, announcer, updater
<1>2. CASE RouteSlices
  BY <1>2, SinglePointers DEF RouteSlices, Types, world, caches, updater
<1>3. CASE HasBeenAnnounced
  <2>1. PICK s \in Slices :
           /\ todo[s] # 0
           /\ IF s \in seenShadow
              THEN LET rest == [todo EXCEPT ![s] = @ - 1]
                   IN  IF rest = NoVersions
                       THEN EndPass
                       ELSE todo' = rest /\ UNCHANGED <<rpc, read, at>>
              ELSE rpc' = "post" /\ at' = {s} /\ UNCHANGED <<todo, read>>
    BY <1>3 DEF HasBeenAnnounced
  <2>2. s \in seenShadow => epic[s] # 0 \/ slice[s] = 0
    BY DEF ShadowsKept, Kept, Dead
  <2>3. CASE [todo EXCEPT ![s] = @ - 1] = NoVersions
    <3>1. \A t \in Slices \ {s} : todo[t] = 0
      BY <2>1, <2>3, NoVersionsTyped DEF Types
    <3> QED
      BY <1>3, <2>1, <2>2, <2>3, <3>1
      DEF HasBeenAnnounced, EndPass, Types, world, caches, updater
  <2>4. CASE [todo EXCEPT ![s] = @ - 1] # NoVersions
    BY <1>3, <2>1, <2>2, <2>4 DEF HasBeenAnnounced, Types, world, caches, updater
  <2> QED
    BY <2>3, <2>4
<1>4. CASE AnnounceSlice
  <2>1. CASE Die /\ \E s \in at : ~Describable(read[s])
    BY <2>1 DEF Die, EndPass, Describable, world
  <2>2. CASE Fault
    BY <2>2 DEF Fault, Types
  <2>3. CASE /\ rpc' = "shadow" /\ UNCHANGED <<todo, read, at>> /\ NoFault
             /\ epic' = [s \in Slices |-> IF s \in at /\ epic[s] = 0 THEN read[s] ELSE epic[s]]
             /\ UNCHANGED <<world, caches, shadow, updater>>
    <3>1. \A s \in Slices : epic[s] # 0 => epic'[s] # 0
      BY <2>3 DEF Types
    <3> QED
      BY <1>4, <2>3, <3>1 DEF AnnounceSlice, NoFault, world
  <2> QED
    BY <1>4, <2>1, <2>2, <2>3 DEF AnnounceSlice
<1>5. CASE AddSliceEpicLink
  <2>1. \A s \in at : s \in Slices /\ (epic[s] # 0 \/ slice[s] = 0)
    BY <1>5 DEF AddSliceEpicLink, Types, AnnouncerKnows, Kept, Dead
  <2>2. Shorter
    BY <1>5, ContinueShorter DEF AddSliceEpicLink, AnnouncerKnows
  <2> QED
    BY <1>5, <2>1, <2>2, ContinueLeaves
    DEF AddSliceEpicLink, Shorter, world, caches, updater
<1>6. CASE AnnouncerCallFails \/ UpdaterCallFails \/ Crash
  <2>1. Fault
    BY <1>6 DEF AnnouncerCallFails, UpdaterCallFails, Crash
  <2>2. faults' # 0
    BY <2>1 DEF Fault, Types
  <2> QED
    BY <2>2
<1>7. CASE GetSlice \/ DeleteShadow
  BY <1>7 DEF GetSlice, DeleteShadow, Finish, world, caches, announcer
<1>8. CASE UpdateSlice \/ EpicDelete
  <2>1. CASE Die /\ ~Describable(version)
    BY <2>1 DEF Die, EndPass, Describable, world
  <2>2. CASE ~(Die /\ ~Describable(version))
    <3>1. \A s \in Slices : epic[s] # 0 => epic'[s] # 0 \/ slice[s] = 0
      BY <1>8, <2>2 DEF UpdateSlice, EpicDelete, Send, Types, UpdaterKnows, Dead
    <3>2. /\ UNCHANGED <<rpc, read, todo, slice>>
          /\ faults' = faults \/ faults' = faults + 1
      BY <1>8, <2>2 DEF UpdateSlice, EpicDelete, Send, Finish, Fault, NoFault, world, announcer
    <3> QED
      BY <3>1, <3>2 DEF Types
  <2> QED
    BY <2>1, <2>2
<1>9. ASSUME NEW s \in Slices, GetShadow(s) \/ Sync(s) \/ SyncShadow(s) \/ Touch(s)
      PROVE  UNCHANGED <<rpc, read, todo, slice, epic, faults>>
  BY <1>9 DEF GetShadow, Sync, SyncShadow, Touch, world, caches, announcer
<1>10. ASSUME NEW s \in Slices, CreateSlice(s) \/ EditSlice(s) \/ DeleteSlice(s)
       PROVE  /\ UNCHANGED <<rpc, read, todo, epic, faults>>
              /\ \A t \in Slices : read[t] # 0 /\ slice[t] = 0 => slice'[t] = 0
  BY <1>10
  DEF CreateSlice, EditSlice, DeleteSlice, Change, Types, Acquainted, Met, caches, announcer
<1>11. CASE \E s \in Slices : \/ GetShadow(s) \/ Sync(s) \/ SyncShadow(s) \/ Touch(s)
                              \/ CreateSlice(s) \/ EditSlice(s) \/ DeleteSlice(s)
  BY <1>9, <1>10, <1>11
<1> QED
  BY <1>1, <1>2, <1>3, <1>4, <1>5, <1>6, <1>7, <1>8, <1>11
  DEF Next, AnnounceSlices, Update

\* Where every Service has one slice at most and every slice can be described, a
\* pass in which nothing fails announces every slice, whatever the other reconciler
\* and Kubernetes do meanwhile: besides these two nothing is wrong with it.
THEOREM PassCompleteWhenSingle ==
  ASSUME Single
  PROVE  Spec => PassComplete
<1>1. Init => Covered
  BY DEF Init, Covered
<1>2. IInv /\ Covered /\ [Next]_vars => Covered'
  BY CoveredStep
<1>3. IInv /\ Covered /\ [Next]_vars =>
         [rpc # "idle" /\ rpc' = "idle" /\ faults' = 0 /\ broken' = {} =>
            \A s \in Slices : read[s] # 0 /\ slice[s] # 0 => epic'[s] # 0]_vars
  BY CoveredStep
<1> QED
  BY <1>1, <1>2, <1>3, Invariance, PTL DEF Spec, PassComplete
=============================================================================
