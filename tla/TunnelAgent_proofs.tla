-------------------------- MODULE TunnelAgent_proofs --------------------------
(***************************************************************************)
(* Proofs, for every set of routes and interfaces, every config and every  *)
(* number of events, of the agent's safety: type correctness, which says   *)
(* that no filter is loaded more than twice and none without its qdisc,    *)
(* WorkerHolds and OnlyFailuresLeft.                                       *)
(*                                                                         *)
(* A worker trusts the informer's copies of a route although they lag.     *)
(* What makes that right is that nobody but this agent touches its         *)
(* finalizer, and within it only the one worker that is at the route, so   *)
(* that the copies can be wrong in one way only: a doomed route whose      *)
(* finalizer is gone already, and with it the route.                       *)
(***************************************************************************)
EXTENDS TunnelAgent, FiniteSetTheorems, SequenceTheorems, TLAPS

\* The filters of a function at an interface that a worker has found missing
\* and has yet to load.
About(k, n, f) ==
    /\ worker[k].pc = "load" /\ ~worker[k].found
    /\ Head(worker[k].jobs) = <<n, f>>
Pending(k, n, f) == IF About(k, n, f) THEN 1 ELSE 0

Typed ==
    /\ seen \in [route: [Routes -> {"gone", "live", "doomed"}], held: SUBSET Routes,
                config: Configs \cup {NoConfig}]
    /\ route \in [Routes -> {"gone", "live", "doomed"}]
    /\ held \subseteq Routes
    /\ config \in Configs \cup {NoConfig}
    /\ lags \subseteq Names /\ aside \subseteq Routes
    /\ gateway \in Gateways
    /\ backend \in [Routes -> Backends]
    /\ epic \in Versions /\ tunnel \in Versions
    /\ up \in BOOLEAN /\ maps \in BOOLEAN
    /\ queue \subseteq Names
    /\ nic \in [Nics -> [qdisc: BOOLEAN, filter: [Functions -> [live: Nat, stale: 0..1]]]]
    /\ left \subseteq Jobs
    /\ worker \in [Kinds -> Workers]
    /\ events \in 0..MaxEvents

\* A filter needs its qdisc; no more workers than there are have loaded it, or
\* will without looking again.
Loaded ==
    \A n \in Nics, f \in Functions :
       /\ nic[n].filter[f] # NoFilter => nic[n].qdisc
       /\ nic[n].filter[f].live + Pending("http", n, f) + Pending("tcp", n, f) <= 2

\* A worker that sets a tunnel up has a config and something to see to, and it
\* is at one route, of its own kind.
Busy ==
    \A k \in Kinds :
       /\ worker[k].at \subseteq OfKind(k)
       /\ \A r, s \in worker[k].at : r = s
       /\ worker[k].pc # "idle" => up
       /\ worker[k].pc \in {"hold", "fetch"} => worker[k].spec # NoConfig
       /\ worker[k].pc \in {"look", "load"} => worker[k].jobs # <<>>

\* A route that is being deleted is there as long as it has the finalizer.
Bound ==
    \A r \in Routes : /\ route[r] = "doomed" => r \in held
                      /\ route[r] = "gone" => r \notin held

\* What the informer has is current unless it lags, and if it does then a
\* finalizer is still where it was unless the route was being deleted.
Informed ==
    up => \A r \in Routes :
             /\ r \notin lags => /\ seen.route[r] = route[r]
                                 /\ r \in seen.held <=> r \in held
             /\ seen.route[r] = "live" /\ r \in seen.held => r \in held
             /\ seen.route[r] = "doomed" /\ r \in held => route[r] = "doomed"

\* What a worker knows about the finalizer of the route that it is at.
Knows ==
    \A k \in Kinds : \A r \in worker[k].at :
       /\ worker[k].pc = "release" /\ r \in held => route[r] = "doomed"
       /\ worker[k].pc = "hold" /\ r \in seen.held => r \in held
       /\ worker[k].pc \in {"fetch", "look", "load", "tunnel"} => r \in held

IInv ==
    /\ Typed
    /\ Loaded
    /\ Busy
    /\ Bound
    /\ Informed
    /\ Knows
    /\ OnlyFailuresLeft

-----------------------------------------------------------------------------
(* What the steps are made of.                                             *)

LEMMA SetToSeqTyped ==
  ASSUME NEW S, IsFiniteSet(S)
  PROVE  /\ Cardinality(S) \in Nat
         /\ SetToSeq(S) \in [1..Cardinality(S) -> S]
<1>1. Cardinality(S) \in Nat /\ ExistsBijection(1..Cardinality(S), S)
  BY FS_CardinalityType
<1>2. \E f \in [1..Cardinality(S) -> S] : IsInjective(f)
  BY <1>1 DEF ExistsBijection, Bijection, Injection
<1> QED
  BY <1>1, <1>2 DEF SetToSeq

LEMMA InterfaceTyped ==
  \A name \in Encaps \cup Decaps : InterfaceOrDefault(name) \in Nics
BY NicsAssumption DEF InterfaceOrDefault

\* The filters that a worker sees to are filters of the node, and at least one.
LEMMA SetupTunnelTyped ==
  ASSUME NEW spec \in Configs
  PROVE  SetupTunnel(spec) \in Seq(Jobs) /\ SetupTunnel(spec) # <<>>
<1> DEFINE S == IF OnEKS THEN Enis ELSE {}
           enis == SetToSeq(S)
           first == <<<<InterfaceOrDefault(spec.encap), "encap">>>>
           middle == [i \in DOMAIN enis |-> <<enis[i], "encap">>]
           last == <<<<InterfaceOrDefault(spec.decap), "decap">>>>
<1>1. IsFiniteSet(S) /\ S \subseteq Nics
  BY NicsAssumption, FS_Subset, FS_EmptySet
<1>2. middle \in Seq(Jobs)
  <2>1. Cardinality(S) \in Nat /\ enis \in [1..Cardinality(S) -> S]
    BY <1>1, SetToSeqTyped
  <2> HIDE DEF S, enis
  <2>2. middle \in [1..Cardinality(S) -> Jobs]
    <3>1. DOMAIN enis = 1..Cardinality(S)
      BY <2>1
    <3>2. \A i \in 1..Cardinality(S) : <<enis[i], "encap">> \in Jobs
      BY <1>1, <2>1 DEF Jobs, Functions
    <3> QED
      BY <3>1, <3>2
  <2> QED
    BY <2>1, <2>2, SeqDef
<1>3. /\ first \in Seq(Jobs) /\ Len(first) = 1
      /\ last \in Seq(Jobs) /\ Len(last) = 1
  BY InterfaceTyped DEF Configs, Jobs, Functions
<1>4. SetupTunnel(spec) = first \o middle \o last
  BY DEF SetupTunnel
<1> HIDE DEF first, middle, last
<1>5. first \o middle \in Seq(Jobs)
  BY <1>2, <1>3, ConcatProperties
<1>6. /\ (first \o middle) \o last \in Seq(Jobs)
      /\ Len((first \o middle) \o last) # 0
  BY <1>3, <1>5, ConcatProperties, LenProperties
<1> QED
  BY <1>4, <1>6, EmptySeq

LEMMA JobsTyped ==
  ASSUME NEW s \in Seq(Jobs), s # <<>>
  PROVE  /\ Head(s)[1] \in Nics /\ Head(s)[2] \in Functions
         /\ Head(s) = <<Head(s)[1], Head(s)[2]>>
         /\ Tail(s) \in Seq(Jobs)
<1>1. Head(s) \in Jobs /\ Tail(s) \in Seq(Jobs)
  BY HeadTailProperties
<1> QED
  BY <1>1 DEF Jobs

LEMMA IdleTyped == Idle \in Workers
BY EmptySeq, BoundsAssumption DEF Idle, Workers, Pcs, Versions

LEMMA BareTyped ==
  /\ Bare \in [qdisc: BOOLEAN, filter: [Functions -> [live: Nat, stale: 0..1]]]
  /\ Left \in [qdisc: BOOLEAN, filter: [Functions -> [live: Nat, stale: 0..1]]]
BY DEF Bare, Left, NoFilter

\* The changes that a worker and an interface see.
LEMMA WorkerTyped ==
  ASSUME NEW w \in Workers, NEW pc \in Pcs
  PROVE  /\ [w EXCEPT !.pc = pc] \in Workers
         /\ \A found \in BOOLEAN : [w EXCEPT !.pc = pc, !.found = found] \in Workers
         /\ \A jobs \in Seq(Jobs) :
               /\ \A v \in Versions :
                     [w EXCEPT !.pc = pc, !.version = v, !.jobs = jobs] \in Workers
               /\ \A found \in BOOLEAN :
                     [w EXCEPT !.jobs = jobs, !.found = found, !.pc = pc] \in Workers
<1> DEFINE JS == Seq(Jobs)
           W == [pc: Pcs, at: SUBSET Routes, spec: Configs \cup {NoConfig}, version: Versions,
                 jobs: JS, found: BOOLEAN]
<1>1. Workers = W
  BY DEF Workers
<1> HIDE DEF JS
<1>2. w \in W
  BY <1>1
<1>3. /\ [w EXCEPT !.pc = pc] \in W
      /\ \A found \in BOOLEAN : [w EXCEPT !.pc = pc, !.found = found] \in W
      /\ \A jobs \in JS :
            /\ \A v \in Versions : [w EXCEPT !.pc = pc, !.version = v, !.jobs = jobs] \in W
            /\ \A found \in BOOLEAN :
                  [w EXCEPT !.jobs = jobs, !.found = found, !.pc = pc] \in W
  BY <1>2
<1> QED
  BY <1>1, <1>3 DEF JS

LEMMA NicTyped ==
  ASSUME Typed, NEW n \in Nics, NEW f \in Functions
  PROVE  /\ [nic EXCEPT ![n].qdisc = TRUE]
               \in [Nics -> [qdisc: BOOLEAN, filter: [Functions -> [live: Nat, stale: 0..1]]]]
         /\ [nic EXCEPT ![n].filter[f].live = @ + 1]
               \in [Nics -> [qdisc: BOOLEAN, filter: [Functions -> [live: Nat, stale: 0..1]]]]
<1>1. nic[n] \in [qdisc: BOOLEAN, filter: [Functions -> [live: Nat, stale: 0..1]]]
  BY DEF Typed
<1>2. [nic[n].filter[f] EXCEPT !.live = @ + 1] \in [live: Nat, stale: 0..1]
  BY <1>1
<1>3. [nic[n] EXCEPT !.filter[f] = [nic[n].filter[f] EXCEPT !.live = @ + 1]]
        \in [qdisc: BOOLEAN, filter: [Functions -> [live: Nat, stale: 0..1]]]
  BY <1>1, <1>2
<1> QED
  BY <1>1, <1>3 DEF Typed

-----------------------------------------------------------------------------
(* The types.                                                              *)

LEMMA TypedInit == Init => Typed
<1> SUFFICES ASSUME Init PROVE Typed
  OBVIOUS
<1>1. seen \in [route: [Routes -> {"gone", "live", "doomed"}], held: SUBSET Routes,
                config: Configs \cup {NoConfig}]
  BY DEF Init, Everything
<1>2. worker \in [Kinds -> Workers]
  BY IdleTyped DEF Init
<1>3. nic \in [Nics -> [qdisc: BOOLEAN, filter: [Functions -> [live: Nat, stale: 0..1]]]]
  BY BareTyped DEF Init
<1>4. epic \in Versions /\ tunnel \in Versions /\ events \in 0..MaxEvents
  BY BoundsAssumption DEF Init, Versions
<1>5. /\ route \in [Routes -> {"gone", "live", "doomed"}]
      /\ backend \in [Routes -> Backends]
  BY BackendsAssumption DEF Init
<1> QED
  BY <1>1, <1>2, <1>3, <1>4, <1>5 DEF Init, Typed, Gateways

\* What a process leaves behind is there, but no filter of a process that runs.
LEMMA OrphanedTyped ==
  ASSUME NEW filters \in [Functions -> [live: Nat, stale: 0..1]]
  PROVE  /\ Orphaned(filters) \in [Functions -> [live: Nat, stale: 0..1]]
         /\ \A f \in Functions :
               /\ Orphaned(filters)[f].live = 0
               /\ filters[f] = NoFilter => Orphaned(filters)[f] = NoFilter
BY DEF Orphaned, NoFilter

\* The process ends, whatever it was doing.
LEMMA PanicTyped ==
  ASSUME Typed, Panic
  PROVE  /\ up' = FALSE /\ queue' = {} /\ left' = {} /\ maps' = FALSE /\ tunnel' = 0
         /\ worker' = [k \in Kinds |-> Idle]
         /\ worker' \in [Kinds -> Workers]
         /\ nic' \in [Nics -> [qdisc: BOOLEAN, filter: [Functions -> [live: Nat, stale: 0..1]]]]
         /\ \A n \in Nics, f \in Functions :
               /\ nic'[n].qdisc = nic[n].qdisc
               /\ nic'[n].filter[f].live = 0
               /\ nic[n].filter[f] = NoFilter => nic'[n].filter[f] = NoFilter
<1> USE DEF Panic
<1>1. /\ up' = FALSE /\ queue' = {} /\ left' = {} /\ maps' = FALSE /\ tunnel' = 0
      /\ worker' = [k \in Kinds |-> Idle]
      /\ worker' \in [Kinds -> Workers]
  BY IdleTyped
<1>2. ASSUME NEW n \in Nics
      PROVE  /\ nic'[n] \in [qdisc: BOOLEAN, filter: [Functions -> [live: Nat, stale: 0..1]]]
             /\ \A f \in Functions :
                   /\ nic'[n].qdisc = nic[n].qdisc
                   /\ nic'[n].filter[f].live = 0
                   /\ nic[n].filter[f] = NoFilter => nic'[n].filter[f] = NoFilter
  <2>1. nic'[n] = [nic[n] EXCEPT !.filter = Orphaned(@)]
    BY <1>2
  <2>2. nic[n] \in [qdisc: BOOLEAN, filter: [Functions -> [live: Nat, stale: 0..1]]]
    BY DEF Typed
  <2> QED
    BY <2>1, <2>2, OrphanedTyped
<1>3. DOMAIN nic' = Nics /\ nic' = [n \in Nics |-> nic'[n]]
  OBVIOUS
<1> QED
  BY <1>1, <1>2, <1>3

\* The interfaces that are cleaned are interfaces of the node.
LEMMA RemoveFiltersTyped ==
  ASSUME NEW named \in SUBSET (Encaps \cup Decaps \cup {"default"})
  PROVE  /\ RemoveFilters(named) \subseteq Nics
         /\ RemoveFilters({"default"}) \subseteq RemoveFilters(named)
BY NicsAssumption DEF RemoveFilters, InterfaceOrDefault

\* Interfaces that are cleaned have left what could not be removed, and the qdisc
\* with it; the others keep what they have.
LEMMA CleanedTyped ==
  ASSUME Typed
  PROVE  \A nics, kept :
         /\ Cleaned(nics, kept) \in [Nics -> [qdisc: BOOLEAN, filter: [Functions -> [live: Nat, stale: 0..1]]]]
         /\ \A n \in Nics, f \in Functions :
               \/ /\ Cleaned(nics, kept)[n].filter[f] = nic[n].filter[f]
                  /\ Cleaned(nics, kept)[n].qdisc = nic[n].qdisc
               \/ Cleaned(nics, kept)[n].filter[f] = NoFilter
<1> TAKE nics, kept
<1>1. ASSUME NEW n \in Nics
      PROVE  /\ Cleaned(nics, kept)[n]
                    \in [qdisc: BOOLEAN, filter: [Functions -> [live: Nat, stale: 0..1]]]
             /\ \A f \in Functions :
                   \/ /\ Cleaned(nics, kept)[n].filter[f] = nic[n].filter[f]
                      /\ Cleaned(nics, kept)[n].qdisc = nic[n].qdisc
                   \/ Cleaned(nics, kept)[n].filter[f] = NoFilter
  <2>1. nic[n] \in [qdisc: BOOLEAN, filter: [Functions -> [live: Nat, stale: 0..1]]]
    BY DEF Typed
  <2>2. CASE n \notin nics
    BY <2>1, <2>2 DEF Cleaned
  <2>3. CASE n \in nics
    <3> DEFINE q == nic[n].qdisc /\ \E f \in Functions : <<n, f>> \in kept
               F == [f \in Functions |-> IF <<n, f>> \in kept THEN nic[n].filter[f] ELSE NoFilter]
    <3>1. Cleaned(nics, kept)[n] = [qdisc |-> q, filter |-> F]
      BY <2>3 DEF Cleaned
    <3>2. q \in BOOLEAN
      OBVIOUS
    <3>3. F \in [Functions -> [live: Nat, stale: 0..1]]
      BY <2>1 DEF NoFilter
    <3>4. \A f \in Functions : F[f] = IF <<n, f>> \in kept THEN nic[n].filter[f] ELSE NoFilter
      OBVIOUS
    <3>5. ASSUME NEW f \in Functions, <<n, f>> \in kept
          PROVE  q = nic[n].qdisc
      <4>1. nic[n].qdisc \in BOOLEAN
        BY <2>1
      <4>2. CASE nic[n].qdisc = TRUE
        BY <3>5, <4>2, Zenon
      <4>3. CASE nic[n].qdisc = FALSE
        BY <4>3, Zenon
      <4> QED
        BY <4>1, <4>2, <4>3, Zenon
    <3> HIDE DEF q, F
    <3>6. /\ Cleaned(nics, kept)[n].qdisc = q
          /\ Cleaned(nics, kept)[n].filter = F
          /\ Cleaned(nics, kept)[n]
                \in [qdisc: BOOLEAN, filter: [Functions -> [live: Nat, stale: 0..1]]]
      BY <3>1, <3>2, <3>3
    <3>7. ASSUME NEW f \in Functions
          PROVE  \/ /\ Cleaned(nics, kept)[n].filter[f] = nic[n].filter[f]
                    /\ Cleaned(nics, kept)[n].qdisc = nic[n].qdisc
                 \/ Cleaned(nics, kept)[n].filter[f] = NoFilter
      BY <2>3, <3>4, <3>5, <3>6
    <3> QED
      BY <3>6, <3>7
  <2> QED
    BY <2>2, <2>3
<1>2. Cleaned(nics, kept) = [n \in Nics |-> Cleaned(nics, kept)[n]]
  BY DEF Cleaned
<1> QED
  BY <1>1, <1>2

\* A removal keeps the types; what is stale afterwards on an interface that was
\* to be cleaned has been noted.
LEMMA CleanEffect ==
  ASSUME Typed, NEW nics \in SUBSET Nics, Clean(nics)
  PROVE  /\ nic' \in [Nics -> [qdisc: BOOLEAN, filter: [Functions -> [live: Nat, stale: 0..1]]]]
         /\ left' \subseteq Jobs
         /\ events' \in 0..MaxEvents
         /\ \A n \in Nics, f \in Functions :
               \/ nic'[n].filter[f] = nic[n].filter[f] /\ nic'[n].qdisc = nic[n].qdisc
               \/ nic'[n].filter[f] = NoFilter
         /\ \A n \in nics, f \in Functions :
               nic'[n].filter[f].stale > 0 => <<n, f>> \in left'
<1>1. PICK kept \in SUBSET (nics \X Functions) :
         /\ \/ kept = {} /\ NoEvent
            \/ kept # {} /\ Event
         /\ nic' = Cleaned(nics, kept)
         /\ left' = {j \in left : j[1] \notin nics}
                      \cup {j \in kept : nic[j[1]].filter[j[2]].stale > 0}
  BY DEF Clean
<1>2. left' \subseteq Jobs
  BY <1>1 DEF Typed, Jobs
<1>3. events' \in 0..MaxEvents
  BY <1>1, BoundsAssumption DEF NoEvent, Event, Typed
<1>4. ASSUME NEW n \in nics, NEW f \in Functions, nic'[n].filter[f].stale > 0
      PROVE  <<n, f>> \in left'
  <2>1. nic'[n].filter[f] # NoFilter
    BY <1>4 DEF NoFilter
  <2>2. /\ Cleaned(nics, kept)[n].filter[f] = IF <<n, f>> \in kept THEN nic[n].filter[f] ELSE NoFilter
    BY DEF Cleaned
  <2>3. <<n, f>> \in kept /\ nic[n].filter[f].stale > 0
    BY <1>1, <1>4, <2>1, <2>2
  <2> QED
    BY <1>1, <2>3
<1>5. /\ Cleaned(nics, kept)
             \in [Nics -> [qdisc: BOOLEAN, filter: [Functions -> [live: Nat, stale: 0..1]]]]
      /\ \A n \in Nics, f \in Functions :
            \/ /\ Cleaned(nics, kept)[n].filter[f] = nic[n].filter[f]
               /\ Cleaned(nics, kept)[n].qdisc = nic[n].qdisc
            \/ Cleaned(nics, kept)[n].filter[f] = NoFilter
  BY CleanedTyped
<1>6. nic' = Cleaned(nics, kept)
  BY <1>1
<1> HIDE DEF Cleaned
<1> QED
  BY <1>2, <1>3, <1>4, <1>5, <1>6

LEMMA RouteStepTyped ==
  ASSUME Typed, Busy, NEW k \in Kinds, NEW r \in Routes,
         GetRoute(k, r) \/ RemoveFinalizer(k, r) \/ AddFinalizer(k, r) \/ FetchGateway(k, r)
  PROVE  Typed'
<1> USE DEF objects, known, outside, kernel, Goto, Done, TryAgain
<1>1. worker[k] \in Workers /\ worker[k].at \subseteq Names
  BY DEF Typed, Workers, Names
<1>2. CASE GetRoute(k, r)
  <2>1. worker' \in [Kinds -> Workers]
    <3>1. /\ [Idle EXCEPT !.pc = "release", !.at = {r}] \in Workers
          /\ [Idle EXCEPT !.pc = "hold", !.at = {r}, !.spec = seen.config] \in Workers
      <4>1. <<>> \in Seq(Jobs) /\ 0 \in Versions /\ seen.config \in Configs \cup {NoConfig}
        BY EmptySeq, BoundsAssumption DEF Versions, Typed
      <4> QED
        BY <4>1 DEF Idle, Workers, Pcs
    <3> QED
      BY <1>2, <3>1 DEF GetRoute, Typed
  <2>2. queue' \subseteq Names
    BY <1>2 DEF GetRoute, Typed
  <2> QED
    BY <1>2, <2>1, <2>2 DEF GetRoute, Typed
<1>3. CASE RemoveFinalizer(k, r)
  <2>1. worker' \in [Kinds -> Workers] /\ queue' \subseteq Names
    BY <1>1, <1>3, IdleTyped DEF RemoveFinalizer, Typed
  <2> QED
    BY <1>3, <2>1 DEF RemoveFinalizer, Typed, Names
<1>4. CASE AddFinalizer(k, r)
  <2>1. worker' \in [Kinds -> Workers] /\ queue' \subseteq Names
    <3>1. [worker[k] EXCEPT !.pc = "fetch"] \in Workers
      BY <1>1, WorkerTyped DEF Pcs
    <3>2. \/ worker' = [worker EXCEPT ![k].pc = "fetch"] /\ UNCHANGED queue
          \/ TryAgain(k)
      BY <1>4 DEF AddFinalizer
    <3>3. CASE TryAgain(k)
      BY <1>1, <3>3, IdleTyped DEF Typed
    <3>4. CASE worker' = [worker EXCEPT ![k].pc = "fetch"] /\ UNCHANGED queue
      BY <1>1, <3>1, <3>4 DEF Typed
    <3> QED
      BY <3>2, <3>3, <3>4
  <2> QED
    BY <1>4, <2>1 DEF AddFinalizer, Typed, Names
<1>5. CASE FetchGateway(k, r)
  <2>1. UNCHANGED <<objects, known, outside, events>>
    BY <1>5 DEF FetchGateway
  <2>2. CASE TryAgain(k) /\ UNCHANGED <<up, kernel>>
    <3>1. worker' \in [Kinds -> Workers] /\ queue' \subseteq Names
      BY <1>1, <2>2, IdleTyped DEF Typed
    <3> QED
      BY <2>1, <2>2, <3>1 DEF Typed
  <2>3. CASE Panic
    <3>1. tunnel' \in Versions
      BY <2>3, BoundsAssumption DEF Panic, Versions
    <3> QED
      BY <2>1, <2>3, <3>1, PanicTyped DEF Typed
  <2>4. CASE /\ worker' = [worker EXCEPT ![k].pc = "look", ![k].version = epic,
                                         ![k].jobs = SetupTunnel(worker[k].spec)]
             /\ UNCHANGED <<queue, up, kernel>>
    <3>1. worker[k].spec \in Configs
      BY <1>5 DEF FetchGateway, Busy, Typed, Workers
    <3>2. SetupTunnel(worker[k].spec) \in Seq(Jobs)
      BY <3>1, SetupTunnelTyped
    <3>3. worker' \in [Kinds -> Workers]
      <4>1. [worker[k] EXCEPT !.pc = "look", !.version = epic,
                              !.jobs = SetupTunnel(worker[k].spec)] \in Workers
        BY <1>1, <3>2, WorkerTyped DEF Pcs, Typed
      <4> QED
        BY <2>4, <4>1 DEF Typed
    <3> QED
      BY <2>1, <2>4, <3>3 DEF Typed
  <2> QED
    BY <1>5, <2>2, <2>3, <2>4 DEF FetchGateway
<1> QED
  BY <1>2, <1>3, <1>4, <1>5

LEMMA SetupStepTyped ==
  ASSUME Typed, Busy, NEW k \in Kinds,
         LookForFilter(k) \/ AddFilter(k) \/ SetTunnel(k) \/ CallFails(k)
  PROVE  Typed'
<1> USE DEF objects, known, outside, kernel, NoEvent, Event
<1>1. worker[k] \in Workers /\ worker[k].at \subseteq Names
  BY DEF Typed, Workers, Names
<1> DEFINE n == Head(worker[k].jobs)[1]
           f == Head(worker[k].jobs)[2]
<1>2. worker[k].pc \in {"look", "load"} =>
         n \in Nics /\ f \in Functions /\ Tail(worker[k].jobs) \in Seq(Jobs)
  BY <1>1, JobsTyped DEF Busy, Workers
<1>3. CASE LookForFilter(k)
  <2> USE <1>2, <1>3 DEF LookForFilter
  <2>1. nic' \in [Nics -> [qdisc: BOOLEAN, filter: [Functions -> [live: Nat, stale: 0..1]]]]
    BY NicTyped DEF Typed
  <2>2. worker' \in [Kinds -> Workers]
    <3>1. [worker[k] EXCEPT !.pc = "load", !.found = nic[n].filter[f] # NoFilter] \in Workers
      BY <1>1, WorkerTyped DEF Pcs
    <3> QED
      BY <3>1 DEF Typed
  <2> QED
    BY <2>1, <2>2 DEF Typed
<1>4. CASE AddFilter(k)
  <2>1. events' \in 0..MaxEvents
    <3>1. events' = events \/ (events < MaxEvents /\ events' = events + 1)
      BY <1>4 DEF AddFilter
    <3>2. events \in 0..MaxEvents
      BY DEF Typed
    <3> QED
      BY <3>1, <3>2, BoundsAssumption
  <2> USE <1>2, <1>4 DEF AddFilter
  <2>2. nic' \in [Nics -> [qdisc: BOOLEAN, filter: [Functions -> [live: Nat, stale: 0..1]]]]
    <3>1. UNCHANGED nic \/ nic' = [nic EXCEPT ![n].filter[f].live = @ + 1]
      OBVIOUS
    <3>2. CASE UNCHANGED nic
      BY <3>2 DEF Typed
    <3>3. CASE nic' = [nic EXCEPT ![n].filter[f].live = @ + 1]
      BY <3>3, NicTyped
    <3> QED
      BY <3>1, <3>2, <3>3
  <2>3. worker' \in [Kinds -> Workers]
    <3> DEFINE rest == Tail(worker[k].jobs)
               pc == IF rest = <<>> THEN "tunnel" ELSE "look"
    <3>1. [worker[k] EXCEPT !.jobs = rest, !.found = FALSE, !.pc = pc] \in Workers
      BY <1>1, WorkerTyped DEF Pcs
    <3>2. worker' = [worker EXCEPT ![k].jobs = rest, ![k].found = FALSE, ![k].pc = pc]
      OBVIOUS
    <3> HIDE DEF rest, pc
    <3> QED
      BY <3>1, <3>2 DEF Typed
  <2>4. maps' \in BOOLEAN
    BY DEF Typed
  <2> QED
    BY <2>1, <2>2, <2>3, <2>4 DEF Typed
<1>5. CASE SetTunnel(k) \/ CallFails(k)
  <2>1. worker' \in [Kinds -> Workers] /\ queue' \subseteq Names
    BY <1>1, <1>5, IdleTyped DEF SetTunnel, CallFails, TryAgain, Typed
  <2>2. tunnel' \in Versions
    BY <1>1, <1>5 DEF SetTunnel, CallFails, Typed, Workers
  <2>3. events' \in 0..MaxEvents
    BY <1>5, BoundsAssumption DEF SetTunnel, CallFails, Typed
  <2> QED
    BY <1>5, <2>1, <2>2, <2>3 DEF SetTunnel, CallFails, Typed
<1> QED
  BY <1>3, <1>4, <1>5

\* A graceful exit leaves no filter of this process.
LEMMA ExitTyped ==
  ASSUME Typed, Exit
  PROVE  /\ nic' \in [Nics -> [qdisc: BOOLEAN, filter: [Functions -> [live: Nat, stale: 0..1]]]]
         /\ \A n \in Nics, f \in Functions :
               /\ nic'[n].filter[f].live = 0
               /\ nic'[n].filter[f] # NoFilter =>
                     nic[n].filter[f] # NoFilter /\ nic'[n].qdisc = nic[n].qdisc
<1> DEFINE nics == RemoveFilters({"default"})
<1>1. PICK kept \in SUBSET (nics \X Functions) :
         nic' = [n \in Nics |-> [Cleaned(nics, kept)[n] EXCEPT !.filter = Orphaned(@)]]
  BY DEF Exit
<1> HIDE DEF nics
<1>2. ASSUME NEW n \in Nics
      PROVE  /\ nic'[n] \in [qdisc: BOOLEAN, filter: [Functions -> [live: Nat, stale: 0..1]]]
             /\ \A f \in Functions :
                   /\ nic'[n].filter[f].live = 0
                   /\ nic'[n].filter[f] # NoFilter =>
                         nic[n].filter[f] # NoFilter /\ nic'[n].qdisc = nic[n].qdisc
  <2>0. /\ Cleaned(nics, kept)
              \in [Nics -> [qdisc: BOOLEAN, filter: [Functions -> [live: Nat, stale: 0..1]]]]
        /\ \A f \in Functions :
              \/ /\ Cleaned(nics, kept)[n].filter[f] = nic[n].filter[f]
                 /\ Cleaned(nics, kept)[n].qdisc = nic[n].qdisc
              \/ Cleaned(nics, kept)[n].filter[f] = NoFilter
    BY CleanedTyped
  <2> DEFINE c == Cleaned(nics, kept)[n]
  <2>1. /\ c \in [qdisc: BOOLEAN, filter: [Functions -> [live: Nat, stale: 0..1]]]
        /\ \A f \in Functions :
              c.filter[f] = NoFilter \/ (c.filter[f] = nic[n].filter[f] /\ c.qdisc = nic[n].qdisc)
    BY <2>0
  <2>2. nic'[n] = [c EXCEPT !.filter = Orphaned(@)]
    BY <1>1
  <2> HIDE DEF c
  <2>3. /\ nic'[n].qdisc = c.qdisc
        /\ nic'[n].filter = Orphaned(c.filter)
        /\ c.filter \in [Functions -> [live: Nat, stale: 0..1]]
    BY <2>1, <2>2
  <2>4. /\ nic'[n].filter \in [Functions -> [live: Nat, stale: 0..1]]
        /\ \A f \in Functions :
              /\ nic'[n].filter[f].live = 0
              /\ c.filter[f] = NoFilter => nic'[n].filter[f] = NoFilter
    BY <2>3, OrphanedTyped
  <2>5. nic'[n] \in [qdisc: BOOLEAN, filter: [Functions -> [live: Nat, stale: 0..1]]]
    BY <2>1, <2>2, <2>3, <2>4
  <2> QED
    BY <2>1, <2>3, <2>4, <2>5
<1>3. nic' = [n \in Nics |-> nic'[n]]
  BY <1>1
<1> QED
  BY <1>2, <1>3

LEMMA AgentStepTyped ==
  ASSUME Typed, ReconcileConfig \/ Start \/ Kill \/ Exit
  PROVE  Typed'
<1> USE DEF objects, known, outside, kernel, Event
<1>1. CASE ReconcileConfig
  <2>1. CASE UNCHANGED <<nic, left, events>>
    BY <1>1, <2>1 DEF ReconcileConfig, Typed
  <2>2. CASE seen.config # NoConfig /\ Clean(RemoveFilters({seen.config.encap, seen.config.decap}))
    <3>1. {seen.config.encap, seen.config.decap} \subseteq Encaps \cup Decaps
      BY <2>2 DEF Typed, Configs
    <3>2. RemoveFilters({seen.config.encap, seen.config.decap}) \subseteq Nics
      BY <3>1, RemoveFiltersTyped
    <3> QED
      BY <1>1, <2>2, <3>2, CleanEffect DEF ReconcileConfig, Typed
  <2> QED
    BY <1>1, <2>1, <2>2 DEF ReconcileConfig
<1>2. CASE Start
  <2>1. seen' \in [route: [Routes -> {"gone", "live", "doomed"}], held: SUBSET Routes,
                   config: Configs \cup {NoConfig}]
    BY <1>2 DEF Start, Everything, Typed
  <2>2. RemoveFilters({"default"}) \subseteq Nics
    BY RemoveFiltersTyped
  <2> QED
    BY <1>2, <2>1, <2>2, CleanEffect DEF Start, Typed
<1>3. CASE Kill
  <2>1. tunnel' \in Versions
    BY <1>3, BoundsAssumption DEF Kill, Panic, Versions
  <2>2. events' \in 0..MaxEvents
    BY <1>3, BoundsAssumption DEF Kill, Typed
  <2> QED
    BY <1>3, <2>1, <2>2, PanicTyped DEF Kill, Typed
<1>4. CASE Exit
  <2>1. tunnel' \in Versions
    BY <1>4, BoundsAssumption DEF Exit, Versions
  <2>2. events' \in 0..MaxEvents
    BY <1>4, BoundsAssumption DEF Exit, Typed
  <2>3. route' \in [Routes -> {"gone", "live", "doomed"}] /\ held' \subseteq Routes
    BY <1>4 DEF Exit, Typed
  <2> QED
    BY <1>4, <2>1, <2>2, <2>3, ExitTyped DEF Exit, Typed
<1> QED
  BY <1>1, <1>2, <1>3, <1>4

LEMMA WorldStepTyped ==
  ASSUME Typed,
         \/ \E n \in Names : Sync(n)
         \/ \E r \in Routes : ChangeRoute(r) \/ ChangeBackend(r)
         \/ ChangeConfig \/ ChangeGateway \/ ChangeTunnels
  PROVE  Typed'
<1> USE DEF objects, known, outside, kernel
<1>1. ASSUME NEW n \in Names, Sync(n)
      PROVE  Typed'
  <2>1. seen' \in [route: [Routes -> {"gone", "live", "doomed"}], held: SUBSET Routes,
                   config: Configs \cup {NoConfig}]
    BY <1>1 DEF Sync, Typed, Names
  <2> QED
    BY <1>1, <2>1 DEF Sync, Typed
<1>2. Change => events' \in 0..MaxEvents
  BY BoundsAssumption DEF Change, Event, Typed
<1>3. ASSUME NEW r \in Routes, ChangeRoute(r)
      PROVE  Typed'
  BY <1>2, <1>3 DEF ChangeRoute, Change, Typed, Names
<1>4. ASSUME NEW r \in Routes, ChangeBackend(r)
      PROVE  Typed'
  <2>1. PICK b \in Backends : backend' = [backend EXCEPT ![r] = b]
    BY <1>4 DEF ChangeBackend
  <2>2. backend' \in [Routes -> Backends]
    BY <2>1 DEF Typed
  <2> QED
    BY <1>2, <1>4, <2>2 DEF ChangeBackend, Change, Typed
<1>5. CASE ChangeConfig
  BY <1>2, <1>5 DEF ChangeConfig, Change, Typed, Names
<1>6. CASE ChangeGateway
  <2>1. lags' \subseteq Names
    BY <1>6 DEF ChangeGateway, Typed, Names, Routes
  <2>2. gateway' \in Gateways
    BY <1>6 DEF ChangeGateway
  <2> QED
    BY <1>2, <1>6, <2>1, <2>2 DEF ChangeGateway, Change, Typed
<1>7. CASE ChangeTunnels
  <2>1. epic' \in Versions
    BY <1>2, <1>7, BoundsAssumption DEF ChangeTunnels, Change, Versions
  <2> QED
    BY <1>2, <1>7, <2>1 DEF ChangeTunnels, Change, Typed
<1> QED
  BY <1>1, <1>3, <1>4, <1>5, <1>6, <1>7

\* The actions of Next, those of the workers for each of the two.
Work(k) ==
    \/ \E r \in OfKind(k) : RemoveFinalizer(k, r) \/ AddFinalizer(k, r) \/ FetchGateway(k, r)
    \/ LookForFilter(k) \/ AddFilter(k) \/ SetTunnel(k)

LEMMA NextSteps ==
  Next =>
    \/ \E k \in Kinds : \/ \E r \in Routes : GetRoute(k, r)
                        \/ Work(k)
                        \/ CallFails(k)
    \/ ReconcileConfig \/ Start \/ Kill \/ Exit
    \/ \E n \in Names : Sync(n)
    \/ \E r \in Routes : ChangeRoute(r) \/ ChangeBackend(r)
    \/ ChangeConfig \/ ChangeGateway \/ ChangeTunnels
<1>1. ReconcileHTTPRoute => Work("http")
  BY DEF ReconcileHTTPRoute, Work, OfKind
<1>2. ReconcileTCPRoute => Work("tcp")
  BY DEF ReconcileTCPRoute, Work, OfKind
<1>3. "http" \in Kinds /\ "tcp" \in Kinds
  BY DEF Kinds
<1> QED
  BY <1>1, <1>2, <1>3 DEF Next

LEMMA TypedStep ==
  ASSUME Typed, Busy, [Next]_vars
  PROVE  Typed'
<1>1. CASE UNCHANGED vars
  BY <1>1 DEF Typed, vars, objects, known, outside, kernel
<1>2. ASSUME NEW k \in Kinds
      PROVE  OfKind(k) \subseteq Routes
  BY DEF OfKind, Routes
<1> QED
  BY <1>1, <1>2, NextSteps, RouteStepTyped, SetupStepTyped, AgentStepTyped, WorldStepTyped
  DEF Work

-----------------------------------------------------------------------------
(* The filters.                                                            *)

\* Filters only go, and nobody is about to load one that was not before.
LEMMA CalmLoaded ==
  ASSUME Typed, Typed', Loaded,
         \A n \in Nics, f \in Functions :
            /\ nic'[n].filter[f].live <= nic[n].filter[f].live
            /\ nic'[n].filter[f] # NoFilter => nic'[n].qdisc,
         \A k \in Kinds : worker'[k].pc = "load" => worker'[k] = worker[k]
  PROVE  Loaded'
<1> SUFFICES ASSUME NEW n \in Nics, NEW f \in Functions
             PROVE  /\ nic'[n].filter[f] # NoFilter => nic'[n].qdisc
                    /\ nic'[n].filter[f].live
                         + Pending("http", n, f)' + Pending("tcp", n, f)' <= 2
  BY DEF Loaded
<1>1. \A k \in Kinds : About(k, n, f)' => About(k, n, f)
  BY DEF About
<1>2. Pending("http", n, f)' <= Pending("http", n, f) /\ Pending("http", n, f) \in 0..1
      /\ Pending("http", n, f)' \in 0..1
  BY <1>1 DEF Pending, Kinds
<1>3. Pending("tcp", n, f)' <= Pending("tcp", n, f) /\ Pending("tcp", n, f) \in 0..1
      /\ Pending("tcp", n, f)' \in 0..1
  BY <1>1 DEF Pending, Kinds
<1>4. nic[n].filter[f].live \in Nat /\ nic'[n].filter[f].live \in Nat
  BY DEF Typed
<1>5. nic[n].filter[f].live + Pending("http", n, f) + Pending("tcp", n, f) <= 2
  BY DEF Loaded
<1>6. nic'[n].filter[f].live <= nic[n].filter[f].live
  OBVIOUS
<1> HIDE DEF Pending
<1>7. nic'[n].filter[f].live + Pending("http", n, f)' + Pending("tcp", n, f)' <= 2
  BY <1>2, <1>3, <1>4, <1>5, <1>6
<1> QED
  BY <1>7

\* What a worker that looks for a filter changes: the qdisc is there, and it
\* will load the filter only if there was none.
LEMMA LookEffect ==
  ASSUME Typed, Busy, NEW k \in Kinds, LookForFilter(k)
  PROVE  /\ \A n \in Nics : /\ nic'[n].filter = nic[n].filter
                            /\ nic[n].qdisc => nic'[n].qdisc
         /\ \A n \in Nics, f \in Functions :
               About(k, n, f)' => nic[n].filter[f] = NoFilter
         /\ \A j \in Kinds \ {k} : worker'[j] = worker[j]
<1> DEFINE m == Head(worker[k].jobs)[1]
           g == Head(worker[k].jobs)[2]
<1>1. m \in Nics /\ g \in Functions
  BY JobsTyped DEF LookForFilter, Busy, Typed, Workers
<1>2. nic' = [nic EXCEPT ![m].qdisc = TRUE]
  BY DEF LookForFilter
<1>3. worker' = [worker EXCEPT ![k].pc = "load", ![k].found = nic[m].filter[g] # NoFilter]
  BY DEF LookForFilter
<1>4. worker'[k].jobs = worker[k].jobs /\ (worker'[k].found <=> nic[m].filter[g] # NoFilter)
  BY <1>3 DEF Typed, Workers
<1>5. ASSUME NEW n \in Nics, NEW f \in Functions, About(k, n, f)'
      PROVE  nic[n].filter[f] = NoFilter
  BY <1>4, <1>5 DEF About
<1> HIDE DEF m, g
<1>6. \A n \in Nics : /\ nic'[n].filter = nic[n].filter
                      /\ nic[n].qdisc => nic'[n].qdisc
  BY <1>1, <1>2 DEF Typed
<1> QED
  BY <1>3, <1>5, <1>6 DEF Typed

\* What a worker that is at the loading changes: one filter, if it found none
\* and there is a qdisc.
LEMMA LoadEffect ==
  ASSUME Typed, Busy, NEW k \in Kinds, AddFilter(k)
  PROVE  /\ \A n \in Nics : nic'[n].qdisc = nic[n].qdisc
         /\ \A n \in Nics, f \in Functions :
               /\ nic'[n].filter[f].stale = nic[n].filter[f].stale
               /\ \/ nic'[n].filter[f] = nic[n].filter[f]
                  \/ /\ nic'[n].filter[f].live = nic[n].filter[f].live + 1
                     /\ nic[n].qdisc
                     /\ About(k, n, f)
         /\ worker'[k].pc # "load"
         /\ \A j \in Kinds \ {k} : worker'[j] = worker[j]
<1> DEFINE m == Head(worker[k].jobs)[1]
           g == Head(worker[k].jobs)[2]
<1>1. m \in Nics /\ g \in Functions /\ Head(worker[k].jobs) = <<m, g>>
  BY JobsTyped DEF AddFilter, Busy, Typed, Workers
<1>2. \/ UNCHANGED nic
      \/ /\ nic' = [nic EXCEPT ![m].filter[g].live = @ + 1]
         /\ nic[m].qdisc
         /\ About(k, m, g)
  BY <1>1 DEF AddFilter, About
<1>3. worker'[k].pc # "load" /\ \A j \in Kinds \ {k} : worker'[j] = worker[j]
  <2> DEFINE rest == Tail(worker[k].jobs)
             pc == IF rest = <<>> THEN "tunnel" ELSE "look"
  <2>1. worker' = [worker EXCEPT ![k].jobs = rest, ![k].found = FALSE, ![k].pc = pc]
    BY DEF AddFilter
  <2>2. pc # "load" /\ worker \in [Kinds -> Workers] /\ DOMAIN worker[k] = DOMAIN Idle
    BY DEF Typed, Workers, Idle
  <2> HIDE DEF rest, pc
  <2>3. worker'[k].pc = pc
    BY <2>1, <2>2 DEF Idle
  <2> QED
    BY <2>1, <2>2, <2>3
<1> HIDE DEF m, g
<1>4. CASE UNCHANGED nic
  BY <1>3, <1>4
<1>5. CASE /\ nic' = [nic EXCEPT ![m].filter[g].live = @ + 1]
           /\ nic[m].qdisc
           /\ About(k, m, g)
  <2>1. \A n \in Nics : nic'[n] = IF n = m THEN [nic[m] EXCEPT !.filter[g].live = @ + 1]
                                  ELSE nic[n]
    BY <1>1, <1>5 DEF Typed
  <2>2. nic[m] \in [qdisc: BOOLEAN, filter: [Functions -> [live: Nat, stale: 0..1]]]
    BY <1>1 DEF Typed
  <2>3. /\ nic'[m].qdisc = nic[m].qdisc
        /\ \A f \in Functions :
              nic'[m].filter[f] = IF f = g THEN [nic[m].filter[g] EXCEPT !.live = @ + 1]
                                  ELSE nic[m].filter[f]
    BY <1>1, <2>1, <2>2
  <2>4. /\ nic'[m].filter[g].stale = nic[m].filter[g].stale
        /\ nic'[m].filter[g].live = nic[m].filter[g].live + 1
    BY <1>1, <2>2, <2>3
  <2>5. ASSUME NEW n \in Nics, NEW f \in Functions
        PROVE  /\ nic'[n].qdisc = nic[n].qdisc
               /\ nic'[n].filter[f].stale = nic[n].filter[f].stale
               /\ \/ nic'[n].filter[f] = nic[n].filter[f]
                  \/ /\ nic'[n].filter[f].live = nic[n].filter[f].live + 1
                     /\ nic[n].qdisc
                     /\ About(k, n, f)
    <3>1. CASE n = m /\ f = g
      BY <1>5, <2>3, <2>4, <3>1
    <3>2. CASE n # m
      BY <2>1, <3>2
    <3>3. CASE n = m /\ f # g
      BY <2>3, <3>3
    <3> QED
      BY <3>1, <3>2, <3>3
  <2>6. \A n \in Nics : nic'[n].qdisc = nic[n].qdisc
    BY <2>1, <2>3
  <2> QED
    BY <1>3, <2>5, <2>6
<1> QED
  BY <1>2, <1>4, <1>5

\* The worker that looks is about to load only what is not there, so that no
\* more than the other one can have it in hand; the one that loads had it.
LEMMA WorkLoaded ==
  ASSUME Typed, Typed', Loaded, Busy, NEW k \in Kinds, LookForFilter(k) \/ AddFilter(k)
  PROVE  Loaded'
<1> SUFFICES ASSUME NEW n \in Nics, NEW f \in Functions
             PROVE  /\ nic'[n].filter[f] # NoFilter => nic'[n].qdisc
                    /\ nic'[n].filter[f].live
                         + Pending("http", n, f)' + Pending("tcp", n, f)' <= 2
  BY DEF Loaded
<1>1. /\ nic[n].filter[f].live \in Nat /\ nic'[n].filter[f].live \in Nat
      /\ nic[n].filter[f] # NoFilter => nic[n].qdisc
      /\ nic[n].filter[f].live + Pending("http", n, f) + Pending("tcp", n, f) <= 2
  BY DEF Typed, Loaded
<1>2. PICK j \in Kinds \ {k} : Kinds = {j, k}
  BY DEF Kinds
<1>3. /\ Pending(j, n, f) \in 0..1 /\ Pending(j, n, f)' \in 0..1
      /\ Pending(k, n, f) \in 0..1 /\ Pending(k, n, f)' \in 0..1
      /\ Pending("http", n, f) \in 0..1 /\ Pending("http", n, f)' \in 0..1
      /\ Pending("tcp", n, f) \in 0..1 /\ Pending("tcp", n, f)' \in 0..1
      /\ Pending("http", n, f) + Pending("tcp", n, f) = Pending(j, n, f) + Pending(k, n, f)
      /\ Pending("http", n, f)' + Pending("tcp", n, f)' = Pending(j, n, f)' + Pending(k, n, f)'
  BY <1>2 DEF Pending, Kinds
<1>4. CASE LookForFilter(k)
  <2>1. Pending(j, n, f)' = Pending(j, n, f)
    BY <1>2, <1>4, LookEffect DEF Pending, About
  <2>2. nic'[n].filter[f] = nic[n].filter[f] /\ (nic[n].qdisc => nic'[n].qdisc)
    BY <1>4, LookEffect
  <2>3. Pending(k, n, f)' = 1 => nic[n].filter[f].live = 0
    BY <1>4, LookEffect DEF Pending, NoFilter
  <2> HIDE DEF Pending
  <2>4. nic'[n].filter[f].live + Pending(j, n, f)' + Pending(k, n, f)' <= 2
    BY <1>1, <1>2, <1>3, <2>1, <2>2, <2>3
  <2> QED
    BY <1>1, <1>3, <2>2, <2>4
<1>5. CASE AddFilter(k)
  <2>1. Pending(j, n, f)' = Pending(j, n, f)
    BY <1>2, <1>5, LoadEffect DEF Pending, About
  <2>2. Pending(k, n, f)' = 0
    BY <1>5, LoadEffect DEF Pending, About
  <2>3. CASE nic'[n].filter[f] = nic[n].filter[f]
    <3>1. nic'[n].qdisc = nic[n].qdisc
      BY <1>5, LoadEffect
    <3> QED
      BY <1>1, <1>3, <2>1, <2>2, <2>3, <3>1
  <2>4. CASE nic'[n].filter[f] # nic[n].filter[f]
    <3>1. /\ nic'[n].filter[f].live = nic[n].filter[f].live + 1
          /\ nic'[n].qdisc
          /\ Pending(k, n, f) = 1
      BY <1>5, <2>4, LoadEffect DEF Pending
    <3> QED
      BY <1>1, <1>2, <1>3, <2>1, <2>2, <3>1
  <2> QED
    BY <2>3, <2>4
<1> QED
  BY <1>4, <1>5

\* A worker that goes from one call to the next, or ends, is not about to load
\* anything that it was not.
LEMMA GotoCalm ==
  ASSUME Typed, NEW k \in Kinds,
         \/ \E r \in Routes : \/ GetRoute(k, r) \/ RemoveFinalizer(k, r)
                              \/ AddFinalizer(k, r) \/ FetchGateway(k, r)
         \/ SetTunnel(k) \/ CallFails(k)
  PROVE  /\ worker'[k].pc # "load"
         /\ \A j \in Kinds \ {k} : worker'[j] = worker[j] \/ worker'[j] = Idle
<1> USE DEF Typed, Workers, Idle
<1>1. CASE worker' = [worker EXCEPT ![k] = Idle]
  BY <1>1
<1>2. ASSUME NEW r \in Routes, GetRoute(k, r)
      PROVE  worker'[k].pc # "load" /\ \A j \in Kinds \ {k} : worker'[j] = worker[j]
  <2>1. CASE worker' = worker
    BY <1>2, <2>1 DEF GetRoute
  <2>2. CASE worker' # worker
    <3>1. \/ worker' = [worker EXCEPT ![k] = [Idle EXCEPT !.pc = "release", !.at = {r}]]
          \/ worker' = [worker EXCEPT ![k] = [Idle EXCEPT !.pc = "hold", !.at = {r},
                                                         !.spec = seen.config]]
      BY <1>2, <2>2 DEF GetRoute
    <3>2. /\ [Idle EXCEPT !.pc = "release", !.at = {r}].pc = "release"
          /\ [Idle EXCEPT !.pc = "hold", !.at = {r}, !.spec = seen.config].pc = "hold"
      OBVIOUS
    <3>3. DOMAIN worker = Kinds
      OBVIOUS
    <3> QED
      BY ONLY <3>1, <3>2, <3>3, k \in Kinds
  <2> QED
    BY <2>1, <2>2
<1>3. ASSUME NEW r \in Routes, RemoveFinalizer(k, r)
      PROVE  worker' = [worker EXCEPT ![k] = Idle]
  BY <1>3 DEF RemoveFinalizer, Done, TryAgain
<1>4. ASSUME NEW r \in Routes, AddFinalizer(k, r), worker' # [worker EXCEPT ![k] = Idle]
      PROVE  worker' = [worker EXCEPT ![k].pc = "fetch"]
  BY <1>4 DEF AddFinalizer, Goto, TryAgain
<1>5. ASSUME NEW r \in Routes, FetchGateway(k, r), worker' # [worker EXCEPT ![k] = Idle]
      PROVE  \/ worker' = [j \in Kinds |-> Idle]
             \/ worker' = [worker EXCEPT ![k].pc = "look", ![k].version = epic,
                                         ![k].jobs = SetupTunnel(worker[k].spec)]
  BY <1>5 DEF FetchGateway, Panic, TryAgain
<1>6. CASE SetTunnel(k) \/ CallFails(k)
  BY <1>6 DEF SetTunnel, CallFails, TryAgain
<1>7. CASE worker' = [j \in Kinds |-> Idle]
  BY <1>7
<1>8. CASE \/ worker' = [worker EXCEPT ![k].pc = "fetch"]
           \/ worker' = [worker EXCEPT ![k].pc = "look", ![k].version = epic,
                                       ![k].jobs = SetupTunnel(worker[k].spec)]
  BY <1>8
<1> QED
  BY <1>1, <1>2, <1>3, <1>4, <1>5, <1>6, <1>7, <1>8

LEMMA LoadedStep ==
  ASSUME Typed, Typed', Loaded, Busy, [Next]_vars
  PROVE  Loaded'
<1> USE DEF objects, known, outside, kernel
<1>0. \A n \in Nics, f \in Functions :
         /\ nic[n].filter[f].live \in Nat
         /\ nic[n].filter[f] # NoFilter => nic[n].qdisc
  BY DEF Typed, Loaded
<1>1. CASE UNCHANGED <<nic, worker>>
  BY <1>1 DEF Loaded, Pending, About
<1>2. ASSUME NEW k \in Kinds,
             \/ \E r \in Routes : \/ GetRoute(k, r) \/ RemoveFinalizer(k, r)
                                  \/ AddFinalizer(k, r) \/ FetchGateway(k, r)
             \/ SetTunnel(k) \/ CallFails(k)
      PROVE  Loaded'
  <2>1. \A j \in Kinds : worker'[j].pc = "load" => worker'[j] = worker[j]
    BY <1>2, GotoCalm DEF Idle
  <2>2. nic' = nic \/ Panic
    BY <1>2 DEF GetRoute, RemoveFinalizer, AddFinalizer, FetchGateway, SetTunnel, CallFails
  <2>3. \A n \in Nics, f \in Functions :
           /\ nic'[n].filter[f].live <= nic[n].filter[f].live
           /\ nic'[n].filter[f] # NoFilter => nic'[n].qdisc
    <3>1. CASE nic' = nic
      BY <1>0, <3>1
    <3>2. CASE Panic
      BY <1>0, <3>2, PanicTyped
    <3> QED
      BY <2>2, <3>1, <3>2
  <2> QED
    BY <2>1, <2>3, CalmLoaded
<1>3. CASE ReconcileConfig \/ Start
  <2>1. worker' = worker
    BY <1>3 DEF ReconcileConfig, Start
  <2>2. nic' = nic \/ \E nics, kept : nic' = Cleaned(nics, kept)
    BY <1>3 DEF ReconcileConfig, Start, Clean
  <2>3. \A n \in Nics, f \in Functions :
           /\ nic'[n].filter[f].live <= nic[n].filter[f].live
           /\ nic'[n].filter[f] # NoFilter => nic'[n].qdisc
    <3>1. CASE nic' = nic
      BY <1>0, <3>1
    <3>2. ASSUME NEW nics, NEW kept, nic' = Cleaned(nics, kept), NEW n \in Nics, NEW f \in Functions
          PROVE  /\ nic'[n].filter[f].live <= nic[n].filter[f].live
                 /\ nic'[n].filter[f] # NoFilter => nic'[n].qdisc
      <4>1. \/ /\ Cleaned(nics, kept)[n].filter[f] = nic[n].filter[f]
               /\ Cleaned(nics, kept)[n].qdisc = nic[n].qdisc
            \/ Cleaned(nics, kept)[n].filter[f] = NoFilter
        BY CleanedTyped
      <4>2. \/ nic'[n].filter[f] = nic[n].filter[f] /\ nic'[n].qdisc = nic[n].qdisc
            \/ nic'[n].filter[f] = NoFilter
        BY <3>2, <4>1
      <4>3. nic[n].filter[f].live \in Nat /\ (nic[n].filter[f] # NoFilter => nic[n].qdisc)
        BY <1>0
      <4>4. nic'[n].filter[f].live <= nic[n].filter[f].live
        BY <4>2, <4>3 DEF NoFilter
      <4>5. nic'[n].filter[f] # NoFilter => nic'[n].qdisc
        BY <4>2, <4>3, Zenon
      <4> QED
        BY <4>4, <4>5
    <3> QED
      BY <2>2, <3>1, <3>2
  <2> QED
    BY <2>1, <2>3, CalmLoaded
<1>4. CASE Kill
  <2>1. \A j \in Kinds : worker'[j].pc # "load"
    BY <1>4 DEF Kill, Panic, Idle
  <2>2. \A n \in Nics, f \in Functions :
           /\ nic'[n].filter[f].live <= nic[n].filter[f].live
           /\ nic'[n].filter[f] # NoFilter => nic'[n].qdisc
    BY <1>4, <1>0, PanicTyped DEF Kill
  <2> QED
    BY <2>1, <2>2, CalmLoaded
<1>5. CASE Exit
  <2>1. worker' = worker
    BY <1>5 DEF Exit
  <2>2. \A n \in Nics, f \in Functions :
           /\ nic'[n].filter[f].live <= nic[n].filter[f].live
           /\ nic'[n].filter[f] # NoFilter => nic'[n].qdisc
    BY <1>5, <1>0, ExitTyped
  <2> QED
    BY <2>1, <2>2, CalmLoaded
<1>6. CASE \/ \E n \in Names : Sync(n)
           \/ \E r \in Routes : ChangeRoute(r) \/ ChangeBackend(r)
           \/ ChangeConfig \/ ChangeGateway \/ ChangeTunnels
  BY <1>1, <1>6
  DEF Sync, Change, ChangeRoute, ChangeBackend, ChangeConfig, ChangeGateway, ChangeTunnels
<1>7. ASSUME NEW k \in Kinds
      PROVE  OfKind(k) \subseteq Routes
  BY DEF OfKind, Routes
<1>8. CASE UNCHANGED vars
  BY <1>1, <1>8 DEF vars
<1> QED
  BY <1>2, <1>3, <1>4, <1>5, <1>6, <1>7, <1>8, NextSteps, WorkLoaded DEF Work

\* The config that the informer has names interfaces of the node.
LEMMA SeenConfigTyped ==
  ASSUME Typed, seen.config # NoConfig
  PROVE  {seen.config.encap, seen.config.decap} \in SUBSET (Encaps \cup Decaps \cup {"default"})
BY DEF Typed, Configs

\* Where nothing becomes stale or is forgotten, it is enough that a new config
\* is queued.
LEMMA CalmLeft ==
  ASSUME Typed, Typed', OnlyFailuresLeft, up' => up,
         Config \in queue => Config \in queue',
         seen'.config = seen.config \/ Config \in queue',
         left \subseteq left',
         \A n \in Nics, f \in Functions : nic'[n].filter[f].stale = nic[n].filter[f].stale
  PROVE  OnlyFailuresLeft'
<1>1. CASE Config \in queue' \/ seen'.config = NoConfig
  <2>1. ASSUME up, NEW n \in RemoveFilters({"default"}), NEW f \in Functions,
               nic[n].filter[f].stale > 0
        PROVE  <<n, f>> \in left
    BY <2>1, SeenConfigTyped, RemoveFiltersTyped DEF OnlyFailuresLeft
  <2>2. RemoveFilters({"default"}) \subseteq Nics
    BY RemoveFiltersTyped
  <2> QED
    BY <1>1, <2>1, <2>2 DEF OnlyFailuresLeft
<1>2. CASE Config \notin queue' /\ seen'.config # NoConfig
  <2>1. /\ seen'.config = seen.config /\ Config \notin queue
        /\ RemoveFilters({seen.config.encap, seen.config.decap}) \subseteq Nics
    BY <1>2, SeenConfigTyped, RemoveFiltersTyped
  <2> QED
    BY <1>2, <2>1 DEF OnlyFailuresLeft
<1> QED
  BY <1>1, <1>2

\* Only loading adds filters, and those are this process's own; the start and the
\* events of the config clean.
LEMMA LeftStep ==
  ASSUME Typed, Typed', Busy, OnlyFailuresLeft, [Next]_vars
  PROVE  OnlyFailuresLeft'
<1> USE DEF objects, known, outside, kernel
<1>1. \A r \in Routes : r # Config
  BY RoutesAssumption DEF Routes, Config
<1>2. CASE ~up'
  BY <1>2 DEF OnlyFailuresLeft
<1>3. CASE UNCHANGED <<nic, left, up, queue, seen>>
  BY <1>3, CalmLeft
<1>4. ASSUME NEW k \in Kinds, LookForFilter(k)
      PROVE  OnlyFailuresLeft'
  <2>1. /\ UNCHANGED <<up, queue, seen, left>>
        /\ \A n \in Nics : nic'[n].filter = nic[n].filter
    BY <1>4, LookEffect DEF LookForFilter
  <2> QED
    BY <2>1, CalmLeft
<1>5. ASSUME NEW k \in Kinds, AddFilter(k)
      PROVE  OnlyFailuresLeft'
  <2>1. /\ UNCHANGED <<up, queue, seen, left>>
        /\ \A n \in Nics, f \in Functions : nic'[n].filter[f].stale = nic[n].filter[f].stale
    BY <1>5, LoadEffect DEF AddFilter
  <2> QED
    BY <2>1, CalmLeft
<1>6. CASE ReconcileConfig
  <2>1. CASE seen.config = NoConfig
    <3>1. UNCHANGED <<nic, left, up, seen>>
      BY <1>6, <2>1 DEF ReconcileConfig
    <3> QED
      BY <2>1, <3>1 DEF OnlyFailuresLeft
  <2>2. CASE seen.config # NoConfig
    <3> DEFINE nics == RemoveFilters({seen.config.encap, seen.config.decap})
    <3>1. Clean(nics) /\ UNCHANGED seen /\ Config \notin queue'
      BY <1>6, <2>2 DEF ReconcileConfig
    <3>2. nics \subseteq Nics
      BY <2>2, SeenConfigTyped, RemoveFiltersTyped
    <3>3. nics = RemoveFilters({seen'.config.encap, seen'.config.decap})
      BY <3>1
    <3> HIDE DEF nics
    <3>4. \A n \in nics, f \in Functions : nic'[n].filter[f].stale > 0 => <<n, f>> \in left'
      BY <3>1, <3>2, CleanEffect
    <3> QED
      BY <2>2, <3>1, <3>3, <3>4 DEF OnlyFailuresLeft
  <2> QED
    BY <2>1, <2>2
<1>7. CASE Start
  <2>1. Clean(RemoveFilters({"default"})) /\ RemoveFilters({"default"}) \subseteq Nics
    BY <1>7, RemoveFiltersTyped DEF Start
  <2>2. \A n \in RemoveFilters({"default"}), f \in Functions :
           nic'[n].filter[f].stale > 0 => <<n, f>> \in left'
    BY <2>1, CleanEffect
  <2>3. Config \in queue'
    BY <1>7 DEF Start, Names
  <2> QED
    BY <2>2, <2>3 DEF OnlyFailuresLeft
<1>8. CASE Kill \/ Exit
  BY <1>2, <1>8 DEF Kill, Panic, Exit
<1>9. ASSUME NEW k \in Kinds, NEW r \in Routes,
             \/ GetRoute(k, r) \/ RemoveFinalizer(k, r) \/ AddFinalizer(k, r)
             \/ FetchGateway(k, r)
      PROVE  OnlyFailuresLeft'
  <2>1. \/ Panic
        \/ /\ UNCHANGED <<nic, left, up, seen>>
           /\ queue' = queue \/ queue' = queue \ {r} \/ queue' = queue \cup worker[k].at
    BY <1>9 DEF GetRoute, RemoveFinalizer, AddFinalizer, FetchGateway, Done, TryAgain, Goto
  <2>2. CASE Panic
    BY <1>2, <2>2 DEF Panic
  <2> QED
    BY <1>1, <2>1, <2>2, CalmLeft
<1>10. ASSUME NEW k \in Kinds, SetTunnel(k) \/ CallFails(k)
       PROVE  OnlyFailuresLeft'
  <2>1. UNCHANGED <<nic, left, up, seen>> /\ queue' = queue \cup worker[k].at
    BY <1>10 DEF SetTunnel, CallFails, TryAgain
  <2> QED
    BY <2>1, CalmLeft
<1>11. ASSUME NEW n \in Names, Sync(n)
       PROVE  OnlyFailuresLeft'
  <2>1. /\ UNCHANGED <<nic, left, up>> /\ queue' = queue \cup {n}
        /\ n = Config \/ seen'.config = seen.config
    BY <1>11 DEF Sync, Typed
  <2> QED
    BY <2>1, CalmLeft
<1>12. CASE \/ \E r \in Routes : ChangeRoute(r) \/ ChangeBackend(r)
            \/ ChangeConfig \/ ChangeGateway \/ ChangeTunnels
  BY <1>3, <1>12
  DEF Change, ChangeRoute, ChangeBackend, ChangeConfig, ChangeGateway, ChangeTunnels
<1>13. ASSUME NEW k \in Kinds
       PROVE  OfKind(k) \subseteq Routes
  BY DEF OfKind, Routes
<1>14. CASE UNCHANGED vars
  BY <1>3, <1>14 DEF vars
<1> QED
  BY <1>4, <1>5, <1>6, <1>7, <1>8, <1>9, <1>10, <1>11, <1>12, <1>13, <1>14, NextSteps DEF Work

-----------------------------------------------------------------------------
(* The workers.                                                            *)

\* A worker starts at a route of its own that the informer has.
LEMMA GetRouteEffect ==
  ASSUME Typed, NEW k \in Kinds, NEW r \in Routes, GetRoute(k, r)
  PROVE  /\ up /\ r \in OfKind(k)
         /\ \A j \in Kinds \ {k} : worker'[j] = worker[j]
         /\ \/ worker'[k] = worker[k]
            \/ worker'[k].pc = "release" /\ worker'[k].at = {r} /\ seen.route[r] = "doomed"
            \/ /\ worker'[k].pc = "hold" /\ worker'[k].at = {r} /\ seen.route[r] = "live"
               /\ worker'[k].spec # NoConfig
<1> DEFINE release == [Idle EXCEPT !.pc = "release", !.at = {r}]
           hold == [Idle EXCEPT !.pc = "hold", !.at = {r}, !.spec = seen.config]
<1>1. /\ release.pc = "release" /\ release.at = {r}
      /\ hold.pc = "hold" /\ hold.at = {r} /\ hold.spec = seen.config
  BY DEF Idle
<1>2. DOMAIN worker = Kinds
  BY DEF Typed
<1>3. \/ worker' = worker
      \/ worker' = [worker EXCEPT ![k] = release] /\ seen.route[r] = "doomed"
      \/ /\ worker' = [worker EXCEPT ![k] = hold] /\ seen.route[r] = "live"
         /\ seen.config # NoConfig
  BY DEF GetRoute
<1> HIDE DEF release, hold
<1>4. /\ \A j \in Kinds \ {k} : worker'[j] = worker[j]
      /\ \/ worker'[k] = worker[k]
         \/ worker'[k] = release /\ seen.route[r] = "doomed"
         \/ worker'[k] = hold /\ seen.route[r] = "live" /\ seen.config # NoConfig
  BY <1>2, <1>3
<1>5. up /\ r \in OfKind(k)
  BY DEF GetRoute
<1> QED
  BY <1>1, <1>4, <1>5

\* It stays at that route from call to call, until it is done with it.
LEMMA CallEffect ==
  ASSUME Typed, Busy, NEW k \in Kinds,
         \/ \E r \in Routes : \/ RemoveFinalizer(k, r) \/ AddFinalizer(k, r)
                              \/ FetchGateway(k, r)
         \/ LookForFilter(k) \/ AddFilter(k) \/ SetTunnel(k) \/ CallFails(k)
  PROVE  \/ ~up' /\ worker' = [j \in Kinds |-> Idle]
         \/ /\ UNCHANGED up /\ up
            /\ \A j \in Kinds \ {k} : worker'[j] = worker[j]
            /\ \/ worker'[k] = Idle
               \/ /\ worker'[k].at = worker[k].at
                  /\ \/ worker[k].pc = "hold" /\ worker'[k].pc = "fetch"
                     \/ /\ worker[k].pc \in {"fetch", "look", "load"}
                        /\ worker'[k].pc \in {"look", "load", "tunnel"}
                  /\ worker'[k].pc = "fetch" => worker'[k].spec = worker[k].spec
                  /\ worker'[k].pc \in {"look", "load"} => worker'[k].jobs # <<>>
<1> DEFINE w == worker[k]
           Moved(x) == /\ x.at = w.at
                       /\ \/ w.pc = "hold" /\ x.pc = "fetch"
                          \/ /\ w.pc \in {"fetch", "look", "load"}
                             /\ x.pc \in {"look", "load", "tunnel"}
                       /\ x.pc = "fetch" => x.spec = w.spec
                       /\ x.pc \in {"look", "load"} => x.jobs # <<>>
           Goes(x) == worker' = [worker EXCEPT ![k] = x] /\ UNCHANGED up
<1>1. DOMAIN worker = Kinds /\ DOMAIN w = DOMAIN Idle
  BY DEF Typed, Workers, Idle
<1>2. /\ w.pc # "idle" => up
      /\ w.pc \in {"look", "load"} => w.jobs # <<>>
  BY DEF Busy
<1>3. ASSUME NEW r \in Routes, RemoveFinalizer(k, r)
      PROVE  Goes(Idle) /\ w.pc = "release"
  BY <1>3 DEF RemoveFinalizer, Done, TryAgain
<1>4. ASSUME NEW r \in Routes, AddFinalizer(k, r)
      PROVE  \E x : Goes(x) /\ w.pc = "hold" /\ (x = Idle \/ Moved(x))
  <2>1. w.pc = "hold" /\ (Goes(Idle) \/ Goes([w EXCEPT !.pc = "fetch"]))
    BY <1>4 DEF AddFinalizer, Goto, TryAgain
  <2>2. Moved([w EXCEPT !.pc = "fetch"])
    BY <1>1, <2>1 DEF Idle
  <2> QED
    BY <2>1, <2>2
<1>5. ASSUME NEW r \in Routes, FetchGateway(k, r)
      PROVE  \/ ~up' /\ worker' = [j \in Kinds |-> Idle]
             \/ \E x : Goes(x) /\ w.pc = "fetch" /\ (x = Idle \/ Moved(x))
  <2> DEFINE y == [w EXCEPT !.pc = "look", !.version = epic, !.jobs = SetupTunnel(w.spec)]
  <2>1. /\ w.pc = "fetch"
        /\ Panic \/ Goes(Idle) \/ Goes(y)
    BY <1>5 DEF FetchGateway, TryAgain, kernel
  <2>2. SetupTunnel(w.spec) # <<>>
    <3>1. w.spec \in Configs
      BY <2>1 DEF Busy, Typed, Workers
    <3> QED
      BY <3>1, SetupTunnelTyped
  <2>3. y.at = w.at /\ y.pc = "look" /\ y.jobs = SetupTunnel(w.spec)
    BY <1>1 DEF Idle
  <2> HIDE DEF y
  <2>4. Moved(y)
    BY <2>1, <2>2, <2>3
  <2>5. Panic => ~up' /\ worker' = [j \in Kinds |-> Idle]
    BY DEF Panic
  <2> QED
    BY <2>1, <2>4, <2>5
<1>6. ASSUME LookForFilter(k)
      PROVE  \E x : Goes(x) /\ w.pc = "look" /\ Moved(x)
  <2> DEFINE found == nic[Head(w.jobs)[1]].filter[Head(w.jobs)[2]] # NoFilter
             y == [w EXCEPT !.pc = "load", !.found = found]
  <2>1. w.pc = "look" /\ Goes(y)
    BY <1>6 DEF LookForFilter
  <2>2. y.at = w.at /\ y.pc = "load" /\ y.jobs = w.jobs
    BY <1>1 DEF Idle
  <2> HIDE DEF y
  <2>3. Moved(y)
    BY <1>2, <2>1, <2>2
  <2> QED
    BY <2>1, <2>3
<1>7. ASSUME AddFilter(k)
      PROVE  \E x : Goes(x) /\ w.pc = "load" /\ Moved(x)
  <2> DEFINE rest == Tail(w.jobs)
             pc == IF rest = <<>> THEN "tunnel" ELSE "look"
             y == [w EXCEPT !.jobs = rest, !.found = FALSE, !.pc = pc]
  <2>1. w.pc = "load" /\ Goes(y)
    BY <1>7 DEF AddFilter
  <2>2. pc \in {"look", "tunnel"} /\ (pc = "look" => rest # <<>>)
    OBVIOUS
  <2> HIDE DEF pc, rest
  <2>3. y.at = w.at /\ y.pc = pc /\ y.jobs = rest
    BY <1>1 DEF Idle
  <2> HIDE DEF y
  <2>4. Moved(y)
    BY <2>1, <2>2, <2>3
  <2> QED
    BY <2>1, <2>4
<1>8. ASSUME SetTunnel(k) \/ CallFails(k)
      PROVE  Goes(Idle) /\ w.pc # "idle"
  BY <1>8 DEF SetTunnel, CallFails, TryAgain
<1>9. \/ ~up' /\ worker' = [j \in Kinds |-> Idle]
      \/ \E x : Goes(x) /\ w.pc # "idle" /\ (x = Idle \/ Moved(x))
  <2> HIDE DEF Goes, Moved, w
  <2> QED
    BY <1>3, <1>4, <1>5, <1>6, <1>7, <1>8
<1>10. ASSUME NEW x, Goes(x)
       PROVE  worker'[k] = x /\ \A j \in Kinds \ {k} : worker'[j] = worker[j]
  BY <1>1, <1>10
<1> HIDE DEF Goes
<1>11. \A x : Goes(x) => UNCHANGED up
  BY DEF Goes
<1> QED
  BY <1>2, <1>9, <1>10, <1>11

LEMMA IdleFields == Idle.pc = "idle" /\ Idle.at = {}
BY DEF Idle

LEMMA BusyStep ==
  ASSUME Typed, Busy, [Next]_vars
  PROVE  Busy'
<1>1. CASE UNCHANGED <<worker, up>>
  BY <1>1 DEF Busy
<1>2. CASE ~up' /\ worker' = [j \in Kinds |-> Idle]
  BY <1>2, IdleFields DEF Busy
<1>3. ASSUME NEW k \in Kinds, NEW r \in Routes, GetRoute(k, r)
      PROVE  Busy'
  <2>1. UNCHANGED up
    BY <1>3 DEF GetRoute
  <2> QED
    BY <1>3, <2>1, GetRouteEffect DEF Busy
<1>4. ASSUME NEW k \in Kinds,
             \/ \E r \in Routes : \/ RemoveFinalizer(k, r) \/ AddFinalizer(k, r)
                                  \/ FetchGateway(k, r)
             \/ LookForFilter(k) \/ AddFilter(k) \/ SetTunnel(k) \/ CallFails(k)
      PROVE  Busy'
  BY <1>2, <1>4, CallEffect, IdleFields DEF Busy
<1>5. CASE ReconcileConfig
  BY <1>1, <1>5 DEF ReconcileConfig
<1>6. CASE Start
  BY <1>6 DEF Start, Busy
<1>7. CASE Kill
  BY <1>2, <1>7 DEF Kill, Panic
<1>8. CASE Exit
  BY <1>8 DEF Exit, Busy
<1>9. CASE \/ \E n \in Names : Sync(n)
           \/ \E r \in Routes : ChangeRoute(r) \/ ChangeBackend(r)
           \/ ChangeConfig \/ ChangeGateway \/ ChangeTunnels
  BY <1>1, <1>9
  DEF Sync, Change, ChangeRoute, ChangeBackend, ChangeConfig, ChangeGateway, ChangeTunnels
<1>10. ASSUME NEW k \in Kinds
       PROVE  OfKind(k) \subseteq Routes
  BY DEF OfKind, Routes
<1>11. CASE UNCHANGED vars
  BY <1>1, <1>11 DEF vars
<1> QED
  BY <1>3, <1>4, <1>5, <1>6, <1>7, <1>8, <1>9, <1>10, <1>11, NextSteps DEF Work

-----------------------------------------------------------------------------
(* The finalizer.                                                          *)

Trust == Bound /\ Informed /\ Knows

\* The workers are at different routes.
LEMMA Apart ==
  ASSUME Busy, NEW j \in Kinds, NEW k \in Kinds, j # k
  PROVE  worker[j].at \cap worker[k].at = {}
BY RoutesAssumption DEF Busy, Kinds, OfKind

\* What a worker knows stays true when it goes on, as long as the objects and the
\* copies stay the same.
LEMMA TrustGoesOn ==
  ASSUME Trust, UNCHANGED <<route, held, lags, seen>>, up' => up,
         \A k \in Kinds :
            \/ worker'[k] = worker[k]
            \/ worker'[k] = Idle
            \/ /\ worker'[k].at = worker[k].at
               /\ \/ /\ worker[k].pc = "hold" /\ worker'[k].pc = "fetch"
                     /\ worker[k].at \subseteq held
                  \/ /\ worker[k].pc \in {"fetch", "look", "load"}
                     /\ worker'[k].pc \in {"look", "load", "tunnel"}
  PROVE  Trust'
BY IdleFields DEF Trust, Bound, Informed, Knows

\* The first call relies on the copy that sent the worker there.
LEMMA TrustGetRoute ==
  ASSUME Typed, Trust, NEW k \in Kinds, NEW r \in Routes, GetRoute(k, r)
  PROVE  Trust'
<1>1. UNCHANGED <<route, held, lags, seen, up>>
  BY DEF GetRoute, objects
<1> QED
  BY <1>1, GetRouteEffect DEF Trust, Bound, Informed, Knows

\* Only a doomed route loses the finalizer, and it goes with it.
LEMMA TrustRemove ==
  ASSUME Typed, Busy, Trust, NEW k \in Kinds, NEW r \in Routes, RemoveFinalizer(k, r)
  PROVE  Trust'
<1>1. /\ worker[k].pc = "release" /\ r \in worker[k].at /\ up
      /\ worker' = [worker EXCEPT ![k] = Idle]
      /\ UNCHANGED <<seen, up>>
  BY DEF RemoveFinalizer, Done, TryAgain, Busy, known
<1>2. /\ worker'[k] = Idle
      /\ \A j \in Kinds \ {k} : worker'[j] = worker[j] /\ r \notin worker[j].at
  BY <1>1, Apart DEF Typed
<1>3. CASE UNCHANGED <<route, held, lags>>
  BY <1>1, <1>2, <1>3, TrustGoesOn
<1>4. CASE /\ r \in seen.held /\ r \notin lags
           /\ held' = held \ {r}
           /\ route' = [route EXCEPT ![r] = IF @ = "doomed" THEN "gone" ELSE @]
           /\ lags' = lags \cup {r}
  <2>1. route[r] = "doomed" /\ seen.route[r] = "doomed"
    BY <1>1, <1>4 DEF Trust, Informed, Knows
  <2>2. \A s \in Routes : route'[s] = IF s = r THEN "gone" ELSE route[s]
    BY <1>4, <2>1 DEF Typed
  <2> QED
    BY <1>1, <1>2, <1>4, <2>1, <2>2, IdleFields DEF Trust, Bound, Informed, Knows
<1> QED
  BY <1>3, <1>4 DEF RemoveFinalizer

\* A finalizer that the copy has is there, and one that it does not have is added
\* only to what the copy shows as it is.
LEMMA TrustAdd ==
  ASSUME Typed, Busy, Trust, NEW k \in Kinds, NEW r \in Routes, AddFinalizer(k, r)
  PROVE  Trust'
<1>1. /\ worker[k].pc = "hold" /\ worker[k].at = {r} /\ up
      /\ UNCHANGED <<route, seen, up>>
  BY DEF AddFinalizer, Busy, known
<1>2. r \in seen.held => r \in held
  BY <1>1 DEF Trust, Knows
<1>3. DOMAIN worker = Kinds /\ DOMAIN worker[k] = DOMAIN Idle
  BY DEF Typed, Workers, Idle
<1>4. CASE worker' = [worker EXCEPT ![k] = Idle] /\ UNCHANGED <<held, lags>>
  BY <1>1, <1>3, <1>4, TrustGoesOn
<1>5. CASE worker' = [worker EXCEPT ![k].pc = "fetch"]
  <2>1. /\ worker'[k].pc = "fetch" /\ worker'[k].at = {r}
        /\ \A j \in Kinds \ {k} : worker'[j] = worker[j] /\ r \notin worker[j].at
    BY <1>1, <1>3, <1>5, Apart DEF Idle
  <2>2. CASE r \in seen.held /\ UNCHANGED <<held, lags>>
    BY <1>1, <1>2, <2>1, <2>2, TrustGoesOn
  <2>3. CASE /\ route[r] = "live" /\ r \notin lags
             /\ held' = held \cup {r}
             /\ lags' = lags \cup {r}
    <3>1. seen.route[r] = "live"
      BY <1>1, <2>3 DEF Trust, Informed
    <3> QED
      BY <1>1, <2>1, <2>3, <3>1 DEF Trust, Bound, Informed, Knows
  <2>4. held' = held \cup {r} \/ UNCHANGED held
    BY DEF AddFinalizer
  <2>5. Idle.pc # "fetch"
    BY DEF Idle
  <2> QED
    BY <1>3, <1>5, <2>1, <2>2, <2>3, <2>5 DEF AddFinalizer, Goto, TryAgain
<1> QED
  BY <1>4, <1>5 DEF AddFinalizer, Goto, TryAgain

LEMMA TrustCalls ==
  ASSUME Typed, Busy, Trust, NEW k \in Kinds,
         \/ \E r \in Routes : FetchGateway(k, r)
         \/ LookForFilter(k) \/ AddFilter(k) \/ SetTunnel(k) \/ CallFails(k)
  PROVE  Trust'
<1>1. UNCHANGED <<route, held, lags, seen>>
  BY DEF FetchGateway, LookForFilter, AddFilter, SetTunnel, CallFails, objects, known
<1>2. worker[k].pc # "hold" \/ worker' = [worker EXCEPT ![k] = Idle]
  BY DEF FetchGateway, LookForFilter, AddFilter, SetTunnel, CallFails, TryAgain
<1>3. worker' = [worker EXCEPT ![k] = Idle] =>
         /\ worker'[k] = Idle
         /\ \A j \in Kinds \ {k} : worker'[j] = worker[j]
  BY DEF Typed
<1>4. (up' => up) /\ \A j \in Kinds :
                        \/ worker'[j] = worker[j]
                        \/ worker'[j] = Idle
                        \/ /\ worker'[j].at = worker[j].at
                           /\ worker[j].pc \in {"fetch", "look", "load"}
                           /\ worker'[j].pc \in {"look", "load", "tunnel"}
  BY <1>2, <1>3, CallEffect, IdleFields
<1> QED
  BY <1>1, <1>4, TrustGoesOn

\* The restart, the informer and the users.
LEMMA TrustWorld ==
  ASSUME Typed, Busy, Trust,
         \/ ReconcileConfig \/ Start \/ Kill \/ Exit
         \/ \E n \in Names : Sync(n)
         \/ \E r \in Routes : ChangeRoute(r) \/ ChangeBackend(r)
         \/ ChangeConfig \/ ChangeGateway \/ ChangeTunnels
  PROVE  Trust'
<1> USE DEF objects, known, outside, kernel
<1>0. \A k \in Kinds : worker[k].at \subseteq Routes
  BY DEF Typed, Workers
<1>1. CASE UNCHANGED <<route, held, lags, seen, up, worker>>
  BY <1>1, TrustGoesOn
<1>2. CASE ReconcileConfig
  BY <1>1, <1>2 DEF ReconcileConfig
<1>3. CASE Start
  <2>1. ~up /\ \A k \in Kinds : worker[k].pc = "idle" /\ worker'[k] = worker[k]
    BY <1>3 DEF Start, Busy
  <2> QED
    BY <1>3, <2>1 DEF Start, Everything, Trust, Bound, Informed, Knows
<1>4. CASE Kill
  BY <1>4, TrustGoesOn DEF Kill, Panic
<1>5. CASE Exit
  <2>1. /\ ~up' /\ \A k \in Kinds : worker[k].pc = "idle" /\ worker'[k] = worker[k]
        /\ Bound /\ Informed /\ up
    BY <1>5 DEF Exit, Trust
  <2>2. /\ held' = held \ Cleanup
        /\ \A r \in Routes : route'[r] = IF r \in Cleanup /\ route[r] = "doomed" THEN "gone"
                                         ELSE route[r]
    BY <1>5 DEF Exit
  <2>3. \A r \in Routes : r \in Cleanup => r \in held
    BY <2>1 DEF Cleanup, Informed
  <2>4. \A r \in Routes : r \in Cleanup => route[r] # "gone"
    BY <2>1, <2>3 DEF Bound
  <2>5. Bound'
    BY <2>1, <2>2 DEF Bound
  <2> QED
    BY <2>1, <2>5 DEF Trust, Informed, Knows
<1>6. ASSUME NEW n \in Names, Sync(n)
      PROVE  Trust'
  <2>1. /\ up /\ UNCHANGED <<route, held, up, worker>> /\ lags' = lags \ {n}
        /\ \A r \in Routes : IF r = n THEN /\ seen'.route[r] = route[r]
                                           /\ r \in seen'.held <=> r \in held
                             ELSE /\ seen'.route[r] = seen.route[r]
                                  /\ r \in seen'.held <=> r \in seen.held
    <3>1. /\ up /\ UNCHANGED <<route, held, up, worker>> /\ lags' = lags \ {n}
      BY <1>6 DEF Sync
    <3>2. seen \in [route: [Routes -> {"gone", "live", "doomed"}], held: SUBSET Routes,
                    config: Configs \cup {NoConfig}]
      BY DEF Typed
    <3>3. CASE n = Config
      <4>1. n \notin Routes
        BY <3>3, RoutesAssumption DEF Routes, Config
      <4>2. seen' = [seen EXCEPT !.config = config]
        BY <1>6, <3>3 DEF Sync
      <4>3. seen'.route = seen.route /\ seen'.held = seen.held
        BY <3>2, <4>2
      <4>4. \A r \in Routes : r # n
        BY <4>1
      <4> QED
        BY <3>1, <4>3, <4>4
    <3>4. CASE n # Config
      <4>1. seen' = [seen EXCEPT !.route[n] = route[n],
                                 !.held = IF n \in held THEN @ \cup {n} ELSE @ \ {n}]
        BY <1>6, <3>4 DEF Sync
      <4>2. /\ seen'.route = [seen.route EXCEPT ![n] = route[n]]
            /\ seen'.held = IF n \in held THEN seen.held \cup {n} ELSE seen.held \ {n}
        BY <3>2, <4>1
      <4>3. \A r \in Routes : seen'.route[r] = IF r = n THEN route[r] ELSE seen.route[r]
        BY <3>2, <4>2
      <4>4. \A r \in Routes : r \in seen'.held <=> IF r = n THEN r \in held ELSE r \in seen.held
        BY <4>2
      <4>5. \A r \in Routes : IF r = n THEN /\ seen'.route[r] = route[r]
                                            /\ r \in seen'.held <=> r \in held
                              ELSE /\ seen'.route[r] = seen.route[r]
                                   /\ r \in seen'.held <=> r \in seen.held
        BY <4>3, <4>4, Zenon
      <4> QED
        BY <3>1, <4>5
    <3> QED
      BY <3>3, <3>4
  <2>2. Bound' /\ Informed'
    BY <2>1 DEF Trust, Bound, Informed
  <2>3. Knows'
    BY <1>0, <2>1 DEF Trust, Knows
  <2> QED
    BY <2>2, <2>3 DEF Trust
<1>7. ASSUME NEW r \in Routes, ChangeRoute(r)
      PROVE  Trust'
  <2>1. UNCHANGED <<held, seen, up, worker>> /\ lags' = lags \cup {r}
    BY <1>7 DEF ChangeRoute, Change
  <2>2. \A s \in Routes \ {r} : route'[s] = route[s]
    BY <1>7 DEF ChangeRoute, Typed
  <2>3. \/ route[r] = "gone" /\ route'[r] = "live"
        \/ route[r] = "live" /\ route'[r] = IF r \in held THEN "doomed" ELSE "gone"
    BY <1>7 DEF ChangeRoute, Typed
  <2>4. Bound' /\ Informed'
    BY <2>1, <2>2, <2>3 DEF Trust, Bound, Informed
  <2>5. Knows'
    BY <1>0, <2>1, <2>2, <2>3 DEF Trust, Bound, Knows
  <2> QED
    BY <2>4, <2>5 DEF Trust
<1>8. CASE (\E r \in Routes : ChangeBackend(r)) \/ ChangeTunnels
  BY <1>1, <1>8 DEF ChangeBackend, ChangeTunnels, Change
<1>9. CASE ChangeConfig \/ ChangeGateway
  <2>1. UNCHANGED <<route, held, seen, up, worker>> /\ lags \subseteq lags'
    BY <1>9 DEF ChangeConfig, ChangeGateway, Change
  <2> QED
    BY <2>1 DEF Trust, Bound, Informed, Knows
<1> QED
  BY <1>2, <1>3, <1>4, <1>5, <1>6, <1>7, <1>8, <1>9

-----------------------------------------------------------------------------
(* The invariant, and what follows from it.                                *)

LEMMA InvInit == Init => IInv
<1> SUFFICES ASSUME Init PROVE IInv
  OBVIOUS
<1>1. Typed
  BY TypedInit
<1>2. Loaded
  BY DEF Init, Loaded, Pending, About, Left, NoFilter, Idle, Kinds
<1>3. Busy /\ Knows /\ OnlyFailuresLeft
  BY IdleFields DEF Init, Busy, Knows, OnlyFailuresLeft
<1>4. Bound
  BY DEF Init, Bound
<1>5. Informed
  BY DEF Init, Informed
<1> QED
  BY <1>1, <1>2, <1>3, <1>4, <1>5 DEF IInv

LEMMA InvStep == IInv /\ [Next]_vars => IInv'
<1> SUFFICES ASSUME IInv, [Next]_vars PROVE IInv'
  OBVIOUS
<1>1. Typed /\ Loaded /\ Busy /\ OnlyFailuresLeft /\ Trust
  BY DEF IInv, Trust
<1>2. Typed' /\ Loaded' /\ Busy' /\ OnlyFailuresLeft'
  BY <1>1, TypedStep, LoadedStep, BusyStep, LeftStep
<1>3. Trust'
  <2>1. ASSUME NEW k \in Kinds
        PROVE  OfKind(k) \subseteq Routes
    BY DEF OfKind, Routes
  <2>2. CASE UNCHANGED vars
    BY <1>1, <2>2, TrustGoesOn DEF vars, objects, known
  <2> QED
    BY <1>1, <2>1, <2>2, NextSteps, TrustGetRoute, TrustRemove, TrustAdd, TrustCalls,
       TrustWorld
    DEF Work
<1> QED
  BY <1>2, <1>3 DEF IInv, Trust

LEMMA Invariance == Spec => []IInv
BY InvInit, InvStep, PTL DEF Spec

\* Every variable stays in its type (TypeOK): no filter is there without its
\* qdisc, and however the workers of the two kinds of routes, the one that removes
\* filters and restarts interleave, none is loaded more than twice.
THEOREM TypeCorrect == Spec => []TypeOK
<1>1. IInv => TypeOK
  <2> SUFFICES ASSUME Typed, Loaded PROVE TypeOK
    BY DEF IInv
  <2>1. ASSUME NEW n \in Nics, NEW f \in Functions
        PROVE  nic[n].filter[f] \in Filters /\ (nic[n].filter[f] # NoFilter => nic[n].qdisc)
    <3>1. nic[n].filter[f] \in [live: Nat, stale: 0..1]
      BY DEF Typed
    <3>2. Pending("http", n, f) \in 0..1 /\ Pending("tcp", n, f) \in 0..1
      BY DEF Pending
    <3>3. nic[n].filter[f].live + Pending("http", n, f) + Pending("tcp", n, f) <= 2
      BY DEF Loaded
    <3>4. nic[n].filter[f].live \in 0..2
      BY <3>1, <3>2, <3>3
    <3>5. nic[n].filter[f].stale \in 0..2
      BY <3>1
    <3>6. nic[n].filter[f] \in Filters
      BY <3>1, <3>4, <3>5 DEF Filters
    <3> QED
      BY <3>6 DEF Loaded
  <2> QED
    BY <2>1 DEF Typed, TypeOK
<1> QED
  BY <1>1, Invariance, PTL

\* The agent's finalizer is on a route for as long as the agent works on it,
\* however old the copies are that it looks at.
THEOREM WorkerHoldsHolds == Spec => []WorkerHolds
<1>1. IInv => WorkerHolds
  BY DEF IInv, Knows, WorkerHolds
<1> QED
  BY <1>1, Invariance, PTL

\* Where the agent cleans for the config that it has worked on, a filter of an
\* earlier process is left only if a removal has failed there: no interleaving of
\* the three workers, of config events that are late and of restarts skips one.
THEOREM OnlyFailuresLeftHolds == Spec => []OnlyFailuresLeft
BY Invariance, PTL DEF IInv
=============================================================================
