------------------------------ MODULE TunnelAgent ------------------------------
(***************************************************************************)
(* The agent of one node: it hooks filters into the kernel's interfaces    *)
(* and sets up the tunnels to EPIC for the routes that have an endpoint on *)
(* the node, and holds a finalizer of its own on every route.              *)
(*                                                                         *)
(* Three workers share the node's interfaces: those for HTTPRoutes and for *)
(* TCPRoutes set things up, that for the GatewayClassConfig removes all    *)
(* filters on every event.  Filters outlive the agent's process; the maps  *)
(* that they work with, and the tunnels in them, do not, and are made when *)
(* a filter is loaded.  A filter that is left from an earlier process is   *)
(* "stale".  Nobody watches the endpoints or EPIC: a route that is done is *)
(* looked at again after 30 seconds, one that is incomplete after 10.      *)
(*                                                                         *)
(* As elsewhere, what "lags" has an event that the informer has not seen.  *)
(***************************************************************************)
EXTENDS Naturals, FiniteSets, Sequences, SequencesExt

CONSTANTS
    HTTPRoutes, TCPRoutes,  \* the names of routes
    Nics,                   \* the interfaces of the node
    DefaultNic,             \* the one with the default route
    Enis,                   \* those whose names look like those of ENIs
    OnEKS,                  \* whether the node is in an EKS cluster
    Encaps, Decaps,         \* the interfaces that a config may name
    Backends,               \* what may be behind a route
    MaxEvents               \* bound: changes around the agent, failed calls, restarts

ASSUME RoutesAssumption ==
    /\ HTTPRoutes \cap TCPRoutes = {}
    /\ "config" \notin HTTPRoutes \cup TCPRoutes
ASSUME NicsAssumption ==
    /\ IsFiniteSet(Nics)
    /\ DefaultNic \in Nics
    /\ Enis \subseteq Nics \ {DefaultNic}
    /\ Encaps \cup Decaps \subseteq Nics \cup {"default"}
    /\ OnEKS \in BOOLEAN
ASSUME BackendsAssumption ==
    /\ "here" \in Backends
    /\ Backends \subseteq {"missing", "away", "here", "split", "nodeless"}
ASSUME BoundsAssumption == MaxEvents \in Nat

VARIABLES
    route,    \* the routes at the API server: "gone", "live" or "doomed"
    held,     \* the routes with this agent's finalizer
    config,   \* the GatewayClassConfig at the API server
    seen,     \* the cached copies of these
    aside,    \* the routes that were put aside because their Gateway was foreign
    lags,     \* the names of what lags
    gateway,  \* the parent of all routes
    backend,  \* what is behind each route
    epic,     \* the version of the tunnels that EPIC has for the node, 0 for none
    up,       \* the agent's process is there
    queue,    \* the names in the work queues
    nic,      \* the interfaces: the qdisc, and the filters by function
    left,     \* the stale filters that could not be removed when they should
    maps,     \* the maps are there
    tunnel,   \* the version of the tunnels in the maps
    worker,   \* the workers for routes
    events    \* changes and failures so far

objects == <<route, held, config, lags>>
outside == <<gateway, backend, epic>>
kernel == <<nic, left, maps, tunnel>>
known == <<seen, aside>>
vars == <<objects, known, outside, up, queue, kernel, worker, events>>

Routes == HTTPRoutes \cup TCPRoutes
Config == "config"
Names == Routes \cup {Config}
Kinds == {"http", "tcp"}
OfKind(k) == IF k = "http" THEN HTTPRoutes ELSE TCPRoutes
Functions == {"encap", "decap"}
Gateways == {"missing", "foreign", "unannounced", "announced"}
Versions == 0..(MaxEvents + 1)
Configs == [encap: Encaps, decap: Decaps]
NoConfig == [encap |-> "none", decap |-> "none"]

\* Filters of one function at one interface: how many were loaded by this
\* process and how many by earlier ones.
Filters == [live: 0..2, stale: 0..2]
NoFilter == [live |-> 0, stale |-> 0]
Left == [qdisc |-> TRUE, filter |-> [f \in Functions |-> [live |-> 0, stale |-> 1]]]
Bare == [qdisc |-> FALSE, filter |-> [f \in Functions |-> NoFilter]]

\* A worker: the call that it makes next, the route that it is at, the config
\* and the tunnels in its hands, the filters that it has yet to see to, and
\* whether it found the first of them in place.
Pcs == {"idle", "release", "hold", "fetch", "look", "load", "tunnel"}
Jobs == Nics \X Functions
Workers == [pc: Pcs, at: SUBSET Routes, spec: Configs \cup {NoConfig}, version: Versions,
            jobs: Seq(Jobs), found: BOOLEAN]
Idle == [pc |-> "idle", at |-> {}, spec |-> NoConfig, version |-> 0, jobs |-> <<>>,
         found |-> FALSE]

Event == events < MaxEvents /\ events' = events + 1
NoEvent == UNCHANGED events

Everything == [route |-> route, held |-> held, config |-> config]

\* The node has been up for a while; earlier processes have left their filters.
Init ==
    /\ route = [r \in Routes |-> IF r \in HTTPRoutes THEN "live" ELSE "gone"]
    /\ held = {}
    /\ config \in Configs
    /\ seen = Everything
    /\ aside = {}
    /\ lags = {}
    /\ gateway = "announced"
    /\ backend = [r \in Routes |-> "here"]
    /\ epic = 1
    /\ up = FALSE
    /\ queue = {}
    /\ nic = [n \in Nics |-> Left]
    /\ left = {}
    /\ maps = FALSE
    /\ tunnel = 0
    /\ worker = [k \in Kinds |-> Idle]
    /\ events = 0

-----------------------------------------------------------------------------
(* The reconcilers of routes, one action per call.  Both work alike.       *)

Goto(k, label) == worker' = [worker EXCEPT ![k].pc = label] /\ UNCHANGED queue

\* Done, and the ways to come back: TryAgain, TryAgainLater and errors.
Done(k) == worker' = [worker EXCEPT ![k] = Idle] /\ UNCHANGED queue
TryAgain(k) == worker' = [worker EXCEPT ![k] = Idle] /\ queue' = queue \cup worker[k].at

\* The interface that a config names.
InterfaceOrDefault(name) == IF name = "default" THEN DefaultNic ELSE name

\* Everything up to the finalizer is read from the cache: the route, its first
\* parent, the config of that one's class.  Nobody looks again after a route whose
\* Gateway is of another controller.
GetRoute(k, r) ==
    /\ up
    /\ worker[k].pc = "idle"
    /\ r \in queue \cap OfKind(k)
    /\ LET live == seen.route[r] = "live"
           ours == gateway \in {"unannounced", "announced"} /\ seen.config # NoConfig
       IN  /\ \/ /\ seen.route[r] = "gone" \/ (live /\ gateway = "foreign")
                 /\ queue' = queue \ {r}
                 /\ UNCHANGED worker
              \/ /\ seen.route[r] = "doomed"
                 /\ queue' = queue \ {r}
                 /\ worker' = [worker EXCEPT ![k] = [Idle EXCEPT !.pc = "release", !.at = {r}]]
              \/ /\ live /\ ours
                 /\ queue' = queue \ {r}
                 /\ worker' = [worker EXCEPT ![k] = [Idle EXCEPT !.pc = "hold", !.at = {r},
                                                                !.spec = seen.config]]
              \/ /\ live /\ ~ours /\ gateway # "foreign"
                 /\ UNCHANGED <<queue, worker>>
           /\ aside' = IF live /\ gateway = "foreign" THEN aside \cup {r} ELSE aside
    /\ UNCHANGED <<objects, seen, outside, up, kernel, events>>

\* Only a current copy can be updated; the conflict goes back to the queue.
RemoveFinalizer(k, r) ==
    /\ worker[k].pc = "release" /\ r \in worker[k].at
    /\ \/ /\ r \notin seen.held
          /\ Done(k)
          /\ UNCHANGED <<route, held, lags>>
       \/ /\ r \in seen.held /\ r \notin lags
          /\ held' = held \ {r}
          /\ route' = [route EXCEPT ![r] = IF @ = "doomed" THEN "gone" ELSE @]
          /\ lags' = lags \cup {r}
          /\ Done(k)
       \/ /\ r \in seen.held /\ r \in lags
          /\ TryAgain(k)
          /\ UNCHANGED <<route, held, lags>>
    /\ UNCHANGED <<config, known, outside, up, kernel, events>>

\* A slip: a conflict is not waited for.
AddFinalizerOnce(k, r) ==
    /\ worker[k].pc = "hold" /\ r \in worker[k].at
    /\ held' = IF r \notin lags THEN held \cup {r} ELSE held
    /\ lags' = lags \cup {x \in {r} : held' # held}
    /\ Goto(k, "fetch")
    /\ UNCHANGED <<route, config, known, outside, up, kernel, events>>

AddFinalizer(k, r) ==
    /\ worker[k].pc = "hold" /\ r \in worker[k].at
    /\ \/ /\ r \in seen.held
          /\ Goto(k, "fetch")
          /\ UNCHANGED <<held, lags>>
       \/ /\ r \notin seen.held /\ r \notin lags /\ route[r] = "live"
          /\ held' = held \cup {r}
          /\ lags' = lags \cup {r}
          /\ Goto(k, "fetch")
       \/ /\ r \notin seen.held /\ (r \in lags \/ route[r] # "live")
          /\ TryAgain(k)
          /\ UNCHANGED <<held, lags>>
    /\ UNCHANGED <<route, config, known, outside, up, kernel, events>>

\* The filters to see to for a tunnel: those of ENIs only in an EKS cluster.
SetupTunnel(spec) ==
    LET enis == SetToSeq(IF OnEKS THEN Enis ELSE {})
    IN  <<<<InterfaceOrDefault(spec.encap), "encap">>>>
          \o [i \in DOMAIN enis |-> <<enis[i], "encap">>]
          \o <<<<InterfaceOrDefault(spec.decap), "decap">>>>

\* The filters that a process which ends leaves behind.
Orphaned(filters) ==
    [f \in Functions |-> [live |-> 0, stale |-> IF filters[f] = NoFilter THEN 0 ELSE 1]]

\* The process panics and is gone with all that it had in its hands.
Panic ==
    /\ up' = FALSE
    /\ queue' = {}
    /\ worker' = [k \in Kinds |-> Idle]
    /\ maps' = FALSE
    /\ tunnel' = 0
    /\ nic' = [n \in Nics |-> [nic[n] EXCEPT !.filter = Orphaned(@)]]
    /\ left' = {}

\* Without its Service a route is incomplete.  setupTunnels gets the Gateway's
\* tunnels from EPIC, which needs its link, and then looks at the endpoints: at
\* those of the last slice of each Service, as all its pointers are to the loop's
\* variable.  An endpoint in one of several slices, whose order is arbitrary, is
\* therefore found or not.  One that names no node is logged by its node's name,
\* which is a nil pointer.
FetchGateway(k, r) ==
    /\ worker[k].pc = "fetch" /\ r \in worker[k].at
    /\ \/ /\ gateway # "announced" \/ backend[r] = "missing"
          /\ TryAgain(k)
          /\ UNCHANGED <<up, kernel>>
       \/ /\ gateway = "announced" /\ backend[r] = "nodeless"
          /\ Panic
       \/ /\ gateway = "announced" /\ backend[r] \in {"here", "split"} /\ epic # 0
          /\ worker' = [worker EXCEPT ![k].pc = "look", ![k].version = epic,
                                      ![k].jobs = SetupTunnel(worker[k].spec)]
          /\ UNCHANGED <<queue, up, kernel>>
       \/ /\ gateway = "announced"
          /\ backend[r] \in {"away", "split"} \/ (backend[r] = "here" /\ epic = 0)
          /\ TryAgain(k)
          /\ UNCHANGED <<up, kernel>>
    /\ UNCHANGED <<objects, known, outside, events>>

\* SetupNIC adds the qdisc if it is not there, and looks for the filter...
LookForFilter(k) ==
    /\ worker[k].pc = "look"
    /\ LET n == Head(worker[k].jobs)[1]
           f == Head(worker[k].jobs)[2]
       IN  /\ nic' = [nic EXCEPT ![n].qdisc = TRUE]
           /\ worker' = [worker EXCEPT ![k].pc = "load", ![k].found = nic[n].filter[f] # NoFilter]
    /\ UNCHANGED <<objects, known, outside, up, queue, left, maps, tunnel, events>>

\* ... and loads it if it found none.  That makes the maps; it fails without the
\* qdisc, and whatever fails here is only logged.
AddFilter(k) ==
    /\ worker[k].pc = "load"
    /\ LET n == Head(worker[k].jobs)[1]
           f == Head(worker[k].jobs)[2]
           rest == Tail(worker[k].jobs)
           loads == nic[n].qdisc /\ ~worker[k].found
       IN  /\ \/ /\ loads
                 /\ NoEvent
                 /\ nic' = [nic EXCEPT ![n].filter[f].live = @ + 1]
                 /\ maps' = TRUE
              \/ /\ ~loads
                 /\ NoEvent
                 /\ UNCHANGED <<nic, maps>>
              \/ /\ loads
                 /\ Event
                 /\ UNCHANGED <<nic, maps>>
           /\ worker' = [worker EXCEPT ![k].jobs = rest, ![k].found = FALSE,
                                       ![k].pc = IF rest = <<>> THEN "tunnel" ELSE "look"]
    /\ UNCHANGED <<objects, known, outside, up, queue, left, tunnel>>

\* The tunnel goes into the maps, which must be there.  An error is logged, and
\* Reconcile ends with TryAgainLater.
SetTunnel(k) ==
    /\ worker[k].pc = "tunnel"
    /\ \/ /\ NoEvent
          /\ tunnel' = IF maps THEN worker[k].version ELSE tunnel
       \/ /\ Event
          /\ UNCHANGED tunnel
    /\ TryAgain(k)
    /\ UNCHANGED <<objects, known, outside, up, nic, left, maps>>

\* A slip: the error is logged and not returned.
CallFailsLogged(k) ==
    /\ worker[k].pc \in {"release", "hold", "fetch"}
    /\ Event
    /\ Done(k)
    /\ UNCHANGED <<objects, known, outside, up, kernel>>

\* A call to the API server or to EPIC may fail; the error is returned.
CallFails(k) ==
    /\ worker[k].pc \in {"release", "hold", "fetch"}
    /\ Event
    /\ TryAgain(k)
    /\ UNCHANGED <<objects, known, outside, up, kernel>>

ReconcileHTTPRoute ==
    \/ \E r \in HTTPRoutes :
          RemoveFinalizer("http", r) \/ AddFinalizer("http", r) \/ FetchGateway("http", r)
    \/ LookForFilter("http") \/ AddFilter("http") \/ SetTunnel("http")

ReconcileTCPRoute ==
    \/ \E r \in TCPRoutes :
          RemoveFinalizer("tcp", r) \/ AddFinalizer("tcp", r) \/ FetchGateway("tcp", r)
    \/ LookForFilter("tcp") \/ AddFilter("tcp") \/ SetTunnel("tcp")

-----------------------------------------------------------------------------
(* The reconciler of the config, and the life of the process.              *)

\* What is cleaned: the interfaces that are named, the default one, and ENIs.
RemoveFilters(named) ==
    {InterfaceOrDefault(n) : n \in named} \cup {DefaultNic} \cup Enis

\* A slip: the filters are thought to be gone with the qdisc.
CleanedQueueDiscipline(nics, kept) ==
    [n \in Nics |-> IF n \in nics THEN [nic[n] EXCEPT !.qdisc = FALSE] ELSE nic[n]]

\* The filters in both directions go, and the qdisc, which takes along what is
\* left: where a filter stays the qdisc does, too.
Cleaned(nics, kept) ==
    [n \in Nics |->
       IF n \notin nics THEN nic[n]
       ELSE [qdisc |-> nic[n].qdisc /\ \E f \in Functions : <<n, f>> \in kept,
             filter |-> [f \in Functions |->
                           IF <<n, f>> \in kept THEN nic[n].filter[f] ELSE NoFilter]]]

\* Anything may fail: to find out the default interface or the ENIs, and each of
\* the scripts, whose result is "true" whatever happens.  Nobody is told of it.
\* Interfaces share nothing, so that cleaning them one by one differs from this
\* only until the next interface is cleaned.
Clean(nics) ==
    \E kept \in SUBSET (nics \X Functions) :
       /\ \/ kept = {} /\ NoEvent
          \/ kept # {} /\ Event
       /\ nic' = Cleaned(nics, kept)
       /\ left' = {j \in left : j[1] \notin nics}
                    \cup {j \in kept : nic[j[1]].filter[j[2]].stale > 0}

\* A slip: only what is always cleaned is cleaned.
ReconcileConfigDefaultsOnly ==
    /\ up
    /\ Config \in queue
    /\ queue' = queue \ {Config}
    /\ \/ seen.config = NoConfig /\ UNCHANGED <<nic, left, events>>
       \/ seen.config # NoConfig /\ Clean(RemoveFilters({"default"}))
    /\ UNCHANGED <<objects, known, outside, up, maps, tunnel, worker>>

\* What fails here is not repeated.
ReconcileConfig ==
    /\ up
    /\ Config \in queue
    /\ queue' = queue \ {Config}
    /\ \/ /\ seen.config = NoConfig
          /\ UNCHANGED <<nic, left, events>>
       \/ /\ seen.config # NoConfig
          /\ Clean(RemoveFilters({seen.config.encap, seen.config.decap}))
    /\ UNCHANGED <<objects, known, outside, up, maps, tunnel, worker>>

\* A slip: nothing is cleaned when the agent starts.
StartAsItIs ==
    /\ ~up
    /\ up' = TRUE
    /\ seen' = Everything
    /\ aside' = {}
    /\ lags' = {}
    /\ queue' = Names
    /\ UNCHANGED <<route, held, config, outside, kernel, worker, events>>

\* The agent starts: it cleans the default interfaces, without a look at the
\* result; then the informers list everything and every name is queued.
Start ==
    /\ ~up
    /\ up' = TRUE
    /\ Clean(RemoveFilters({"default"}))
    /\ seen' = Everything
    /\ aside' = {}
    /\ lags' = {}
    /\ queue' = Names
    /\ UNCHANGED <<route, held, config, outside, maps, tunnel, worker>>

Kill ==
    /\ up
    /\ Event
    /\ Panic
    /\ UNCHANGED <<objects, known, outside>>

\* Cleanup takes the finalizer off the HTTPRoutes in the cache; a conflict is
\* logged.  That of TCPRoutes exists, but is not called.
Cleanup == (HTTPRoutes \cap seen.held) \ lags

\* A graceful exit: the workers end first.  What is not removed then is left to
\* the next process.
Exit ==
    /\ up
    /\ \A k \in Kinds : worker[k].pc = "idle"
    /\ Event
    /\ up' = FALSE
    /\ queue' = {}
    /\ LET nics == RemoveFilters({"default"})
       IN  \E kept \in SUBSET (nics \X Functions) :
              nic' = [n \in Nics |->
                        [Cleaned(nics, kept)[n] EXCEPT !.filter = Orphaned(@)]]
    /\ left' = {}
    /\ maps' = FALSE
    /\ tunnel' = 0
    /\ held' = held \ Cleanup
    /\ route' = [r \in Routes |-> IF r \in Cleanup /\ route[r] = "doomed" THEN "gone" ELSE route[r]]
    /\ UNCHANGED <<config, known, lags, outside, worker>>

-----------------------------------------------------------------------------
(* The rest of the world.                                                  *)

Sync(n) ==
    /\ up
    /\ n \in lags
    /\ lags' = lags \ {n}
    /\ queue' = queue \cup {n}
    /\ seen' = IF n = Config THEN [seen EXCEPT !.config = config]
               ELSE [seen EXCEPT !.route[n] = route[n],
                                 !.held = IF n \in held THEN @ \cup {n} ELSE @ \ {n}]
    /\ aside' = aside \ {n}
    /\ UNCHANGED <<route, held, config, outside, up, kernel, worker, events>>

Change ==
    /\ Event
    /\ UNCHANGED <<held, known, up, queue, kernel, worker>>

ChangeRoute(r) ==
    /\ Change
    /\ \/ /\ route[r] = "gone"
          /\ route' = [route EXCEPT ![r] = "live"]
       \/ /\ route[r] = "live"
          /\ route' = [route EXCEPT ![r] = IF r \in held THEN "doomed" ELSE "gone"]
    /\ lags' = lags \cup {r}
    /\ UNCHANGED <<config, outside>>

ChangeConfig ==
    /\ Change
    /\ config' \in (Configs \cup {NoConfig}) \ {config}
    /\ lags' = lags \cup {Config}
    /\ UNCHANGED <<route, outside>>

\* When the parent is announced anew the manager nudges its HTTPRoutes, and only
\* logs it if that fails.
ChangeGateway ==
    /\ Change
    /\ gateway' \in Gateways \ {gateway}
    /\ \/ UNCHANGED lags
       \/ /\ gateway' = "announced"
          /\ lags' = lags \cup {r \in HTTPRoutes : route[r] # "gone"}
    /\ UNCHANGED <<route, config, backend, epic>>

\* Endpoints come and go, and EPIC fills in or changes the tunnels.
ChangeBackend(r) ==
    /\ Change
    /\ backend' \in {[backend EXCEPT ![r] = b] : b \in Backends \ {backend[r]}}
    /\ UNCHANGED <<route, config, lags, gateway, epic>>

ChangeTunnels ==
    /\ Change
    /\ epic' = events' + 1
    /\ UNCHANGED <<route, config, lags, gateway, backend>>

Next ==
    \/ \E k \in Kinds, r \in Routes : GetRoute(k, r)
    \/ ReconcileHTTPRoute \/ ReconcileTCPRoute
    \/ \E k \in Kinds : CallFails(k)
    \/ ReconcileConfig
    \/ Start \/ Kill \/ Exit
    \/ \E n \in Names : Sync(n)
    \/ \E r \in Routes : ChangeRoute(r) \/ ChangeBackend(r)
    \/ ChangeConfig \/ ChangeGateway \/ ChangeTunnels

Spec == Init /\ [][Next]_vars

\* Workers go on and their queues are first in, first out; informers catch up;
\* the pod of the agent is restarted (it is part of a DaemonSet).
Fairness ==
    /\ \A r \in HTTPRoutes : SF_vars(GetRoute("http", r))
    /\ \A r \in TCPRoutes : SF_vars(GetRoute("tcp", r))
    /\ WF_vars(ReconcileHTTPRoute)
    /\ WF_vars(ReconcileTCPRoute)
    /\ WF_vars(ReconcileConfig)
    /\ \A n \in Names : WF_vars(Sync(n))
    /\ WF_vars(Start)

FairSpec == Spec /\ Fairness

-----------------------------------------------------------------------------
(* What must hold.                                                         *)

\* Every variable stays in its type, and no filter is there without its qdisc.
TypeOK ==
    /\ seen \in [route: [Routes -> {"gone", "live", "doomed"}], held: SUBSET Routes,
                config: Configs \cup {NoConfig}]
    /\ route \in [Routes -> {"gone", "live", "doomed"}]
    /\ held \subseteq Routes
    /\ config \in Configs \cup {NoConfig}
    /\ lags \subseteq Names /\ aside \subseteq Routes
    /\ gateway \in Gateways
    /\ backend \in [Routes -> Backends]
    /\ epic \in Versions /\ tunnel \in Versions
    /\ up \in BOOLEAN /\ maps \in BOOLEAN
    /\ queue \subseteq Names
    /\ \A n \in Nics, f \in Functions :
          nic[n].filter[f] \in Filters /\ (nic[n].filter[f] # NoFilter => nic[n].qdisc)
    /\ left \subseteq Jobs
    /\ \A k \in Kinds : worker[k] \in Workers

\* As long as the agent works on what a route needs, its finalizer is on that
\* route ("The resource is not being deleted, ... so add our finalizer"), though
\* the copy that it looked at may be an old one.
WorkerHolds ==
    \A k \in Kinds : worker[k].pc \in {"fetch", "look", "load", "tunnel"} =>
       worker[k].at \subseteq held

\* What the removals are for ("Filters survive a pod restart, but maps don't"):
\* where the agent cleans for the config that it has worked on, a filter of an
\* earlier process, which would be taken for ours, is left only if its removal
\* failed.
OnlyFailuresLeft ==
    LET cleaned == IF Config \in queue \/ seen.config = NoConfig THEN {"default"}
                   ELSE {seen.config.encap, seen.config.decap}
    IN  up => \A n \in RemoveFilters(cleaned), f \in Functions :
                 nic[n].filter[f].stale > 0 => <<n, f>> \in left

Nodeless == \E r \in Routes : backend[r] = "nodeless"
Works(n, f) == nic[n].filter[f].live > 0 /\ nic[n].filter[f].stale = 0
Wanted(r) == /\ route[r] = "live" /\ backend[r] = "here" /\ r \notin aside
             /\ gateway = "announced" /\ config # NoConfig /\ epic # 0

\* The filters that tunnels need.
Needed == {<<InterfaceOrDefault(config.encap), "encap">>,
           <<InterfaceOrDefault(config.decap), "decap">>}
          \cup {<<n, "encap">> : n \in IF OnEKS THEN Enis ELSE {}}

\* Once the world stops changing, the node has the tunnels of every Gateway that
\* has a route with an endpoint here, in maps that its filters work with, on the
\* interfaces of the config: whatever was set up, removed, killed or restarted in
\* which order before.  Excepted are nodes on which the agent panics, filters that
\* it failed to remove, which nobody tries again, and routes that it has put aside
\* and was not told of since.
TunnelsUp ==
    <>[](~Nodeless /\ (\E r \in Routes : Wanted(r)) =>
           /\ \A j \in Needed \ left : Works(j[1], j[2])
           /\ Needed \subseteq left \/ tunnel = epic)

\* Once the world stops changing, an agent that is restarted when it ends does not
\* block the deletion of a route ("Remove our finalizer to ensure that we don't
\* block the resource from being deleted").
EventuallyReleased ==
    <>[](~Nodeless => \A r \in Routes : route[r] # "doomed")

\* No filter is loaded twice ("add the pfc_{encap|decap}_tc filter to the nic if
\* it's not already there").  Two workers can both look before either adds.
AddedOnce ==
    \A n \in Nics, f \in Functions : nic[n].filter[f].live <= 1
=============================================================================
