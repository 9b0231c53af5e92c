# A verification development of PureGW

PureGW is a Kubernetes controller for the Gateway API. It mirrors Gateways,
routes and the EndpointSlices behind them into an EPIC server, a proxy that lives
outside of the cluster, and sets up the tunnels between EPIC and the nodes. This
directory holds TLA+ models of its core, the TLC runs that check them, and proofs
that TLAPS checks. `PROJECT.json` says which definition models which lines of
`src/`, what each run checks, and which hazards of the code are covered.

The short of it:

* `RouteLifecycle` models the reconciler of HTTPRoutes call by call, and
  `GatewayLifecycle` that of Gateways; both are shown to implement the abstract
  `EpicMirror`, with proofs for all values of the constants.
* `RouteKinds` runs that reconciler as the one for TCPRoutes, whose verdicts go to
  another object, and through graceful shutdowns of the manager.
* `SliceShadow` models the two reconcilers that mirror EndpointSlices together,
  `ClassChain` the two that judge GatewayClasses and their config, and `GrantChain`
  that of ReferenceGrants with what Gateways make of the grants.
* `TunnelAgent` models the agent of a node: its three workers, the filters and
  tunnels that they share, and its restarts.
* `Attachment`, `References`, `RouteStatus` and `DefaultRoute` are the functions that
  decide: who may attach, who may refer to what, what a route's status keeps, and
  which interface is the default one.
* Every safety property that holds in a run is also proved, for every value of the
  constants: section 5 has the theorems and their arguments. Liveness is model-checked.
* The safety of the design holds: nothing is announced for an object that is gone
  or unprotected, links never move to another object, and without failures no
  resource of a route or a Gateway is left behind at EPIC. Three runs show where the
  code does not do what it says; these and other divergences are listed in section 4.

## 1. Inventory

Two programs run the controllers. The **manager** (`cmd/manager`) runs one worker
for each kind: HTTPRoute, TCPRoute, Gateway, GatewayClass, GatewayClassConfig,
ReferenceGrant and EndpointSlice. The **agent** (`cmd/agent`) runs on every node,
with workers for HTTPRoute, TCPRoute and GatewayClassConfig. Every worker is
handed the name of an object, reads the object from an informer cache, and makes
calls to the API server (`Update` of a version that it read, `Patch` by name) and
to EPIC (REST). There is no state in memory but the caches and the work queues:
the memory of the system is the finalizers, the annotations that hold the link of
the EPIC resource, the shadows of slices, the statuses, and EPIC.

| Component | State | Operations | What is hard | What makes it correct |
|---|---|---|---|---|
| HTTPRoute controller | finalizer, link annotation, status of the route; EPIC's route | validate parents, add finalizer, resolve names to UIDs, announce, update, withdraw, clean up | cache lag between any two calls; object deleted and re-created; lost replies; crash between two effects | EPIC has nothing for a route that is gone; the link belongs to the object; EPIC converges to the spec; the status is true |
| TCPRoute controller | the same | the same | the same, and its status is written elsewhere | the same |
| Gateway controller | finalizer, link, addresses, listener and Gateway conditions; EPIC's gateway | validate TLS, announce once, addresses, status, nudge the children | effects that only the announcing pass can make; its class may be gone; children hold UIDs | announced and addressed; children follow a new UID; deletion is not blocked |
| EndpointSlice controller and shadows | an EndpointSliceShadow for each slice; EPIC's slices | announced by the route's controller, updated and deleted by this one | two writers, two lagging caches, events that nobody repeats | links work; versions do not go back; deleted slices go from EPIC |
| GatewayClass, GatewayClassConfig | acceptance conditions | connect to EPIC, write the condition, nudge children | chain of nudges, stale observedGeneration | acceptance follows the reachability of EPIC |
| ReferenceGrant controller | its own finalizer | nudge all Gateways | a grant that goes is not nudged for | no Gateway uses what it may not |
| Route agents | a finalizer for each node; filters and tunnels of the node | remove and set up filters, set up tunnels, poll | nodes that leave; restart of the pod; partial set-up | deletion is not blocked; tunnels exist for local endpoints |
| GatewayClassConfig agent | filters | remove all filters on each event | races with the tunnels' set-up | filters come back |
| Agent program | - | remove left-over filters at start, filters and finalizers at exit | it may be killed instead | old filters are not taken for working ones |
| Manager program | - | start the workers; at a graceful exit take the finalizers off routes and Gateways | the informer has stopped; objects deleted meanwhile | the finalizer comes back after the restart |
| Finalizer helpers | - | get, change, update, retry on conflict | the copy that is changed is not the one that was tested | only doomed objects are released |
| Nudges | the `nudge` annotation | patch a random annotation | replaces a map that it believes to be empty | nothing else is lost |
| EPIC client | - | POST with 409 and fetch, PUT, DELETE, GET | a 404 for DELETE is an error; 409 hides an older spec | repeating a pass is harmless |
| Attachment rules (`internal/contour/dag`) | - | may this route attach, which hostnames, may this reference cross namespaces | wildcards, missing namespaces, list errors | as the Gateway API defines |
| Status functions (`internal/contour/status`) | - | merge conditions | order, generation, transition time | no condition lost or stale |
| TrueIngress | traffic control of the node | default interface, filters, tunnels | metrics, both families | the least-cost route wins |

How they interact: a Gateway's controller nudges its HTTPRoutes after it was
announced; a GatewayClassConfig nudges its classes and a ReferenceGrant all
Gateways; routes read Gateways, Services and Namespaces; a route announces the
slices of its Services and leaves the shadows that make the EndpointSlice
controller act; the manager and every agent each hold a finalizer on a route.

## 2. Modules

| Module | Models | State and actions |
|---|---|---|
| `EpicMirror` | the promise of a controller that mirrors one object | `live`, `guarded`, `doomed`, `held`; abstract |
| `RouteLifecycle` | `httproute_controller.go`, `finalizer.go`, `acnodal/route.go` | the route, its cached copy, its Gateways and Service, EPIC; the worker's `pc`, its local route `obj` and the spec that it is about to send. One action for each call of `Reconcile` |
| `GatewayLifecycle` | `gateway_controller.go`, `acnodal/epic.go`, `nudge.go` | the Gateway, its cached copy, EPIC, one child; the worker as above |
| `SliceShadow` | `announceSlices` and `endpointslice_controller.go` | slices and shadows with their cached copies, EPIC; two workers |
| `RouteKinds` | `tcproute_controller.go`, `Cleanup` of HTTPRoutes at shutdown | a route of either kind, the manager, and the writer of the status of the HTTPRoute with the TCPRoute's name |
| `ClassChain` | `gatewayclass_controller.go`, `gatewayclassconfig_controller.go`, `getEPICConfig` | classes and a config with cached copies, events that are on their way (`lags`), the two work queues; two workers |
| `GrantChain` | `referencegrant_controller.go`, `validGatewayTLS` and the statuses in `gateway_controller.go` | grants and Gateways with cached copies and queues; two workers |
| `TunnelAgent` | the agents' controllers for both kinds of routes and for the config, `cmd/agent`, filters and tunnels of `trueingress` | routes and their finalizers, the interfaces with their qdiscs and filters, the maps and the tunnels in them; two workers for routes, and the config's, which makes one call |
| `Attachment` | `internal/gateway/gateway.go`, `ComputeHosts`, `NamespaceMatches` | the listeners of a Gateway and the hostnames of a route; one step, `Decide` |
| `References` | `ValidGatewayTLS`, `validCrossNamespaceRef`, `validateBackendRef`, `dag/secret.go`, the conditions of listeners | operators only |
| `RouteStatus` | `markRouteConditions`, `RouteConditionsUpdate` | a route's parents and status entries; the user, this controller and another one write |
| `DefaultRoute` | `DefaultInterface` | a routing table, and the best route so far; one turn of the loop is a step, `Walk` |
| `MCGrantChain`, `MCRules` | - | the small worlds of their runs; `MCRules` also tries the references |
| `RouteLifecycle_proofs`, `GatewayLifecycle_proofs`, `SliceShadow_proofs`, `ClassChain_proofs`, `GrantChain_proofs`, `TunnelAgent_proofs`, `RouteStatus_proofs` | - | the theorems about these modules |
| `Rules_proofs` | - | the theorems about `Attachment`, `References` and `DefaultRoute` |

The other runs need no module of definitions: their constants are bounds and
small sets, which their `.cfg` gives. `RouteLifecycle` and `GatewayLifecycle`
instantiate `EpicMirror` for the refinements. `RouteKinds` extends `RouteLifecycle`
and uses its actions for either kind; `GrantChain` extends `References`; `MCRules`
extends the four modules of rules, which keep variables of their own, and each of its
behaviours is about one of them. The reconcilers interact through objects, so each
module has the objects that its own reconcilers share, with the others' part in them
as actions.

**How the reconcilers are modelled.** Between two calls that leave the process
anything may happen: the user acts, the informer catches up (`Sync`), an agent
acts, the manager dies (`Crash`). So each call is an action, and what the code
computes between two calls is part of the action before or after it. `pc` names
the next call; `Finish(again)` ends a pass, with `again` for `TryAgain` and for
every returned error, as both put the name back into the work queue.

* *Cache.* A read (`r.Get`) returns the cached copy; an `Update` made from it is
  accepted only if it is the current one. `RetryOnConflict` reads again from the
  same cache, so that it succeeds or is exhausted. It may always be exhausted, but
  in `GatewayLifecycle` the constant `PatientRetries` says whether it outlasts the lag
  (up to 300 ms for a finalizer, 40 ms for a status).
  A JSON patch is applied to whatever object has the name.
* *API server.* Deleting an object with finalizers marks it; it is gone when the
  last finalizer is removed; a finalizer cannot be added to a marked object.
* *EPIC.* One resource for each client UID; a second POST is answered with 409
  and the location of the first, which the client fetches; PUT and DELETE of what
  is not there are 404, which the client makes an error. A link is represented by
  the UID for which it was issued.
* *Failures.* Any call may fail without an effect, the reply of a call to EPIC may
  be lost after its effect (the HTTP client's own retries are folded into this),
  and the manager may die and be restarted. `MaxFaults` bounds them together.
* *Bounds.* `MaxChanges` bounds what the user does; each change also yields the
  UID or the generation of what it makes, so these are never used twice.

**Left out on purpose.** Only the cache of the object that is reconciled lags;
Gateways and Services are read current in `RouteLifecycle` (a lag there is a change that
comes a little later, and every interleaving of changes is explored). One Service
stands for all backends, "missing" includes "not permitted". Back-off times are
not modelled: a name in the queue may be handled at any time. Statuses are
abstracted to a verdict, so that writing the same verdict twice is no event; in
the code each write has a new transition time and is an event, which only adds to
the passes that `Touch` allows anyway. Annotations other than the link and the
config are left out, and with them the case in which the first annotation of an
object replaces the whole map (listed as a hazard). A child in `GatewayLifecycle`
is reduced to the one effect that matters there; `RouteLifecycle` has the rest.

The graceful shutdown is in `RouteKinds` and only for routes; that of Gateways, which
does the same, is left out. `Protected` and `MirrorsRoute` speak of a manager that
crashes, not of one that is told to go. A behaviour of `RouteKinds` has one kind of
`trouble`, since the divergences of section 4 let nothing be promised of some
combinations: with failures or shutdowns the user only edits, with missing references
the user also deletes. In `GrantChain` Secrets do not change, as nobody watches them.

In `SliceShadow` a version of a slice may be one with an endpoint that names no node
(`broken`): whichever reconciler describes it to EPIC dereferences a nil pointer, and
the manager dies (`Die`) and is restarted with everything in its queues. A slice without
an owner does the same. Where there is such a slice nothing can be promised, and
`EventuallyInSync` says so.

In `TunnelAgent` the parent of all routes is one Gateway and EPIC's tunnels for the
node are one version number. All filters are removed in one action (`Clean`): each
removal takes a qdisc, and whether another worker looks at an interface before or after
makes the same difference for each of them. Any part of a removal may fail, at the
start, at the exit and for the config (`kept` is what is not removed): that the default
interface or the ENIs cannot be found out, or that a script fails. As in the code nobody
notices and nothing repeats it. The interfaces and the default route stay. A node has been
up for a while, so `Init` has the filters of earlier processes. An endpoint without a node
makes the agent panic, as in the code. Behind a Service there may be several slices of
which one has the endpoint on this node (`"split"`): as the agent gets its slices from
`routeSlices`, whose pointers are all to the last one, it finds the endpoint or does not,
and no tunnel is promised. Two variables are history: `left` has the stale filters whose
removal failed, and `aside` the routes that were put aside because their Gateway was of
another controller, and that had no event since. `aside` restricts no step, and `left`
none either; the properties need them to say what they except.

## 3. Runs

All runs set `CHECK_DEADLOCK FALSE`: the system may really stop, when the user is
done and there is nothing left to reconcile.

| Run | Bounds | Shows |
|---|---|---|
| `route_safety` | 2 parents, 5 changes, 1 fault | types; `LinkOwner`, `Protected`, `WorkerHolds`, `AnnouncedComplete`; `NoOrphan` up to the first failure; the refinement `MirrorsRoute` |
| `route_kinds` | both kinds; 2 parents, 4 changes, 2 faults or shutdowns, fair | `EventuallyServed`, `EventuallyCleaned`: repeating a pass is harmless, whatever the verdict is written to |
| `gateway_safety` | 4 changes, 2 faults, conflicts may outlast the retries, fair | types, `LinkOwner`, the refinement `MirrorsGateway`, `NoOrphan` as long as nothing failed, and `EventuallyAnnounced` |
| `gateway_converges` | 6 changes, no faults, patient retries, fair | `EventuallyAddressed`, `EventuallyNudged`, `EventuallyReleased` |
| `slice_converges` | 2 Services with a slice each, versions that cannot be described among them, 3 changes, 1 fault, fair | types, `LinkWorks`, `NeverBackwards`, `EventuallyInSync` |
| `class_chain` | 1 class, 4 changes (events out of the blue included), 1 fault, fair, no resync | types, `ClassJudged`, `ConfigJudged` |
| `grant_chain` | 2 grants, 1 Gateway, 3 changes, 1 fault, fair, no resync | types, `ReleasedWhenDeleted`, `GatewaysJudged`, `GrantsReleased` |
| `tunnels` | 1 HTTPRoute and 1 TCPRoute, 3 interfaces in an EKS cluster, 2 changes, failures (those of removals included) or restarts, fair | types, `WorkerHolds`, `OnlyFailuresLeft`, `TunnelsUp`, `EventuallyReleased` |
| `rules` | 2 listeners, 2 hostnames out of 5 and an invalid one; 2 Gateways, 2 parentRefs, 3 generations; 3 routes, 2 interfaces, metrics up to 2; at most 2 grants | `HostsSound`, `HostsExact`, `AllowedIsReachable`; `OneEntryEach`, `OthersKept`; `DefaultIsGood`; `OwnersConsent` |

Three further runs end in a violation, which is what they are for (section 4).

Why the bounds are enough. Four changes are a route that is created, edited and
deleted and its namesake created while the worker still has the first; with five
a Gateway and a Service are there first, and one of them goes or the route
changes under the worker. Six are the same for a Gateway with a child. In
`ClassChain` four are a class, a config, and two edits or a replacement of either
between any two calls; one class is enough for them, as the nudges of several
classes are separate calls that share nothing. In `GrantChain` the Gateway is there
at first; three are a grant that is created, edited and deleted, or two grants that
permit the same, one of which goes. Two faults are a crash or an error inside the recovery from
another one. In `TunnelAgent` everything is set up at first and two events are, for
example, a new config while the agent restarts, or a route that is deleted while a
call fails; the three interfaces are the default one, an ENI, and one that only a
config names. The config of this run is deleted and created again, but not switched to other
interfaces, as that takes longer than the other bounds together; the theorems of section
5 have no such limit. Three workers of one node meet only at the interfaces, and two routes
of different kinds are all that can be in work at once. The hostnames of `MCRules`
have every relation that two hostnames can have (equal, inside, disjoint, one or two
labels apart, wildcard or not); three routes are the fewest with which the metric that
is not kept up to date matters. Every passing property has a mutant in `PROJECT.json`
with which TLC finds it violated under the same bounds.

**Fairness.** The worker goes on when it can (one goroutine that only blocks in
calls with timeouts), the informer catches up, the periodic resync (10 hours by
default in controller-runtime) and the nudges come round (`Touch`), agents release
a doomed route, and a work queue is first in, first out (hence strong fairness of the
action that takes a name, `GetShadow`, `GetRoute` of `TunnelAgent` and `ReadGateway`,
which is disabled whenever the worker is at another name). A manager that was
stopped is started again, and so is an agent, which belongs to a DaemonSet. Nothing
is assumed of the user, of other controllers or of failures, except that the first and
the last are bounded, as convergence is a claim about what happens after the last
change. The child in `GatewayLifecycle` gets no resync, so that `EventuallyNudged`
shows the work of the nudges and not of the resync, which would put right a lost nudge
after hours; for the same reason `ClassChain` has events out of the blue, but none that
is promised, and `GrantChain` has none. In `TunnelAgent` the poll (`TryAgainLater`
after 10 or 30 seconds) keeps the name in the queue.

## 4. Divergences

Each of these runs ends with a violation:

| Run | Code | What happens |
|---|---|---|
| `route_stuck` | `httproute_controller.go:236` | a withdrawal that is cut in half leaves a dead link, with which every later pass fails |
| `slice_aliased` | `httproute_controller.go:502` | pointers to the loop's variable: only the last slice of a Service is announced |
| `filter_doubled` | `trueingress/setup.go:76` | a filter is looked for and added in two commands, while another worker does the same: it is loaded twice |

These were met as well and have no run of their own. Unless they are said to be left
out, the models contain them, and the properties that hold say where they end.

Routes and Gateways:

* The finalizer of a route and of a Gateway goes before EPIC's resource does
  (`httproute_controller.go:91`, `gateway_controller.go:96`): one failure in between
  leaves the resource forever. `NoOrphan` therefore speaks of the time before it.
* A route whose Gateway is gone is never withdrawn, as the first pass over the
  parents returns earlier (`httproute_controller.go:115`).
* A route that was rejected for a while stays marked as rejected while it is
  served, as only the announcement writes an accepted status
  (`httproute_controller.go:249`).
* A Gateway that is deleted after its class keeps its finalizer
  (`gateway_controller.go:76`).
* A Gateway gets its addresses only in the pass that announces it, after the link was
  written; if the call in between fails it stays without them (`gateway_controller.go:210`).
* A Gateway whose certificate is no longer permitted gets a status that says so, and
  stays announced (`gateway_controller.go:169-176`).
* Each write of a Gateway's status has a new transition time and the listeners in the
  order of a map, so that it is an event for its own reconciler
  (`gateway_controller.go:172`). `GrantChain.UpdateStatus` has these events;
  `GatewayLifecycle` leaves them out, as they only add passes there.
* The verdict on a TCPRoute is written to the HTTPRoute of the same name, and without
  one the pass fails after the announcement (`tcproute_controller.go:266`); the next pass
  takes the branch of an update, which writes no status, and ends well. `EventuallyServed` says that this hurts nothing else.
* Of a route with several parents only the last one's status is written, and entries
  of parents that it no longer names stay (`httproute_controller.go:704`).
* A route without parentRefs makes the manager and the agents panic
  (`httproute_controller.go:147`); left out.
* At a graceful exit the manager takes its finalizer off live routes and Gateways
  (`cmd/manager/main.go:151`), so that what is deleted before the restart stays at EPIC. The
  TCPRoutes keep theirs, on the manager's exit and on the agent's. A rejected route does
  not get the finalizer back.

Slices, classes and grants:

* An endpoint without a node, or a slice without an owner, makes the manager panic when
  it describes the slice to EPIC (`httproute_controller.go:400`, `:421`,
  `endpointslice_controller.go:97`, `:119`), again after each restart until the slice
  changes or goes. `EventuallyInSync` excepts this.
* A slice that is deleted before its shadow is visible stays at EPIC, without any
  failure (`endpointslice_controller.go:55`).
* A class is not told that its config was deleted, a nudge that fails is not
  repeated, and a test of the connection that fails for a moment is taken for a
  verdict (`gatewayclassconfig_controller.go:76`, `:101`). `ClassJudged` excepts these.
* Nobody is nudged for a grant that is deleted: the check for the deletion comes first
  (`referencegrant_controller.go:67`), also when the grant was edited just before.
  `GatewaysJudged` excepts a Gateway from there to its next event.
* If the grants cannot be listed, a certificate is taken for invalid without a condition
  that says why and without another try (`gatewayapi_processor.go:79`), and a backend for
  permitted (`gatewayapi_processor.go:380`). A Secret that cannot be read for a moment is
  an invalid one, without another try (`gatewayapi_processor.go:116`). `GatewaysJudged`
  excepts a Gateway from either failure to its next event.

Rules and nodes:

* A listener with the narrower of two wildcards (`*.a.org`) and a route with the
  wider one (`*.org`) have nothing in common for `ComputeHosts`, as only the
  listener's wildcard is tried (`gatewayapi_processor.go:280`). `HostsExact` excepts
  this.
* Kind, hostname and namespace may each be allowed by a different listener
  (`internal/gateway/gateway.go:54`), and the namespace selector of a listener is
  not used.
* With three default routes the worst but the first may win, as the metric of the best so far
  is not kept, and a multipath route makes the search forget what it found
  (`trueingress/network.go:58`). `DefaultIsGood` says what is left.
* An endpoint without a node makes the agent of every node panic, again after each
  restart (`httproute_agent_controller.go:185`); `TunnelsUp` and `EventuallyReleased`
  except that.
* The agent gets its slices from `routeSlices`, too, so that an endpoint on its node in any
  but the last slice of a Service is not found (`httproute_controller.go:502`). `TunnelsUp`
  promises nothing of such a route.
* A removal of filters that fails is logged at most (`trueingress/network.go:262`, `:275`,
  `setup.go:40`, `:49`; `cmd/agent/main.go:122` ignores the result) and never repeated: a
  filter of an earlier process then stays, `addFilter` finds it and takes it for ours
  (`setup.go:76`), though its maps are gone, until the process or the config changes. One
  on the default interface that survives the start has a second chance, as every start
  queues the config, whose event cleans that interface as well. `OnlyFailuresLeft` and
  `TunnelsUp` except the filters in `left`.
* An agent puts a route aside whose Gateway is of another controller
  (`httproute_agent_controller.go:102`, `tcproute_agent_controller.go:94`) and looks again
  only when the route has an event. The manager's nudge is one for an HTTPRoute, if it does
  not fail, but TCPRoutes get none (`gateway_controller.go:431`) and wait for the resync.
  `TunnelsUp` excepts routes in `aside`.

## 5. What is proved

Each theorem holds for every value of the constants that satisfies the `ASSUME`s of the
module, which TLC evaluates for the values of the runs. They ask for finite sets
where the code has finite ones, for bounds that are natural numbers, for names that are
not mixed up with each other or with a marker (`Config`, `"config"`, `Unset`, `*`), and
of hostnames that each matches some name and is neither empty nor only `*`, as
Kubernetes validates them.

| Theorem | Property | Assumptions besides bounds |
|---|---|---|
| `RouteLifecycle_proofs`: `TypeCorrect`, `LinkOwnerHolds`, `ProtectedHolds`, `WorkerHoldsHolds`, `AnnouncedCompleteHolds`, `NoOrphanHolds` | invariants | any number of parents, any set of user operations |
| `NoLateAnnouncementHolds`, `MirrorsRouteHolds` | action property, refinement of `EpicMirror` | the same |
| `GatewayLifecycle_proofs`: `TypeCorrect`, `LinkOwnerHolds`, `NoOrphanHolds`, `MirrorsGatewayHolds` | invariants, refinement of `EpicMirror` | patient retries or not |
| `SliceShadow_proofs`: `TypeCorrect`, `LinkWorksHolds`, `NeverBackwardsHolds` | invariants, action property | finitely many Services with finitely many slices, none shared |
| `PassCompleteWhenSingle` | action property | and no Service with two slices |
| `TunnelAgent_proofs`: `TypeCorrect`, `WorkerHoldsHolds`, `OnlyFailuresLeftHolds` | invariants | any routes of both kinds, any interfaces and configs |
| `GrantChain_proofs`: `TypeCorrect`, `ReleasedWhenDeletedHolds` | invariant, action property | any grants, Gateways and Secrets |
| `ClassChain_proofs`: `TypeCorrect` | invariant | any classes |
| `Rules_proofs`: `HostsSoundHolds`, `HostsExactHolds`, `AllowedIsReachableHolds` | invariants | any names and hostnames, any number of listeners |
| `OwnersConsentHolds` | invariant | the kinds of references and grants of `MCRules`, in any combination |
| `DefaultIsGoodHolds` | invariant | routing tables of any length |
| `RouteStatus_proofs`: `OneEntryEachHolds`, `OthersKeptHolds` | invariant, action property | any Gateways, any number of entries |

Apart from the types, none of these invariants is inductive as it stands. `IInv`, or a formula named for what it says,
is the strengthening in each module, and the lemmas `...Init`, `...Step` and
`Invariance` are the usual three facts. What the strengthening says:

*The mirrors (`RouteLifecycle_proofs`, `GatewayLifecycle_proofs`).* What makes
`addEpicLink` harmless is not visible in the state of the route alone. The strengthening
says that the worker is the only one that takes the manager's finalizer off, that it
does so only from a copy that it read as doomed, and that any copy, cached or
local, of an object that carried the finalizer is faithful: as long as the copy
has the finalizer and is not doomed, the object at the API server is the same one
and still carries it. So from `AddFinalizer` on, which works only on the current
version, the worker's route is the real one (`WorkerHolds`), and whatever it patches or
announces belongs to that route. `NoOrphan` needs in addition that a link is on
the route whenever the worker is not just about to write or to use it.
Failures are only ever counted up (`FaultsStep`), so what held before the first one needs
no more than that none has happened yet. The refinement has a step of the same name
for each action (`MirrorStep`). `AnnouncedComplete` has an argument of its own: what is
sent was resolved in the same pass (`CompleteInv`). `NoLateAnnouncement`, the part of
`MirrorsRoute` that says most, is stated beside the proofs.

*Two writers of slices (`SliceShadow_proofs`).* A slice's name is never used twice, so
one that the informer knows to be gone is dead for good (`Dead`); nobody has to do with
a slice that the informer has not seen (`Acquainted`); and nothing that is on its way
to EPIC, or there, is newer than the informer's copy (`Behind`). The updater sends
what it has just read there, so it cannot go backwards; and it deletes only what is dead,
so the shadows of living slices keep their resource (`ShadowsKept`). With one slice to
a Service the pointers to the loop's variable are as good as values (`SinglePointers`),
and what is not in the list any more has been announced (`Covered`): so the run
`slice_aliased` shows the one way in which a pass leaves something out.

*The node (`TunnelAgent_proofs`).* Workers decide by copies that lag. The copies can be
wrong about the finalizer in one way only: a doomed route that has lost it, and which
is gone with it (`Informed`, `Bound`), because only the worker at the route writes
it. The bound of two on the filters of a function (`TypeOK`) counts the filters that
are there and the workers that have found none and have yet to add theirs (`Loaded`).
That only failures leave stale filters (`OnlyFailuresLeft`) is about the order of things:
filters become stale when the process ends, the next one cleans the default interfaces
before anything else and those of the config when its event comes (`CleanEffect`); until
then, and again when the informer brings a new config, that event is in the queue
(`CalmLeft`). What failed is in `left` until it is cleaned or the process ends.

*Old copies of grants (`GrantChain_proofs`).* The reconciler reads a copy that is being
deleted, and takes the finalizer off whatever has the name later. That is never a
namesake's, as a namesake gets its finalizer from this reconciler only, which has then
read another copy (`CopyInv`).

*Rules (`Rules_proofs`, `RouteStatus_proofs`).* That wildcards are tried one way round is
enough because of two suffixes of one name the shorter is a suffix of the longer
(`MatchesWithin`, `CommonMatches`). A good reference is followed back through each check
to the grant that let it pass (`ReferenceInv`). `DefaultInterface` is a loop with an
invariant (`WalkInv`): as long as there is at most one other default route, what
was found is the best. `combineConditions` is a loop over a sequence of any length, so
`RouteStatus_proofs` needs induction; it is stated for sets (`SetInduction`,
`SeqInduction`), as the library's rules have an operator as a parameter, which no
prover here can instantiate, and comes from the well-foundedness of `<`. The lemmas
`Keep...` say what such a loop keeps, for any sequence and any set.

*Only model-checked:* all liveness properties (fairness and `ENABLED` are beyond the
prover): `EventuallyServed`, `EventuallyCleaned`, `EventuallyAnnounced`,
`EventuallyAddressed`, `EventuallyNudged`, `EventuallyReleased`, `EventuallyInSync`,
`TunnelsUp`, `ClassJudged`, `ConfigJudged`, `GatewaysJudged` and `GrantsReleased`. The
runs of section 4 refute properties, which are then no theorems; of `PassComplete`
the theorem says where it does hold.

## 6. Plan

In order of importance:

1. *Done:* `EpicMirror`, `RouteLifecycle` with its proofs, `GatewayLifecycle`,
   `SliceShadow`, `RouteKinds`, `ClassChain`, `GrantChain`, `TunnelAgent` and the rules in
   `Attachment`, `References`, `RouteStatus` and `DefaultRoute`.
2. *Done:* the proofs of all safety properties that the runs check (section 5).
3. Safety that stands behind the liveness properties and could be proved: that a
   verdict on a class or a Gateway is never newer than what it was judged by, and that
   an event is never lost between two workers of `ClassChain` and `GrantChain`; that
   `RouteKinds` keeps the invariants of `RouteLifecycle` through shutdowns, with
   `Protected` weakened to routes whose manager was not told to go.
4. `SharedGateway`: Gateways with one sharing key and one EPIC resource. (The sample
   manifests spell the annotation `epic-gateway.org/epic-sharing-key`, the code
   `puregw.epic-gateway.org/sharing-key`.)
5. `Annotations`: nudges and links as patches of one map of annotations.
6. The cleanup of Gateways at shutdown, with the abstract promise weakened to what is
   left of it.

Abstract specifications worth stating: `EpicMirror` (done), a mirror that also
tells the truth about its status, and a set of slices as one atomic map. Theorems
worth proving next: those of item 3, and that a shared resource outlives all
but its last Gateway (or that it does not).

Not planned: the HTTP and Kubernetes clients, generated deep copies, command-line
set-up, virtual interfaces and addresses in `internal/trueingress/network.go`, which
nothing calls, and the helpers taken over from Contour that nothing calls.
