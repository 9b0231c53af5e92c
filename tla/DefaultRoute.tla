------------------------------ MODULE DefaultRoute ------------------------------
(***************************************************************************)
(* Which network interface of a node is the "default" one that tunnels go  *)
(* through: DefaultInterface walks over the node's routing table, one      *)
(* route at a step.                                                        *)
(*                                                                         *)
(* A default route has no destination.  One with several next hops has no  *)
(* interface of its own, which is the index 0.                             *)
(***************************************************************************)
EXTENDS Naturals, Sequences, SequencesExt

CONSTANTS
    MaxRoutes,  \* bound: the length of the routing table
    MaxIndex,   \* bound: interface indices
    MaxMetric   \* bound: metrics

ASSUME RoutingAssumption == {MaxRoutes, MaxIndex, MaxMetric} \subseteq Nat

VARIABLES
    table,   \* the routing table
    walked,  \* the number of routes that have been looked at
    best     \* defaultifindex and defaultifmetric; the index 0 means none

routingVars == <<table, walked, best>>

RouteEntries == [default: BOOLEAN, index: 0..MaxIndex, metric: 0..MaxMetric]
None == [index |-> 0, metric |-> 0]

\* A slip: the last default route wins.
PreferLater(r) == IF r.default THEN [index |-> r.index, metric |-> r.metric] ELSE best

\* The first default route is taken, and given up for one with a lower metric.  The
\* metric that others are compared with stays that of the first.
Prefer(r) ==
    CASE r.default /\ best.index = 0 -> [index |-> r.index, metric |-> r.metric]
      [] r.default /\ best.index # 0 /\ r.metric < best.metric -> [best EXCEPT !.index = r.index]
      [] OTHER -> best

RoutingInit ==
    /\ table \in BoundedSeq(RouteEntries, MaxRoutes)
    /\ walked = 0
    /\ best = None

\* A turn of DefaultInterface's loop.
Walk ==
    /\ walked < Len(table)
    /\ walked' = walked + 1
    /\ best' = Prefer(table[walked + 1])
    /\ UNCHANGED table

-----------------------------------------------------------------------------
(* What must hold.                                                         *)

\* The default routes among those that have been looked at.
Defaults == {i \in 1..walked : table[i].default}
NoWorse(i, others) == \A j \in others : table[i].metric <= table[j].metric

\* If there are default routes, each through one interface, then the interface of one
\* of them is found, by a metric no worse than that of the first; it is the best of
\* two.  With three or more it need not be ("if there's another default route with a
\* lower metric use it", but the metric that is compared with stays the first's), and
\* one of several hops makes the search forget what it has found.
DefaultIsGood ==
    (\A i \in Defaults : table[i].index # 0) =>
       IF Defaults = {} THEN best.index = 0
       ELSE \E i \in Defaults :
               /\ table[i].index = best.index
               /\ NoWorse(i, IF Cardinality(Defaults) <= 2 THEN Defaults
                             ELSE {CHOOSE j \in Defaults : \A k \in Defaults : j <= k})
=============================================================================
