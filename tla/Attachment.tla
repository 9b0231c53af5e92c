------------------------------- MODULE Attachment -------------------------------
(***************************************************************************)
(* Whether a Gateway lets an HTTPRoute attach: GatewayAllowsHTTPRoute and  *)
(* the functions that it is made of, checked against what they are for.    *)
(*                                                                         *)
(* A hostname is the sequence of its labels, a wildcard one begins with    *)
(* Star, and <<Star>> alone is what a listener without a hostname gets.    *)
(* What hostnames mean is defined by the names that they match, in a       *)
(* universe of names that a client may ask for.                            *)
(***************************************************************************)
EXTENDS Naturals, Sequences, SequencesExt

CONSTANTS
    Star,          \* the label "*"
    Names,         \* the universe of names, sequences of labels other than Star
    Hostnames,     \* the valid hostnames that listeners and routes have
    MaxListeners,  \* bound: the number of listeners of the Gateway
    MaxHostnames   \* bound: the number of hostnames of the route

IsWildcard(h) == h # <<>> /\ Head(h) = Star

\* The reference: a wildcard stands for one or more labels.
Matches(h) ==
    IF IsWildcard(h)
    THEN {n \in Names : Len(n) >= Len(h) /\ IsSuffix(Tail(h), n)}
    ELSE Names \cap {h}

ASSUME HostnamesAssumption ==
    /\ <<>> \notin Hostnames
    /\ <<Star>> \notin Hostnames
    /\ \A h \in Hostnames : Matches(h) # {}
ASSUME NamesAssumption == Names # {} /\ \A n \in Names : ~IsWildcard(n)
ASSUME LabelsAssumption == Star \in STRING /\ Names \cup Hostnames \subseteq Seq(STRING)
ASSUME BoundsAssumption == MaxListeners \in Nat \ {0} /\ MaxHostnames \in Nat

VARIABLES
    listeners,  \* the listeners of the Gateway
    hostnames,  \* the hostnames of the route
    sameNs,     \* the route is in the Gateway's namespace
    knownNs,    \* the route's namespace can be read
    verdict     \* what GatewayAllowsHTTPRoute says

vars == <<listeners, hostnames, sameNs, knownNs, verdict>>

Kinds == {"HTTPRoute", "TCPRoute"}
Froms == {"All", "Same", "Selector"}
Invalid == <<>>     \* a hostname that is syntactically invalid, as "*" is too
Listeners == [kinds: SUBSET Kinds, host: Hostnames \cup {<<Star>>}, from: Froms]
Verdicts == {"pending", "allowed", "InvalidKind", "NoMatchingListenerHostname",
             "NotAllowedByListeners"}

-----------------------------------------------------------------------------

\* A slip: the wildcard may also stand for no label.
MatchesWildcardOrNothing(h, w) == Len(h) >= Len(w) - 1 /\ IsSuffix(Tail(w), h)

\* Whether h, which may be a wildcard itself, has the labels of w behind its
\* wildcard as a suffix, and more.
HostnameMatchesWildcard(h, w) == Len(h) >= Len(w) /\ IsSuffix(Tail(w), h)

\* A slip: the wildcards of routes are not expanded.
HostForListenerWildcardsOnly(h, l) ==
    IF l = h THEN {h} ELSE {x \in {h} : IsWildcard(l) /\ HostnameMatchesWildcard(h, l)}

\* What one hostname of a route comes to at a listener with hostname l: the
\* cases are tried in this order.
HostFor(h, l) ==
    IF l = h THEN {h}
    ELSE IF IsWildcard(l)
         THEN {x \in {h} : HostnameMatchesWildcard(h, l)}
         ELSE {x \in {l} : IsWildcard(h) /\ HostnameMatchesWildcard(l, h)}

ComputeHosts(hosts, l) ==
    IF hosts = {} THEN {l} ELSE UNION {HostFor(h, l) : h \in hosts \ {Invalid}}

\* A slip: the errors of ComputeHosts are dropped.
AllowsHostnamesDespiteErrors ==
    \E i \in DOMAIN listeners : ComputeHosts(hostnames, listeners[i].host) # {}

\* An invalid hostname is an error at every listener.
GatewayAllowsHostnames ==
    /\ Invalid \notin hostnames
    /\ \E i \in DOMAIN listeners : ComputeHosts(hostnames, listeners[i].host) # {}

\* No kinds at all means the default.
KindsIntersect(listener, kind) ==
    kind \in IF listener.kinds = {} THEN {"HTTPRoute"} ELSE listener.kinds

GatewayAllowsKind(kind) == \E i \in DOMAIN listeners : KindsIntersect(listeners[i], kind)

\* The selector that is passed in selects everything.
NamespaceMatches(listener) ==
    CASE listener.from = "All"      -> TRUE
      [] listener.from = "Same"     -> sameNs
      [] listener.from = "Selector" -> knownNs

\* The first check that fails gives the reason.  Each check looks for a listener
\* of its own.
GatewayAllowsHTTPRoute ==
    IF ~GatewayAllowsKind("HTTPRoute") THEN "InvalidKind"
    ELSE IF ~GatewayAllowsHostnames THEN "NoMatchingListenerHostname"
    ELSE IF \E i \in DOMAIN listeners : NamespaceMatches(listeners[i])
         THEN "allowed"
         ELSE "NotAllowedByListeners"

Init ==
    /\ \E n \in 1..MaxListeners : listeners \in [1..n -> Listeners]
    /\ hostnames \in SUBSET (Hostnames \cup {Invalid})
    /\ Cardinality(hostnames) <= MaxHostnames
    /\ sameNs \in BOOLEAN
    /\ knownNs \in BOOLEAN
    /\ verdict = "pending"

Decide ==
    /\ verdict = "pending"
    /\ verdict' = GatewayAllowsHTTPRoute
    /\ UNCHANGED <<listeners, hostnames, sameNs, knownNs>>

Next == Decide

Spec == Init /\ [][Next]_vars

-----------------------------------------------------------------------------
(* What must hold.                                                         *)

\* The names that clients may reach the route by at a listener.
RouteNames == IF hostnames = {} THEN Names ELSE UNION {Matches(h) : h \in hostnames \ {Invalid}}
Common(l) == (IF l = <<Star>> THEN Names ELSE Matches(l)) \cap RouteNames
Computed(l) ==
    UNION {IF h = <<Star>> THEN Names ELSE Matches(h) : h \in ComputeHosts(hostnames, l)}

\* ComputeHosts never gives a route a name that is not both the listener's and
\* its own, also where one wildcard is inside another.
HostsSound ==
    \A i \in DOMAIN listeners : Computed(listeners[i].host) \subseteq Common(listeners[i].host)

\* Listener and route both have wildcards, and that of the listener is the narrower.
Narrower(l, h) == IsWildcard(h) /\ IsWildcard(l) /\ Len(h) < Len(l)

\* ComputeHosts gives a route all the names that it has in common with the
\* listener, unless both have wildcards and that of the listener is the
\* narrower one: the listener's wildcard is tried first then, and nothing comes
\* of it, although the comment before ComputeHosts says of an empty result that
\* "there was no intersection".
HostsExact ==
    \A i \in DOMAIN listeners :
       (\A h \in hostnames : ~Narrower(listeners[i].host, h)) =>
          Computed(listeners[i].host) = Common(listeners[i].host)

\* A route that is allowed can be reached by some name at some listener, and all
\* of its hostnames are valid.
AllowedIsReachable ==
    verdict = "allowed" =>
       /\ Invalid \notin hostnames
       /\ \E i \in DOMAIN listeners : Common(listeners[i].host) # {}
=============================================================================
