-------------------------------- MODULE MCRules --------------------------------
(***************************************************************************)
(* The pure functions of the system, each in a world of its own: a         *)
(* behaviour is about one of them, and the others' variables rest.         *)
(*                                                                         *)
(* Attachment, RouteStatus and DefaultRoute have their own variables; the  *)
(* references are tried here.  The world of hostnames has a domain, two    *)
(* names in it and a domain inside of it, each with its wildcard, and a    *)
(* stranger; that of references has a Secret and a Service "site" of the   *)
(* namespace "certs" that something in "apps" refers to.                   *)
(***************************************************************************)
EXTENDS Attachment, RouteStatus, DefaultRoute, References

ASSUME UnsetAssumption == Unset \notin {"", "apps", "certs", "other", "site", "broken", "80"}

VARIABLES
    about,      \* which function the behaviour is about
    reference,  \* a reference out of "apps": a certificateRef or a backendRef
    grants,     \* the grants there are
    readable,   \* they can be listed
    problem     \* what is found wrong

referenceVars == <<reference, grants, readable, problem>>
allVars == <<about, vars, statusVars, routingVars, referenceVars>>

MCNames == {<<"org">>, <<"a", "org">>, <<"b", "org">>, <<"c", "a", "org">>, <<"net">>}
MCHostnames == {<<"a", "org">>, <<"c", "a", "org">>, <<"*", "org">>, <<"*", "a", "org">>, <<"net">>}

From(kind, ns) == [group |-> "gateway", kind |-> kind, ns |-> ns]
To(kind, name) == [group |-> "", kind |-> kind, name |-> name]
AllGrants ==
    [ns: {"certs", "apps"},
     from: {{From("Gateway", "apps")}, {From("HTTPRoute", "apps"), From("Gateway", "others")}},
     to: {{To("Secret", "site"), To("Service", "other")}, {To("Service", Unset)}, {To("Secret", "")},
          {To("Secret", "other")}}]

AllReferences ==
    [group: {Unset, "", "other"}, kind: {"Secret", "Service"}, ns: {Unset, "apps", "certs"},
     name: {"site", "", "broken"}, port: {Unset, "80"}]

Secrets ==
    {[ns |-> "certs", name |-> "site", type |-> "tls", parts |-> {"certificate", "key"}, ca |-> "none"],
     [ns |-> "certs", name |-> "broken", type |-> "tls", parts |-> {"certificate", "key"}, ca |-> "broken"],
     [ns |-> "apps", name |-> "site", type |-> "tls", parts |-> {"certificate"}, ca |-> "none"],
     [ns |-> "apps", name |-> "broken", type |-> "Opaque", parts |-> {}, ca |-> "good"]}

ReferenceInit ==
    /\ reference \in AllReferences
    /\ grants \in {{}} \cup {{g, h} : g, h \in AllGrants}
    /\ readable \in BOOLEAN
    /\ problem = "pending"

TryReference ==
    /\ problem = "pending"
    /\ problem' = IF reference.kind = "Secret"
                  THEN TLSProblem("apps", <<reference>>, readable, grants, Secrets)
                  ELSE BackendProblem(reference, "HTTPRoute", "apps", readable, grants)
    /\ UNCHANGED <<reference, grants, readable>>

AttachmentRests == listeners = <<>> /\ hostnames = {} /\ sameNs = FALSE /\ knownNs = FALSE /\ verdict = "pending"
StatusRests == parentRefs = <<>> /\ entries = <<>> /\ generation = 1
RoutingRests == table = <<>> /\ walked = 0 /\ best = None
ReferenceRests == reference = [ns |-> Unset] /\ grants = {} /\ readable = FALSE /\ problem = "pending"

RulesInit ==
    \/ about = "attachment" /\ Init /\ StatusRests /\ RoutingRests /\ ReferenceRests
    \/ about = "status" /\ StatusInit /\ AttachmentRests /\ RoutingRests /\ ReferenceRests
    \/ about = "routing" /\ RoutingInit /\ AttachmentRests /\ StatusRests /\ ReferenceRests
    \/ about = "reference" /\ ReferenceInit /\ AttachmentRests /\ StatusRests /\ RoutingRests

RulesNext ==
    /\ UNCHANGED about
    /\ \/ about = "attachment" /\ Next /\ UNCHANGED <<statusVars, routingVars, referenceVars>>
       \/ about = "status" /\ StatusNext /\ UNCHANGED <<vars, routingVars, referenceVars>>
       \/ about = "routing" /\ Walk /\ UNCHANGED <<vars, statusVars, referenceVars>>
       \/ about = "reference" /\ TryReference /\ UNCHANGED <<vars, statusVars, routingVars>>

RulesSpec == RulesInit /\ [][RulesNext]_allVars
-----------------------------------------------------------------------------

\* A certificate or a backend of another namespace is used only if someone who may
\* write there has said so: some grant of that namespace names what refers and what
\* is referred to.  For backends this needs grants that can be read.
Granted(kind) ==
    \E g \in grants :
       /\ g.ns = "certs"
       /\ From(kind, "apps") \in g.from
       /\ \E name \in Naming(reference) : To(reference.kind, name) \in g.to

OwnersConsent ==
    about = "reference" /\ problem = "none" /\ reference.ns = "certs" =>
       IF reference.kind = "Secret" THEN Granted("Gateway") ELSE ~readable \/ Granted("HTTPRoute")
=============================================================================
