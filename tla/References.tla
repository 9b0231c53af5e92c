------------------------------- MODULE References -------------------------------
(***************************************************************************)
(* The rules for references from one namespace to another: what a          *)
(* ReferenceGrant permits, which certificates a Gateway may use, and which *)
(* backends a route may name.                                              *)
(*                                                                         *)
(* A field that is not given is Unset.  A Secret is what matters of it:    *)
(* its type, the parts of it that are in order, and its CA bundle.         *)
(***************************************************************************)
EXTENDS Naturals, Sequences

CONSTANT Unset

\* The namespace that a reference from namespace own leads to.
Target(ref, own) == IF ref.ns = Unset THEN own ELSE ref.ns

\* What a grant may give as the name to permit this one: none, or an empty one, for all.
Naming(to) == {Unset, "", to.name}

\* A slip: any grant of the right "from" and "to" will do, wherever it is.
CrossNamespaceRefAnywhere(grants, from, to) ==
    \E g \in grants :
       /\ from \in g.from
       /\ \E t \in g.to : t.group = to.group /\ t.kind = to.kind /\ t.name \in Naming(to)

\* A grant counts in the namespace that is referred to.  It need not name the
\* object, but names the kinds and the namespace of those that refer to it.
ValidCrossNamespaceRef(grants, from, to) ==
    \E g \in grants :
       /\ g.ns = to.ns
       /\ from \in g.from
       /\ \E t \in g.to : t.group = to.group /\ t.kind = to.kind /\ t.name \in Naming(to)

IsSecretRef(ref) == ref.group = "" /\ ref.kind = "Secret"

ValidTLSSecret(secret) ==
    /\ secret.type = "tls"
    /\ {"certificate", "key"} \subseteq secret.parts
    /\ secret.ca # "broken"

\* What is wrong with the certificateRefs of a listener; the tests are made in this
\* order.  "unread" is said of grants that could not be read.
TLSProblem(gwNs, refs, readable, grants, secrets) ==
    IF Len(refs) # 1 THEN "count"
    ELSE LET ref == refs[1]
             to == [group |-> "", kind |-> "Secret", ns |-> Target(ref, gwNs), name |-> ref.name]
             from == [group |-> "gateway", kind |-> "Gateway", ns |-> gwNs]
         IN CASE ~IsSecretRef(ref) -> "notSecret"
              [] IsSecretRef(ref) /\ to.ns # gwNs /\ ~readable -> "unread"
              [] IsSecretRef(ref) /\ to.ns # gwNs /\ readable
                    /\ ~ValidCrossNamespaceRef(grants, from, to) -> "notPermitted"
              [] OTHER -> IF \E s \in secrets : s.ns = to.ns /\ s.name = to.name /\ ValidTLSSecret(s)
                          THEN "none" ELSE "badSecret"

-----------------------------------------------------------------------------
(* What a Gateway says of a listener.                                      *)

Conditions == {"ResolvedRefs", "Ready", "Accepted", "Programmed"}

\* One condition of each type: a later one takes the place of an earlier one.
AddListenerCondition(conditions, type, status) == [conditions EXCEPT ![type] = status]

\* The kinds are supported, and all is well unless the TLS turns out not to be.
Hopeful == [c \in Conditions |-> IF c = "Ready" THEN "absent" ELSE "True"]

\* A problem with the grants themselves leaves no condition of its own.
TLSCondition(problem) ==
    CASE problem \in {"none", "unread"} -> Hopeful
      [] problem = "count"              -> AddListenerCondition(Hopeful, "Ready", "False")
      [] OTHER                          -> AddListenerCondition(Hopeful, "ResolvedRefs", "False")

ListenerStatus(problem) ==
    IF problem = "none" THEN TLSCondition(problem)
    ELSE AddListenerCondition(AddListenerCondition(TLSCondition(problem), "Accepted", "False"),
                              "Programmed", "False")

-----------------------------------------------------------------------------
(* Backends.                                                               *)

\* What is wrong with a backend of a route.  Grants that cannot be read are no
\* hindrance here.
BackendProblem(ref, routeKind, routeNs, readable, grants) ==
    LET to == [group |-> "", kind |-> "Service", ns |-> Target(ref, routeNs), name |-> ref.name]
        from == [group |-> "gateway", kind |-> routeKind, ns |-> routeNs]
    IN CASE ref.group \notin {Unset, ""} \/ ref.kind # "Service" -> "InvalidKind"
         [] ref.group \in {Unset, ""} /\ ref.kind = "Service" /\ (ref.name = "" \/ ref.port = Unset)
              -> "Degraded"
         [] OTHER -> IF to.ns # routeNs /\ readable /\ ~ValidCrossNamespaceRef(grants, from, to)
                     THEN "RefNotPermitted" ELSE "none"
=============================================================================
