------------------------------ MODULE MCGrantChain ------------------------------
(***************************************************************************)
(* Two grants beside the certificates, one of which may name the Secret    *)
(* for any Gateway of ours, and either of which may be for others; and a   *)
(* Gateway that refers to that Secret, or to one of its own namespace.     *)
(***************************************************************************)
EXTENDS GrantChain

MCGrantNs == [g \in Grants |-> "certs"]

From(ns) == [group |-> "gateway", kind |-> "Gateway", ns |-> ns]
To(name) == [group |-> "", kind |-> "Secret", name |-> name]
MCSpecs == {[from |-> {From("apps"), From("others")}, to |-> {To("site")}],
            [from |-> {From("others")}, to |-> {To(Unset)}]}

Ref(ns, name) == [group |-> "", kind |-> "Secret", ns |-> ns, name |-> name]
MCCertRefs == {<<Ref("certs", "site")>>}
MCSecrets == {[ns |-> "certs", name |-> "site", type |-> "tls",
               parts |-> {"certificate", "key"}, ca |-> "none"]}
=============================================================================
