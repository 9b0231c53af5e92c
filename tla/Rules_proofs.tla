----------------------------- MODULE Rules_proofs -----------------------------
(***************************************************************************)
(* Proofs of what the deciding functions promise: for every universe of    *)
(* names and every set of valid hostnames, for any references and grants,  *)
(* and for routing tables of any length.                                   *)
(*                                                                         *)
(* Of hostnames it all comes down to one fact: of two suffixes of a name   *)
(* the shorter one is a suffix of the longer one.  A reference is followed *)
(* through the checks to the grant that let it pass.  The routing table is *)
(* a loop with an invariant.  The theorems are about RulesSpec, in which   *)
(* every function has a world of its own.                                  *)
(***************************************************************************)
EXTENDS MCRules, SequenceTheorems, FiniteSetTheorems, TLAPS

-----------------------------------------------------------------------------
(* Suffixes.                                                               *)

LEMMA ReverseProperties ==
  ASSUME NEW L, NEW s \in Seq(L)
  PROVE  /\ Reverse(s) \in Seq(L)
         /\ Len(Reverse(s)) = Len(s)
         /\ \A i \in 1..Len(s) : Reverse(s)[i] = s[(Len(s) - i) + 1]
<1>1. Len(s) \in Nat /\ s \in [1..Len(s) -> L]
  BY LenProperties
<1>2. Reverse(s) \in [1..Len(s) -> L]
  BY <1>1 DEF Reverse
<1>3. Reverse(s) \in Seq(L) /\ Len(Reverse(s)) = Len(s)
  BY <1>1, <1>2, SeqDef
<1> QED
  BY <1>1, <1>3 DEF Reverse

\* What it is to be a suffix, label by label from the end.
LEMMA SuffixByLabels ==
  ASSUME NEW L, NEW s \in Seq(L), NEW t \in Seq(L)
  PROVE  IsSuffix(s, t) <=>
           /\ Len(s) <= Len(t)
           /\ \A i \in 1..Len(s) : s[(Len(s) - i) + 1] = t[(Len(t) - i) + 1]
<1> DEFINE n == Len(s)
           a == SubSeq(Reverse(s), 1, n)
           b == SubSeq(Reverse(t), 1, n)
<1>1. n \in Nat /\ Len(t) \in Nat
  BY LenProperties
<1>2. IsSuffix(s, t) <=> n <= Len(t) /\ a = b
  BY ReverseProperties DEF IsSuffix, IsPrefix
<1>3. ASSUME n <= Len(t)
      PROVE  a = b <=> \A i \in 1..n : s[(n - i) + 1] = t[(Len(t) - i) + 1]
  <2>1. /\ a \in Seq(L) /\ Len(a) = n
        /\ \A i \in 1..n : a[i] = s[(n - i) + 1]
    BY <1>1, ReverseProperties
  <2>2. /\ b \in Seq(L) /\ Len(b) = n
        /\ \A i \in 1..n : b[i] = t[(Len(t) - i) + 1]
    BY <1>1, <1>3, ReverseProperties
  <2> HIDE DEF a, b
  <2>3. a = b <=> \A i \in 1..n : a[i] = b[i]
    BY <2>1, <2>2, SeqEqual
  <2> QED
    BY <2>1, <2>2, <2>3
<1> QED
  BY <1>1, <1>2, <1>3

LEMMA SuffixOfSuffix ==
  ASSUME NEW L, NEW s \in Seq(L), NEW t \in Seq(L), NEW u \in Seq(L),
         IsSuffix(s, t), IsSuffix(t, u)
  PROVE  IsSuffix(s, u)
<1>1. Len(s) \in Nat /\ Len(t) \in Nat /\ Len(u) \in Nat
  BY LenProperties
<1>2. /\ Len(s) <= Len(t) /\ Len(t) <= Len(u)
      /\ \A i \in 1..Len(s) : s[(Len(s) - i) + 1] = t[(Len(t) - i) + 1]
      /\ \A i \in 1..Len(t) : t[(Len(t) - i) + 1] = u[(Len(u) - i) + 1]
  BY SuffixByLabels
<1>3. /\ Len(s) <= Len(u)
      /\ \A i \in 1..Len(s) : s[(Len(s) - i) + 1] = u[(Len(u) - i) + 1]
  BY <1>1, <1>2
<1> QED
  BY <1>3, SuffixByLabels

\* Of two suffixes the shorter one is a suffix of the longer one.
LEMMA ShorterSuffix ==
  ASSUME NEW L, NEW s \in Seq(L), NEW t \in Seq(L), NEW u \in Seq(L),
         IsSuffix(s, u), IsSuffix(t, u), Len(s) <= Len(t)
  PROVE  IsSuffix(s, t)
<1>1. Len(s) \in Nat /\ Len(t) \in Nat /\ Len(u) \in Nat
  BY LenProperties
<1>2. /\ \A i \in 1..Len(s) : s[(Len(s) - i) + 1] = u[(Len(u) - i) + 1]
      /\ \A i \in 1..Len(t) : t[(Len(t) - i) + 1] = u[(Len(u) - i) + 1]
  BY SuffixByLabels
<1>3. \A i \in 1..Len(s) : s[(Len(s) - i) + 1] = t[(Len(t) - i) + 1]
  BY <1>1, <1>2
<1> QED
  BY <1>3, SuffixByLabels

LEMMA TailSuffix ==
  ASSUME NEW L, NEW s \in Seq(L), s # <<>>
  PROVE  /\ Tail(s) \in Seq(L) /\ Len(Tail(s)) = Len(s) - 1
         /\ IsSuffix(Tail(s), s)
<1>1. Len(s) \in Nat \ {0}
  BY EmptySeq, LenProperties
<1>2. /\ Tail(s) \in Seq(L) /\ Len(Tail(s)) = Len(s) - 1
      /\ \A i \in 1..Len(Tail(s)) : Tail(s)[i] = s[i + 1]
  BY HeadTailProperties
<1>3. \A i \in 1..Len(Tail(s)) : Tail(s)[(Len(Tail(s)) - i) + 1] = s[(Len(s) - i) + 1]
  BY <1>1, <1>2
<1>4. Len(Tail(s)) <= Len(s)
  BY <1>1, <1>2
<1> DEFINE r == Tail(s)
<1>5. r \in Seq(L) /\ Len(r) <= Len(s) /\ \A i \in 1..Len(r) : r[(Len(r) - i) + 1] = s[(Len(s) - i) + 1]
  BY <1>2, <1>3, <1>4
<1> HIDE DEF r
<1>6. IsSuffix(r, s)
  BY <1>5, SuffixByLabels
<1> QED
  BY <1>2, <1>6 DEF r

-----------------------------------------------------------------------------
(* Hostnames.                                                              *)

Hosts == Hostnames \cup {<<Star>>}

LEMMA SingleLabel ==
  ASSUME NEW L, NEW a \in L
  PROVE  <<a>> \in Seq(L)
OBVIOUS

\* Nothing is before any name, and <<Star>> matches them all.
LEMMA HostsTyped ==
  /\ \A h \in Hosts : h \in Seq(STRING) /\ h # <<>> /\ h # Invalid
  /\ \A n \in Names : n \in Seq(STRING)
  /\ IsWildcard(<<Star>>)
  /\ \A s \in Seq(STRING) : s # <<>> => Len(s) >= Len(<<Star>>) /\ IsSuffix(Tail(<<Star>>), s)
<1> DEFINE any == <<Star>>
<1>1. /\ any \in Seq(STRING) /\ any # <<>>
      /\ Len(any) = 1 /\ Head(any) = Star
  <2>1. any \in Seq(STRING)
    BY LabelsAssumption, SingleLabel
  <2>2. Len(any) = 1
    OBVIOUS
  <2>3. Head(any) = Star
    OBVIOUS
  <2> HIDE DEF any
  <2>4. any # <<>>
    BY <2>1, <2>2, EmptySeq
  <2> QED
    BY <2>1, <2>2, <2>3, <2>4
<1>2. \A h \in Hosts : h \in Seq(STRING) /\ h # <<>>
  <2> HIDE DEF any
  <2>1. Hosts = Hostnames \cup {any}
    BY DEF Hosts, any
  <2> QED
    BY <1>1, <2>1, HostnamesAssumption, LabelsAssumption
<1>3. Tail(any) \in Seq(STRING) /\ Len(Tail(any)) = 0
  <2> HIDE DEF any
  <2> QED
    BY <1>1, TailSuffix
<1>4. ASSUME NEW s \in Seq(STRING), s # <<>>
      PROVE  Len(s) >= 1 /\ IsSuffix(Tail(<<Star>>), s)
  <2>1. Len(s) \in Nat \ {0}
    BY <1>4, EmptySeq
  <2> DEFINE r == Tail(any)
  <2>2. r \in Seq(STRING) /\ Len(r) = 0
    BY <1>3
  <2> HIDE DEF r
  <2>3. Len(r) <= Len(s) /\ \A i \in 1..Len(r) : r[(Len(r) - i) + 1] = s[(Len(s) - i) + 1]
    BY <2>1, <2>2
  <2>4. IsSuffix(r, s)
    BY <2>2, <2>3, SuffixByLabels
  <2> QED
    BY <2>1, <2>4 DEF r
<1> QED
  BY <1>1, <1>2, <1>4, LabelsAssumption DEF Invalid, IsWildcard

\* A hostname that a wildcard matches stands for no other names than that.
LEMMA MatchesWithin ==
  ASSUME NEW h \in Hosts, NEW w \in Hosts, IsWildcard(w), HostnameMatchesWildcard(h, w)
  PROVE  Matches(h) \subseteq Matches(w)
<1>1. /\ h \in Seq(STRING) /\ w \in Seq(STRING) /\ h # <<>> /\ w # <<>>
      /\ Len(h) \in Nat /\ Len(w) \in Nat
      /\ \A n \in Names : n \in Seq(STRING) /\ Len(n) \in Nat
  BY HostsTyped, LenProperties
<1>2. Len(h) >= Len(w) /\ IsSuffix(Tail(w), h)
  BY DEF HostnameMatchesWildcard
<1>3. CASE ~IsWildcard(h)
  BY <1>2, <1>3 DEF Matches
<1>4. CASE IsWildcard(h)
  <2>1. IsSuffix(Tail(w), Tail(h))
    <3>1. /\ Tail(w) \in Seq(STRING) /\ Tail(h) \in Seq(STRING) /\ IsSuffix(Tail(h), h)
          /\ Len(Tail(w)) <= Len(Tail(h))
      BY <1>1, <1>2, TailSuffix
    <3> QED
      BY <1>1, <1>2, <3>1, ShorterSuffix
  <2>2. ASSUME NEW n \in Matches(h)
        PROVE  n \in Matches(w)
    <3>1. n \in Names /\ Len(n) >= Len(h) /\ IsSuffix(Tail(h), n)
      BY <1>4 DEF Matches
    <3>2. IsSuffix(Tail(w), n)
      BY <1>1, <2>1, <3>1, TailSuffix, SuffixOfSuffix
    <3> QED
      BY <1>1, <1>2, <3>1, <3>2 DEF Matches
  <2> QED
    BY <2>2
<1> QED
  BY <1>3, <1>4

\* Of two that have a name in common, the wildcard that is not the longer one
\* matches the other.
LEMMA CommonMatches ==
  ASSUME NEW h \in Hosts, NEW w \in Hosts, IsWildcard(w),
         NEW n \in Matches(h) \cap Matches(w), IsWildcard(h) => Len(w) <= Len(h)
  PROVE  HostnameMatchesWildcard(h, w)
<1>1. /\ h \in Seq(STRING) /\ w \in Seq(STRING) /\ h # <<>> /\ w # <<>>
      /\ Len(h) \in Nat /\ Len(w) \in Nat
      /\ n \in Seq(STRING)
  BY HostsTyped, LenProperties DEF Matches
<1>2. Len(n) >= Len(w) /\ IsSuffix(Tail(w), n)
  BY DEF Matches
<1>3. CASE ~IsWildcard(h)
  <2>1. n = h
    BY <1>3 DEF Matches
  <2> QED
    BY <1>2, <2>1 DEF HostnameMatchesWildcard
<1>4. CASE IsWildcard(h)
  <2>1. IsSuffix(Tail(h), n)
    BY <1>4 DEF Matches
  <2>2. IsSuffix(Tail(w), Tail(h))
    <3>1. /\ Tail(w) \in Seq(STRING) /\ Tail(h) \in Seq(STRING)
          /\ Len(Tail(w)) <= Len(Tail(h))
      BY <1>1, <1>4, TailSuffix
    <3> QED
      BY <1>1, <1>2, <2>1, <3>1, ShorterSuffix
  <2>3. IsSuffix(Tail(w), h)
    BY <1>1, <2>2, TailSuffix, SuffixOfSuffix
  <2> QED
    BY <1>1, <1>4, <2>3 DEF HostnameMatchesWildcard
<1> QED
  BY <1>3, <1>4

-----------------------------------------------------------------------------
(* One hostname of a route at one listener.                                *)

\* The names that a computed hostname or that of a listener stands for.
Meaning(h) == IF h = <<Star>> THEN Names ELSE Matches(h)

LEMMA HostForSound ==
  ASSUME NEW h \in Hostnames, NEW l \in Hosts, NEW x \in HostFor(h, l)
  PROVE  /\ x \in Hostnames
         /\ Matches(x) \subseteq Matches(h)
         /\ Matches(x) \subseteq Meaning(l)
<1>1. /\ h \in Hosts /\ h # <<Star>> /\ IsWildcard(<<Star>>)
      /\ l \in Hostnames \/ l = <<Star>>
      /\ \A y : Matches(y) \subseteq Names
  BY HostsTyped, HostnamesAssumption DEF Hosts, Matches
<1>2. CASE l = h
  BY <1>1, <1>2 DEF HostFor, Meaning
<1>3. CASE l # h /\ IsWildcard(l)
  <2>1. x = h /\ HostnameMatchesWildcard(h, l)
    BY <1>3 DEF HostFor
  <2> QED
    BY <1>1, <1>3, <2>1, MatchesWithin DEF Meaning
<1>4. CASE l # h /\ ~IsWildcard(l)
  <2>1. x = l /\ IsWildcard(h) /\ HostnameMatchesWildcard(l, h)
    BY <1>4 DEF HostFor
  <2>2. l \in Hostnames /\ l # <<Star>>
    BY <1>1, <1>4
  <2> QED
    BY <1>1, <2>1, <2>2, MatchesWithin DEF Meaning
<1> QED
  BY <1>2, <1>3, <1>4

LEMMA HostForExact ==
  ASSUME NEW h \in Hostnames, NEW l \in Hosts, ~Narrower(l, h),
         NEW n \in Matches(h) \cap Meaning(l)
  PROVE  \E x \in HostFor(h, l) : n \in Matches(x)
<1>1. /\ h \in Hosts /\ h \in Seq(STRING) /\ h # <<>> /\ l \in Seq(STRING)
      /\ Len(h) \in Nat /\ Len(l) \in Nat
  BY HostsTyped, LenProperties DEF Hosts
<1>2. CASE l = h
  BY <1>2 DEF HostFor
<1>3. CASE l # h /\ IsWildcard(l)
  <2>1. CASE l = <<Star>>
    <3>1. HostnameMatchesWildcard(h, <<Star>>)
      BY <1>1, HostsTyped DEF HostnameMatchesWildcard
    <3> QED
      BY <1>3, <2>1, <3>1 DEF HostFor
  <2>2. CASE l # <<Star>>
    <3>1. n \in Matches(h) \cap Matches(l)
      BY <2>2 DEF Meaning
    <3>2. IsWildcard(h) => Len(l) <= Len(h)
      BY <1>1, <1>3 DEF Narrower
    <3>3. HostnameMatchesWildcard(h, l)
      BY <1>1, <1>3, <3>1, <3>2, CommonMatches
    <3> QED
      BY <1>3, <3>3 DEF HostFor
  <2> QED
    BY <2>1, <2>2
<1>4. CASE l # h /\ ~IsWildcard(l)
  <2>1. n \in Matches(l) /\ n = l
    BY <1>4, HostsTyped DEF Meaning, Matches
  <2>2. IsWildcard(h)
    BY <1>4, <2>1 DEF Matches
  <2>3. HostnameMatchesWildcard(l, h)
    BY <1>1, <1>4, <2>1, <2>2, CommonMatches
  <2> QED
    BY <1>4, <2>1, <2>2, <2>3 DEF HostFor
<1> QED
  BY <1>2, <1>3, <1>4

-----------------------------------------------------------------------------
(* All hostnames of a route at the listeners of a Gateway.                 *)

\* Listeners and hostnames are valid or the empty Gateway of the other worlds,
\* and a verdict stays what the check of the hostnames has led to.
AttachmentInv ==
  /\ \A i \in DOMAIN listeners : listeners[i].host \in Hosts
  /\ hostnames \subseteq Hostnames \cup {Invalid}
  /\ verdict = "allowed" => GatewayAllowsHostnames

LEMMA AttachmentInvInit == RulesInit => AttachmentInv
<1>1. ASSUME Init
      PROVE  AttachmentInv
  <2>1. PICK n \in 1..MaxListeners : listeners \in [1..n -> Listeners]
    BY <1>1 DEF Init
  <2>2. \A i \in DOMAIN listeners : listeners[i].host \in Hosts
    BY <2>1 DEF Listeners, Hosts
  <2> QED
    BY <1>1, <2>2 DEF Init, AttachmentInv
<1>2. ASSUME AttachmentRests
      PROVE  AttachmentInv
  BY <1>2 DEF AttachmentRests, AttachmentInv
<1> QED
  BY <1>1, <1>2 DEF RulesInit

LEMMA AttachmentInvStep == AttachmentInv /\ [RulesNext]_allVars => AttachmentInv'
<1> SUFFICES ASSUME AttachmentInv, [RulesNext]_allVars
             PROVE  AttachmentInv'
  OBVIOUS
<1>1. CASE Next
  <2>1. UNCHANGED <<listeners, hostnames>> /\ verdict' = GatewayAllowsHTTPRoute
    BY <1>1 DEF Next, Decide
  <2>2. verdict' = "allowed" => GatewayAllowsHostnames
    BY <2>1 DEF GatewayAllowsHTTPRoute
  <2> QED
    BY <2>1, <2>2 DEF AttachmentInv, GatewayAllowsHostnames, ComputeHosts
<1>2. CASE UNCHANGED vars
  BY <1>2 DEF vars, AttachmentInv, GatewayAllowsHostnames, ComputeHosts
<1> QED
  BY <1>1, <1>2 DEF RulesNext, allVars

\* What GatewayAllowsHTTPRoute decides stays tied to the hostnames that it decided by.
LEMMA AttachmentInvHolds == RulesSpec => []AttachmentInv
BY AttachmentInvInit, AttachmentInvStep, PTL DEF RulesSpec

LEMMA ComputedIsSound ==
  ASSUME AttachmentInv, NEW l \in Hosts
  PROVE  Computed(l) \subseteq Common(l)
<1>1. CASE hostnames = {}
  <2>1. Computed(l) = Meaning(l)
    BY <1>1 DEF Computed, ComputeHosts, Meaning
  <2>2. Common(l) = Meaning(l) \cap Names
    BY <1>1 DEF Common, RouteNames, Meaning
  <2>3. Meaning(l) \subseteq Names
    BY DEF Meaning, Matches
  <2> QED
    BY <2>1, <2>2, <2>3
<1>2. CASE hostnames # {}
  <2> SUFFICES ASSUME NEW n \in Computed(l)
               PROVE  n \in Common(l)
    OBVIOUS
  <2>1. PICK x \in ComputeHosts(hostnames, l) : n \in Meaning(x)
    BY DEF Computed, Meaning
  <2>2. PICK h \in hostnames \ {Invalid} : x \in HostFor(h, l)
    BY <1>2, <2>1 DEF ComputeHosts
  <2>3. h \in Hostnames
    BY <2>2 DEF AttachmentInv
  <2>4. n \in Matches(h) /\ n \in Meaning(l)
    BY <2>1, <2>2, <2>3, HostForSound, HostnamesAssumption DEF Meaning
  <2> QED
    BY <1>2, <2>2, <2>4 DEF Common, RouteNames, Meaning
<1> QED
  BY <1>1, <1>2

LEMMA ComputedIsExact ==
  ASSUME AttachmentInv, NEW l \in Hosts, \A h \in hostnames : ~Narrower(l, h)
  PROVE  Common(l) \subseteq Computed(l)
<1>1. CASE hostnames = {}
  BY <1>1 DEF Computed, Common, RouteNames, ComputeHosts
<1>2. CASE hostnames # {}
  <2> SUFFICES ASSUME NEW n \in Common(l)
               PROVE  n \in Computed(l)
    OBVIOUS
  <2>1. PICK h \in hostnames \ {Invalid} : n \in Matches(h)
    BY <1>2 DEF Common, RouteNames
  <2>2. h \in Hostnames /\ n \in Meaning(l)
    BY <2>1 DEF AttachmentInv, Common, Meaning
  <2>3. PICK x \in HostFor(h, l) : n \in Matches(x)
    BY <2>1, <2>2, HostForExact
  <2>4. x \in Hostnames /\ x \in ComputeHosts(hostnames, l)
    BY <1>2, <2>1, <2>2, <2>3, HostForSound DEF ComputeHosts
  <2> QED
    BY <2>3, <2>4, HostnamesAssumption DEF Computed
<1> QED
  BY <1>1, <1>2

\* ComputeHosts gives a route no name that is not the listener's and its own, for
\* every universe of names.
THEOREM HostsSoundHolds == RulesSpec => []HostsSound
<1>1. AttachmentInv => HostsSound
  BY ComputedIsSound DEF HostsSound, AttachmentInv
<1> QED
  BY <1>1, AttachmentInvHolds, PTL

\* It gives the route all of these names, where the listener's wildcard is not the
\* narrower of two.
THEOREM HostsExactHolds == RulesSpec => []HostsExact
<1>1. AttachmentInv => HostsExact
  BY ComputedIsSound, ComputedIsExact DEF HostsExact, AttachmentInv
<1> QED
  BY <1>1, AttachmentInvHolds, PTL

\* A route that GatewayAllowsHTTPRoute allows has only valid hostnames and some name
\* in common with some listener.
THEOREM AllowedIsReachableHolds == RulesSpec => []AllowedIsReachable
<1>1. ASSUME AttachmentInv, verdict = "allowed"
      PROVE  /\ Invalid \notin hostnames
             /\ \E i \in DOMAIN listeners : Common(listeners[i].host) # {}
  <2>1. Invalid \notin hostnames
    BY <1>1 DEF AttachmentInv, GatewayAllowsHostnames
  <2>2. PICK i \in DOMAIN listeners : ComputeHosts(hostnames, listeners[i].host) # {}
    BY <1>1 DEF AttachmentInv, GatewayAllowsHostnames
  <2> DEFINE l == listeners[i].host
  <2>3. l \in Hosts /\ ComputeHosts(hostnames, l) # {}
    BY <1>1, <2>2 DEF AttachmentInv
  <2> HIDE DEF l
  <2>4. PICK x \in ComputeHosts(hostnames, l) : TRUE
    BY <2>3
  <2>5. x \in Hosts
    <3>1. CASE hostnames = {}
      BY <2>3, <2>4, <3>1 DEF ComputeHosts
    <3>2. CASE hostnames # {}
      <4>1. PICK h \in hostnames \ {Invalid} : x \in HostFor(h, l)
        BY <2>4, <3>2 DEF ComputeHosts
      <4> QED
        BY <1>1, <2>3, <4>1, HostForSound DEF AttachmentInv, Hosts
    <3> QED
      BY <3>1, <3>2
  <2>6. Meaning(x) # {}
    BY <2>5, HostnamesAssumption, NamesAssumption DEF Hosts, Meaning
  <2>7. Computed(l) # {}
    BY <2>4, <2>6 DEF Computed, Meaning
  <2>8. Common(l) # {}
    BY <1>1, <2>3, <2>7, ComputedIsSound
  <2> QED
    BY <2>1, <2>2, <2>8 DEF l
<1>2. AttachmentInv => AllowedIsReachable
  BY <1>1 DEF AllowedIsReachable
<1> QED
  BY <1>2, AttachmentInvHolds, PTL

-----------------------------------------------------------------------------
(* References from one namespace to another.                               *)

\* Whatever the grants and the Secrets are, a Gateway uses a certificate of another
\* namespace only if the grants can be read and one of them permits it.
LEMMA CertificateNeedsGrant ==
  ASSUME NEW gwNs, NEW ref, NEW readable_, NEW grants_, NEW secrets,
         TLSProblem(gwNs, <<ref>>, readable_, grants_, secrets) = "none",
         Target(ref, gwNs) # gwNs
  PROVE  /\ IsSecretRef(ref) /\ readable_
         /\ ValidCrossNamespaceRef(grants_,
              [group |-> "gateway", kind |-> "Gateway", ns |-> gwNs],
              [group |-> "", kind |-> "Secret", ns |-> Target(ref, gwNs), name |-> ref.name])
BY DEF TLSProblem

\* A route uses a backend of another namespace only if one of the grants permits it,
\* or they cannot be read.
LEMMA BackendNeedsGrant ==
  ASSUME NEW routeKind, NEW routeNs, NEW ref, NEW readable_, NEW grants_,
         BackendProblem(ref, routeKind, routeNs, readable_, grants_) = "none",
         Target(ref, routeNs) # routeNs
  PROVE  \/ ~readable_
         \/ ValidCrossNamespaceRef(grants_,
              [group |-> "gateway", kind |-> routeKind, ns |-> routeNs],
              [group |-> "", kind |-> "Service", ns |-> Target(ref, routeNs), name |-> ref.name])
BY DEF BackendProblem

\* What has been found of the reference is what the checks say.
ReferenceInv ==
  about = "reference" =>
     /\ reference \in AllReferences
     /\ grants \subseteq AllGrants
     /\ problem = "none" =>
          IF reference.kind = "Secret"
          THEN TLSProblem("apps", <<reference>>, readable, grants, Secrets) = "none"
          ELSE BackendProblem(reference, "HTTPRoute", "apps", readable, grants) = "none"

\* The verdict on a reference is that of the checks of its kind, with the grants of then.
LEMMA ReferenceInvHolds == RulesSpec => []ReferenceInv
<1>1. RulesInit => ReferenceInv
  BY DEF RulesInit, ReferenceInit, ReferenceInv
<1>2. ReferenceInv /\ [RulesNext]_allVars => ReferenceInv'
  <2> SUFFICES ASSUME ReferenceInv, [RulesNext]_allVars
               PROVE  ReferenceInv'
    OBVIOUS
  <2>1. CASE about = "reference" /\ UNCHANGED about /\ TryReference
    BY <2>1 DEF TryReference, ReferenceInv
  <2>2. CASE UNCHANGED <<about, referenceVars>>
    BY <2>2 DEF referenceVars, ReferenceInv
  <2> QED
    BY <2>1, <2>2 DEF RulesNext, allVars
<1> QED
  BY <1>1, <1>2, PTL DEF RulesSpec

\* A grant that permits the reference to "certs" is one that names it.
LEMMA GrantedIfValid ==
  ASSUME grants \subseteq AllGrants, NEW kind, NEW to,
         to.group = "", to.kind = reference.kind, to.ns = "certs", to.name = reference.name,
         ValidCrossNamespaceRef(grants, From(kind, "apps"), to)
  PROVE  Granted(kind)
<1>1. PICK g \in grants :
         /\ g.ns = "certs"
         /\ From(kind, "apps") \in g.from
         /\ \E t \in g.to : t.group = "" /\ t.kind = to.kind /\ t.name \in Naming(to)
  BY DEF ValidCrossNamespaceRef
<1>2. PICK t \in g.to : t.kind = reference.kind /\ t.name \in Naming(reference)
  BY <1>1 DEF Naming
<1>3. t = To(t.kind, t.name)
  <2>1. g \in AllGrants
    BY <1>1
  <2>2. g.to \in {{To("Secret", "site"), To("Service", "other")}, {To("Service", Unset)},
                  {To("Secret", "")}, {To("Secret", "other")}}
    BY <2>1 DEF AllGrants
  <2>3. t \in {To("Secret", "site"), To("Service", "other"), To("Service", Unset),
               To("Secret", ""), To("Secret", "other")}
    BY <1>2, <2>2
  <2>4. PICK k, name : t = To(k, name)
    BY <2>3
  <2>5. t.kind = k /\ t.name = name
    BY <2>4 DEF To
  <2> QED
    BY <2>4, <2>5
<1>4. \E name \in Naming(reference) : t = To(reference.kind, name)
  BY <1>2, <1>3
<1> QED
  BY <1>1, <1>2, <1>4 DEF Granted

\* A reference from "apps" to an object of "certs" that is in order has a grant that
\* names both sides, or is one of a route whose grants cannot be read.
THEOREM OwnersConsentHolds == RulesSpec => []OwnersConsent
<1>1. ASSUME ReferenceInv, about = "reference", problem = "none", reference.ns = "certs"
      PROVE  IF reference.kind = "Secret" THEN Granted("Gateway")
             ELSE ~readable \/ Granted("HTTPRoute")
  <2> DEFINE to == [group |-> "", kind |-> reference.kind, ns |-> "certs",
                    name |-> reference.name]
  <2>1. Target(reference, "apps") = "certs" /\ "certs" # "apps"
    BY <1>1, UnsetAssumption DEF Target
  <2>2. grants \subseteq AllGrants
    BY <1>1 DEF ReferenceInv
  <2>3. /\ to.group = "" /\ to.kind = reference.kind
        /\ to.ns = "certs" /\ to.name = reference.name
    OBVIOUS
  <2>4. CASE reference.kind = "Secret"
    <3>1. ValidCrossNamespaceRef(grants, From("Gateway", "apps"), to)
      BY <1>1, <2>1, <2>4, CertificateNeedsGrant DEF ReferenceInv, From
    <3> HIDE DEF to
    <3>2. Granted("Gateway")
      BY <2>2, <2>3, <3>1, GrantedIfValid
    <3> QED
      BY <2>4, <3>2
  <2>5. CASE reference.kind # "Secret" /\ readable
    <3>1. reference.kind = "Service"
      BY <1>1, <2>5 DEF ReferenceInv, AllReferences
    <3>2. ValidCrossNamespaceRef(grants, From("HTTPRoute", "apps"), to)
      BY <1>1, <2>1, <2>5, <3>1, BackendNeedsGrant DEF ReferenceInv, From
    <3> HIDE DEF to
    <3>3. Granted("HTTPRoute")
      BY <2>2, <2>3, <3>2, GrantedIfValid
    <3> QED
      BY <2>5, <3>3
  <2> QED
    BY <2>4, <2>5
<1>2. ReferenceInv => OwnersConsent
  BY <1>1 DEF OwnersConsent
<1> QED
  BY <1>2, ReferenceInvHolds, PTL

-----------------------------------------------------------------------------
(* The walk over a routing table.                                          *)

\* The first of the default routes that have been looked at, and the one whose
\* interface the walk has found: the best of those if there is at most one other.
First(f) == f \in Defaults /\ \A k \in Defaults : f <= k
OneOther(f) == \A a, b \in Defaults \ {f} : a = b
Found(f, i) ==
  /\ i \in Defaults
  /\ best = [index |-> table[i].index, metric |-> table[f].metric]
  /\ table[i].metric <= table[f].metric
  /\ OneOther(f) => NoWorse(i, Defaults)

WalkInv ==
  /\ table \in Seq(RouteEntries)
  /\ walked \in 0..Len(table)
  /\ (\A i \in Defaults : table[i].index # 0) =>
        \/ Defaults = {} /\ best.index = 0
        \/ \E f, i \in Defaults : First(f) /\ Found(f, i)

LEMMA WalkInvInit == RulesInit => WalkInv
<1> SUFFICES ASSUME RulesInit
             PROVE  WalkInv
  OBVIOUS
<1>1. walked = 0 /\ best.index = 0
  BY DEF RulesInit, RoutingInit, RoutingRests, None
<1>2. table \in Seq(RouteEntries)
  <2>1. CASE RoutingInit
    <3>1. PICK m \in 0..MaxRoutes : table \in [1..m -> RouteEntries]
      BY <2>1 DEF RoutingInit, BoundedSeq, SeqOf
    <3>2. m \in Nat
      BY RoutingAssumption
    <3> QED
      BY <3>1, <3>2, SeqDef
  <2>2. CASE RoutingRests
    BY <2>2, EmptySeq DEF RoutingRests
  <2> QED
    BY <2>1, <2>2 DEF RulesInit
<1>3. Defaults = {}
  BY <1>1 DEF Defaults
<1>4. walked \in 0..Len(table)
  BY <1>1, <1>2, LenProperties
<1> QED
  BY <1>1, <1>2, <1>3, <1>4 DEF WalkInv

LEMMA WalkInvWalk ==
  ASSUME WalkInv, Walk
  PROVE  WalkInv'
<1>0. PICK d, r : d = walked + 1 /\ r = table[d]
  OBVIOUS
<1>1. /\ table \in Seq(RouteEntries) /\ table' = table
      /\ walked \in Nat /\ Len(table) \in Nat /\ walked < Len(table)
      /\ walked' = d /\ best' = Prefer(r)
  BY <1>0, LenProperties DEF WalkInv, Walk
<1>2. d \in 1..Len(table) /\ d \in Nat /\ d \notin Defaults
  BY <1>0, <1>1 DEF Defaults
<1>3. /\ r \in RouteEntries
      /\ \A k \in Defaults : k \in 1..Len(table) /\ k < d /\ table[k] \in RouteEntries
  BY <1>0, <1>1, <1>2, ElementOfSeq DEF Defaults
<1>4. Defaults' = IF r.default THEN Defaults \cup {d} ELSE Defaults
  BY <1>0, <1>1, <1>2 DEF Defaults
<1>5. /\ r.metric \in Nat /\ r.default \in BOOLEAN
      /\ \A k \in Defaults : table[k].metric \in Nat
  BY <1>3, RoutingAssumption DEF RouteEntries
<1>6. ASSUME \A k \in Defaults' : table[k].index # 0
      PROVE  \/ Defaults' = {} /\ best'.index = 0
             \/ \E f, i \in Defaults' : First(f)' /\ Found(f, i)'
  <2>1. \/ Defaults = {} /\ best.index = 0
        \/ \E f, i \in Defaults : First(f) /\ Found(f, i)
    BY <1>4, <1>6 DEF WalkInv
  <2>2. CASE ~r.default
    <3>1. best' = best /\ Defaults' = Defaults
      BY <1>1, <1>4, <2>2 DEF Prefer
    <3> QED
      BY <1>1, <2>1, <3>1 DEF First, Found, OneOther, NoWorse
  <2>3. CASE r.default /\ Defaults = {}
    <3>1. best' = [index |-> r.index, metric |-> r.metric] /\ Defaults' = {d}
      BY <1>1, <1>4, <2>1, <2>3 DEF Prefer
    <3>2. First(d)' /\ Found(d, d)'
      BY <1>0, <1>1, <1>2, <1>5, <3>1 DEF First, Found, OneOther, NoWorse
    <3> QED
      BY <3>1, <3>2
  <2>4. CASE r.default /\ Defaults # {}
    <3>1. PICK f \in Defaults, i \in Defaults : First(f) /\ Found(f, i)
      BY <2>1, <2>4
    <3>2. Defaults' = Defaults \cup {d} /\ f # d
      BY <1>2, <1>4, <2>4
    <3>3. First(f)'
      <4>1. \A k \in Defaults' : f <= k
        BY <1>1, <1>2, <1>3, <3>1, <3>2 DEF First
      <4> QED
        BY <3>2, <4>1 DEF First
    <3>4. ASSUME OneOther(f)'
          PROVE  Defaults = {f}
      BY <1>2, <3>2, <3>4 DEF OneOther
    <3>5. best.index # 0 /\ best.metric = table[f].metric
      BY <1>4, <1>6, <2>4, <3>1 DEF Found
    <3>6. CASE r.metric < table[f].metric
      <4>1. best' = [index |-> r.index, metric |-> table[f].metric]
        BY <1>1, <2>4, <3>1, <3>5, <3>6 DEF Prefer, Found
      <4>2. table[d].metric <= table[f].metric
        BY <1>0, <1>5, <3>6
      <4>3. OneOther(f)' => \A j \in Defaults' : table[d].metric <= table[j].metric
        BY <1>0, <1>5, <3>2, <3>4, <4>2
      <4>4. Found(f, d)'
        BY <1>0, <1>1, <3>2, <4>1, <4>2, <4>3 DEF Found, NoWorse
      <4> QED
        BY <3>2, <3>3, <4>4
    <3>7. CASE ~(r.metric < table[f].metric)
      <4>1. best' = best
        BY <1>1, <2>4, <3>5, <3>7 DEF Prefer
      <4>2. OneOther(f)' => \A j \in Defaults' : table[i].metric <= table[j].metric
        <5>1. table[f].metric <= table[d].metric /\ table[i].metric <= table[f].metric
          BY <1>0, <1>5, <3>1, <3>7 DEF Found
        <5>2. table[d].metric \in Nat
          BY <1>0, <1>5
        <5> QED
          BY <1>5, <3>1, <3>2, <3>4, <5>1, <5>2
      <4>3. Found(f, i)'
        BY <1>1, <3>1, <3>2, <4>1, <4>2 DEF Found, NoWorse
      <4> QED
        BY <3>2, <3>3, <4>3
    <3> QED
      BY <3>6, <3>7
  <2> QED
    BY <1>5, <2>2, <2>3, <2>4
<1>7. walked' \in 0..Len(table)'
  BY <1>0, <1>1
<1> QED
  BY <1>1, <1>6, <1>7 DEF WalkInv

\* DefaultInterface has, after each turn of its loop, a route that is no worse than
\* the first default one, and compares others with the first one's metric.
LEMMA WalkInvHolds == RulesSpec => []WalkInv
<1>1. WalkInv /\ [RulesNext]_allVars => WalkInv'
  <2> SUFFICES ASSUME WalkInv, [RulesNext]_allVars
               PROVE  WalkInv'
    OBVIOUS
  <2>1. CASE Walk
    BY <2>1, WalkInvWalk
  <2>2. CASE UNCHANGED routingVars
    BY <2>2 DEF routingVars, WalkInv, Defaults, First, Found, OneOther, NoWorse
  <2> QED
    BY <2>1, <2>2 DEF RulesNext, allVars
<1> QED
  BY <1>1, WalkInvInit, PTL DEF RulesSpec

\* Of at most two default routes at most one is another than a given one.
LEMMA TwoDefaults ==
  ASSUME WalkInv, NEW f \in Defaults, Cardinality(Defaults) <= 2
  PROVE  OneOther(f)
<1>1. IsFiniteSet(Defaults)
  <2>1. Defaults \subseteq 1..walked /\ walked \in Int
    BY LenProperties DEF Defaults, WalkInv
  <2>2. IsFiniteSet(1..walked)
    BY <2>1, FS_Interval
  <2> QED
    BY <2>1, <2>2, FS_Subset
<1> SUFFICES ASSUME NEW a \in Defaults \ {f}, NEW b \in Defaults \ {f}, a # b
             PROVE  FALSE
  BY DEF OneOther
<1>2. IsFiniteSet({f}) /\ Cardinality({f}) = 1
  BY FS_Singleton
<1>3. IsFiniteSet({f} \cup {a}) /\ Cardinality({f} \cup {a}) = 2
  BY <1>2, FS_AddElement
<1>4. Cardinality(({f} \cup {a}) \cup {b}) = 3
  <2>1. b \notin {f} \cup {a}
    OBVIOUS
  <2> QED
    BY <1>3, <2>1, FS_AddElement
<1>5. ({f} \cup {a}) \cup {b} \subseteq Defaults
  OBVIOUS
<1>6. Cardinality(({f} \cup {a}) \cup {b}) <= Cardinality(Defaults)
  BY <1>1, <1>5, FS_Subset
<1> QED
  BY <1>1, <1>4, <1>6, FS_CardinalityType

\* At every turn of DefaultInterface's loop, for tables of any length: the interface
\* that has been found is that of a default route that is no worse than the first,
\* and the best if there are two.
THEOREM DefaultIsGoodHolds == RulesSpec => []DefaultIsGood
<1>1. ASSUME WalkInv, \A i \in Defaults : table[i].index # 0, Defaults # {}
      PROVE  \E i \in Defaults :
                /\ table[i].index = best.index
                /\ NoWorse(i, IF Cardinality(Defaults) <= 2 THEN Defaults
                              ELSE {CHOOSE j \in Defaults : \A k \in Defaults : j <= k})
  <2>1. PICK f \in Defaults, i \in Defaults : First(f) /\ Found(f, i)
    BY <1>1 DEF WalkInv
  <2>2. table[i].index = best.index
    BY <2>1 DEF Found
  <2>3. CASE Cardinality(Defaults) <= 2
    <3>1. NoWorse(i, Defaults)
      BY <1>1, <2>1, <2>3, TwoDefaults DEF Found
    <3> QED
      BY <2>2, <2>3, <3>1
  <2>4. CASE ~(Cardinality(Defaults) <= 2)
    <3> DEFINE c == CHOOSE j \in Defaults : \A k \in Defaults : j <= k
    <3>1. c \in Defaults /\ \A k \in Defaults : c <= k
      BY <2>1 DEF First
    <3> HIDE DEF c
    <3>2. c = f
      <4>1. c \in Nat /\ f \in Nat
        BY <2>1, <3>1 DEF Defaults
      <4>2. c <= f /\ f <= c
        BY <2>1, <3>1 DEF First
      <4> QED
        BY <4>1, <4>2
    <3>3. NoWorse(i, {c})
      BY <2>1, <3>2 DEF NoWorse, Found
    <3> QED
      BY <2>2, <2>4, <3>3 DEF c
  <2> QED
    BY <2>3, <2>4
<1>2. WalkInv => DefaultIsGood
  BY <1>1 DEF DefaultIsGood, WalkInv
<1> QED
  BY <1>2, WalkInvHolds, PTL
=============================================================================
