--------------------------- MODULE RouteStatus_proofs ---------------------------
(***************************************************************************)
(* Proofs about RouteStatus, for any Gateways, any number of parentRefs    *)
(* and edits: our entries stay one for each Gateway, and other             *)
(* controllers' are kept.                                                  *)
(*                                                                         *)
(* Both are about what a loop keeps of a sequence of any length, which     *)
(* takes induction.  It is stated for sets, as the provers have no use for *)
(* an induction rule with an operator as its parameter, and comes from the *)
(* fact that < is well-founded.                                            *)
(***************************************************************************)
EXTENDS MCRules, SequenceTheorems, WellFoundedInduction, TLAPS

-----------------------------------------------------------------------------
(* Induction.                                                              *)

LEMMA SetInduction ==
  ASSUME NEW T, 0 \in T, \A n \in Nat : n \in T => n + 1 \in T
  PROVE  Nat \subseteq T
<1> DEFINE F == {n \in Nat : n \notin T}
           less == OpToRel(<, Nat)
<1> SUFFICES ASSUME F # {}
             PROVE  FALSE
  OBVIOUS
<1>1. PICK m \in F : \A k \in F : <<k, m>> \notin less
  <2>1. IsWellFoundedOn(less, Nat)
    BY NatLessThanWellFounded
  <2>2. F \subseteq Nat
    OBVIOUS
  <2> HIDE DEF F, less
  <2> QED
    BY <2>1, <2>2, WFMin
<1>2. m \in Nat /\ m # 0
  OBVIOUS
<1>3. m - 1 \in Nat /\ m - 1 \notin F
  <2>1. m - 1 \in Nat /\ m - 1 < m
    BY <1>2
  <2>2. \A k \in Nat : k < m => <<k, m>> \in less
    BY <1>2 DEF OpToRel
  <2> HIDE DEF F, less
  <2> QED
    BY <1>1, <2>1, <2>2
<1>4. (m - 1) + 1 = m
  BY <1>2
<1>5. (m - 1) + 1 \in T
  BY <1>3
<1> QED
  BY <1>4, <1>5

LEMMA SeqInduction ==
  ASSUME NEW S, NEW T, <<>> \in T,
         \A s \in Seq(S), e \in S : s \in T => Append(s, e) \in T
  PROVE  Seq(S) \subseteq T
<1> DEFINE A == {n \in Nat : \A s \in Seq(S) : Len(s) = n => s \in T}
<1>1. 0 \in A
  BY EmptySeq
<1>2. ASSUME NEW n \in Nat, n \in A
      PROVE  n + 1 \in A
  <2> SUFFICES ASSUME NEW s \in Seq(S), Len(s) = n + 1
               PROVE  s \in T
    OBVIOUS
  <2>1. s # <<>>
    BY EmptySeq
  <2>2. PICK r \in Seq(S), e \in S : s = Append(r, e)
    BY <2>1, SequenceEmptyOrAppend
  <2>3. Len(r) \in Nat /\ Len(s) = Len(r) + 1
    BY <2>2, AppendProperties, LenProperties
  <2>4. r \in T
    BY <1>2, <2>3
  <2> QED
    BY <2>2, <2>4
<1> HIDE DEF A
<1>3. Nat \subseteq A
  BY <1>1, <1>2, SetInduction
<1> QED
  BY <1>3, LenProperties DEF A

-----------------------------------------------------------------------------
(* What is kept of a sequence.                                             *)

\* f has what is kept of the first elements of s, up to n.
Copies(f, s, T, n) ==
  /\ f = [i \in 0..n |-> f[i]]
  /\ f[0] = <<>>
  /\ \A i \in 1..n : f[i] = IF s[i] \in T THEN Append(f[i - 1], s[i]) ELSE f[i - 1]

LEMMA CopiesAgree ==
  ASSUME NEW T, NEW s, NEW r, NEW n \in Nat, NEW m \in Nat, NEW f, NEW g,
         Copies(f, s, T, n), Copies(g, r, T, m), n <= m,
         \A i \in 1..n : s[i] = r[i]
  PROVE  f[n] = g[n]
<1> DEFINE A == {k \in Nat : k <= n => f[k] = g[k]}
<1>1. 0 \in A
  BY DEF Copies
<1>2. ASSUME NEW k \in Nat, k \in A
      PROVE  k + 1 \in A
  <2> SUFFICES ASSUME k + 1 <= n
               PROVE  f[k + 1] = g[k + 1]
    OBVIOUS
  <2> DEFINE j == k + 1
  <2>1. j \in 1..n /\ j \in 1..m /\ j - 1 = k
    OBVIOUS
  <2>2. f[j - 1] = g[j - 1] /\ s[j] = r[j]
    BY <1>2, <2>1
  <2> HIDE DEF j
  <2>3. f[j] = g[j]
    BY <2>1, <2>2 DEF Copies
  <2> QED
    BY <2>3 DEF j
<1> HIDE DEF A
<1>3. n \in A
  BY <1>1, <1>2, SetInduction
<1> QED
  BY <1>3 DEF A

LEMMA CopiesExist ==
  ASSUME NEW S, NEW s \in Seq(S), NEW T
  PROVE  \E f \in [0..Len(s) -> Seq(S)] : Copies(f, s, T, Len(s))
<1> DEFINE A == {n \in Nat : n <= Len(s) => \E f \in [0..n -> Seq(S)] : Copies(f, s, T, n)}
<1>1. 0 \in A
  <2> DEFINE f == [i \in 0..0 |-> <<>>]
  <2>1. f \in [0..0 -> Seq(S)]
    BY EmptySeq
  <2>2. Copies(f, s, T, 0)
    BY DEF Copies
  <2> HIDE DEF f
  <2> QED
    BY <2>1, <2>2
<1>2. ASSUME NEW n \in Nat, n \in A
      PROVE  n + 1 \in A
  <2> DEFINE m == n + 1
  <2> SUFFICES ASSUME m <= Len(s)
               PROVE  \E f \in [0..m -> Seq(S)] : Copies(f, s, T, m)
    OBVIOUS
  <2>1. Len(s) \in Nat /\ m \in 1..Len(s) /\ m - 1 = n
    BY LenProperties
  <2>2. PICK f \in [0..n -> Seq(S)] : Copies(f, s, T, n)
    BY <1>2, <2>1
  <2> DEFINE last == IF s[m] \in T THEN Append(f[n], s[m]) ELSE f[n]
             g == [i \in 0..m |-> IF i = m THEN last ELSE f[i]]
  <2>3. last \in Seq(S)
    <3>1. s[m] \in S /\ f[n] \in Seq(S)
      BY <2>1, ElementOfSeq
    <3> HIDE DEF m
    <3> QED
      BY <3>1, AppendProperties
  <2>4. \A i \in 0..m : i # m => i \in 0..n
    OBVIOUS
  <2>5. g \in [0..m -> Seq(S)]
    <3> HIDE DEF last, m
    <3> QED
      BY <2>3, <2>4
  <2>6. Copies(g, s, T, m)
    <3>1. g[0] = <<>>
      BY <2>2 DEF Copies
    <3>2. ASSUME NEW i \in 1..m
          PROVE  g[i] = IF s[i] \in T THEN Append(g[i - 1], s[i]) ELSE g[i - 1]
      <4>1. i - 1 \in 0..n /\ i - 1 # m /\ i - 1 \in 0..m /\ i \in 0..m
        OBVIOUS
      <4>2. g[i - 1] = f[i - 1]
        BY <4>1
      <4>3. CASE i = m
        BY <2>1, <4>2, <4>3
      <4>4. CASE i # m
        <5>1. i \in 1..n
          BY <4>4
        <5>2. f[i] = IF s[i] \in T THEN Append(f[i - 1], s[i]) ELSE f[i - 1]
          BY <2>2, <5>1 DEF Copies
        <5>3. g[i] = f[i]
          BY <4>1, <4>4
        <5> QED
          BY <4>2, <5>2, <5>3
      <4> QED
        BY <4>3, <4>4
    <3>3. g = [i \in 0..m |-> g[i]]
      BY <2>5
    <3> HIDE DEF g, m
    <3> QED
      BY <3>1, <3>2, <3>3 DEF Copies
  <2> HIDE DEF g, m
  <2> QED
    BY <2>5, <2>6
<1> HIDE DEF A
<1>3. Len(s) \in A
  BY <1>1, <1>2, SetInduction, LenProperties
<1> QED
  BY <1>3, LenProperties DEF A

LEMMA KeepCopies ==
  ASSUME NEW S, NEW s \in Seq(S), NEW T, NEW f, Copies(f, s, T, Len(s))
  PROVE  Keep(s, T) = f[Len(s)]
<1> DEFINE n == Len(s)
           Loop(h) == [i \in 0..n |-> IF i = 0 THEN <<>>
                                      ELSE IF s[i] \in T THEN Append(h[i - 1], s[i]) ELSE h[i - 1]]
           k == CHOOSE h : h = Loop(h)
<1>1. n \in Nat
  BY LenProperties
<1>2. Keep(s, T) = k[n]
  BY DEF Keep
<1> HIDE DEF n
<1>3. f = Loop(f)
  <2>1. \A i \in 0..n : f[i] = Loop(f)[i]
    <3> SUFFICES ASSUME NEW i \in 0..n
                 PROVE  f[i] = Loop(f)[i]
      OBVIOUS
    <3>1. CASE i = 0
      BY <3>1 DEF Copies, n
    <3>2. CASE i # 0
      <4>1. i \in 1..n
        BY <1>1, <3>2
      <4> QED
        BY <3>2, <4>1 DEF Copies, n
    <3> QED
      BY <3>1, <3>2
  <2>2. f = [i \in 0..n |-> f[i]]
    BY DEF Copies, n
  <2> QED
    BY <2>1, <2>2
<1>4. k = Loop(k)
  <2> HIDE DEF Loop
  <2> QED
    BY <1>3
<1> HIDE DEF k
<1>5. Copies(k, s, T, n)
  <2>1. k = [i \in 0..n |-> k[i]]
    BY <1>4
  <2>2. k[0] = <<>>
    BY <1>1, <1>4
  <2>3. ASSUME NEW i \in 1..n
        PROVE  k[i] = IF s[i] \in T THEN Append(k[i - 1], s[i]) ELSE k[i - 1]
    <3>1. i \in 0..n /\ i # 0
      BY <1>1
    <3> QED
      BY <1>4, <3>1
  <2> QED
    BY <2>1, <2>2, <2>3 DEF Copies
<1>6. k[n] = f[n]
  BY <1>1, <1>5, CopiesAgree DEF n
<1> QED
  BY <1>2, <1>6 DEF n

LEMMA KeepEmpty == \A T : Keep(<<>>, T) = <<>>
<1> SUFFICES ASSUME NEW T
             PROVE  Keep(<<>>, T) = <<>>
  OBVIOUS
<1> DEFINE s == <<>>
<1>1. s \in Seq({}) /\ Len(s) = 0
  BY EmptySeq
<1> HIDE DEF s
<1>2. PICK f : Copies(f, s, T, Len(s))
  BY <1>1, CopiesExist
<1>3. Keep(s, T) = f[Len(s)]
  BY <1>1, <1>2, KeepCopies
<1>4. f[0] = <<>>
  BY <1>2 DEF Copies
<1> QED
  BY <1>1, <1>3, <1>4 DEF s

LEMMA KeepTyped ==
  ASSUME NEW S, NEW s \in Seq(S), NEW T
  PROVE  Keep(s, T) \in Seq(S)
<1>1. PICK f \in [0..Len(s) -> Seq(S)] : Copies(f, s, T, Len(s))
  BY CopiesExist
<1>2. Keep(s, T) = f[Len(s)]
  BY <1>1, KeepCopies
<1> QED
  BY <1>1, <1>2, LenProperties

LEMMA KeepAppend ==
  ASSUME NEW S, NEW s \in Seq(S), NEW e \in S, NEW T
  PROVE  Keep(Append(s, e), T) = IF e \in T THEN Append(Keep(s, T), e) ELSE Keep(s, T)
<1> DEFINE r == Append(s, e)
           n == Len(s)
           m == Len(r)
<1>1. /\ n \in Nat /\ m = n + 1 /\ r \in Seq(S)
      /\ \A i \in 1..n : s[i] = r[i]
      /\ r[m] = e
  BY AppendProperties, LenProperties
<1> HIDE DEF r, n, m
<1>2. PICK f : Copies(f, s, T, n)
  BY CopiesExist DEF n
<1>3. PICK g : Copies(g, r, T, m)
  BY <1>1, CopiesExist DEF m
<1>4. Keep(s, T) = f[n] /\ Keep(r, T) = g[m]
  BY <1>1, <1>2, <1>3, KeepCopies DEF n, m
<1>5. f[n] = g[n]
  <2>1. n <= m /\ m \in Nat
    BY <1>1
  <2> QED
    BY <1>1, <1>2, <1>3, <2>1, CopiesAgree
<1>6. m \in 1..m /\ m - 1 = n
  BY <1>1
<1>7. g[m] = IF r[m] \in T THEN Append(g[m - 1], r[m]) ELSE g[m - 1]
  BY <1>3, <1>6 DEF Copies
<1> QED
  BY <1>1, <1>4, <1>5, <1>6, <1>7 DEF r

\* To keep of what was kept is to keep what is in both.
LEMMA KeepKeep ==
  ASSUME NEW S, NEW s \in Seq(S), NEW T, NEW U \in SUBSET T
  PROVE  Keep(Keep(s, T), U) = Keep(s, U)
<1> DEFINE A == {r \in Seq(S) : Keep(Keep(r, T), U) = Keep(r, U)}
<1>1. <<>> \in A
  BY EmptySeq, KeepEmpty
<1>2. ASSUME NEW r \in Seq(S), NEW e \in S, r \in A
      PROVE  Append(r, e) \in A
  <2>1. Append(r, e) \in Seq(S) /\ Keep(r, T) \in Seq(S)
    BY AppendProperties, KeepTyped
  <2>2. CASE e \in T
    <3>1. Keep(Append(r, e), T) = Append(Keep(r, T), e)
      BY <2>2, KeepAppend
    <3>2. Keep(Append(Keep(r, T), e), U) =
             IF e \in U THEN Append(Keep(Keep(r, T), U), e) ELSE Keep(Keep(r, T), U)
      BY <2>1, KeepAppend
    <3>3. Keep(Append(r, e), U) = IF e \in U THEN Append(Keep(r, U), e) ELSE Keep(r, U)
      BY KeepAppend
    <3> QED
      BY <1>2, <2>1, <3>1, <3>2, <3>3
  <2>3. CASE e \notin T
    <3>1. Keep(Append(r, e), T) = Keep(r, T) /\ Keep(Append(r, e), U) = Keep(r, U)
      BY <2>3, KeepAppend
    <3> QED
      BY <1>2, <2>1, <3>1
  <2> QED
    BY <2>2, <2>3
<1> HIDE DEF A
<1>3. Seq(S) \subseteq A
  BY <1>1, <1>2, SeqInduction
<1> QED
  BY <1>3 DEF A

\* What is not kept may as well not have been in front.
LEMMA KeepCons ==
  ASSUME NEW S, NEW s \in Seq(S), NEW x \in S, NEW U, x \notin U
  PROVE  Keep(<<x>> \o s, U) = Keep(s, U)
<1> DEFINE A == {r \in Seq(S) : Keep(<<x>> \o r, U) = Keep(r, U)}
<1>1. <<x>> \in Seq(S)
  OBVIOUS
<1>2. <<>> \in A
  <2>1. <<>> \in Seq(S) /\ <<x>> \o <<>> = Append(<<>>, x)
    OBVIOUS
  <2>2. Keep(Append(<<>>, x), U) = Keep(<<>>, U)
    BY <2>1, KeepAppend
  <2> QED
    BY <2>1, <2>2
<1>3. ASSUME NEW r \in Seq(S), NEW e \in S, r \in A
      PROVE  Append(r, e) \in A
  <2> DEFINE c == <<x>> \o r
  <2>1. Append(r, e) \in Seq(S) /\ c \in Seq(S)
    BY <1>1, AppendProperties, ConcatProperties
  <2>2. <<x>> \o Append(r, e) = Append(c, e)
    <3> DEFINE y == <<x>>
    <3>1. <<e>> \in Seq(S) /\ y \in Seq(S)
      OBVIOUS
    <3> HIDE DEF y
    <3>2. Append(r, e) = r \o <<e>> /\ Append(y \o r, e) = (y \o r) \o <<e>>
      BY <3>1, AppendIsConcat, ConcatProperties
    <3>3. y \o (r \o <<e>>) = (y \o r) \o <<e>>
      BY <3>1, ConcatAssociative
    <3> QED
      BY <3>2, <3>3 DEF y
  <2>3. Keep(c, U) = Keep(r, U)
    BY <1>3
  <2> HIDE DEF c
  <2>4. c \in Seq(S) /\ r \in Seq(S)
    BY <2>1
  <2>5. Keep(Append(c, e), U) = IF e \in U THEN Append(Keep(c, U), e) ELSE Keep(c, U)
    BY <2>4, KeepAppend
  <2>6. Keep(Append(r, e), U) = IF e \in U THEN Append(Keep(r, U), e) ELSE Keep(r, U)
    BY <2>4, KeepAppend
  <2>7. Keep(Append(c, e), U) = Keep(Append(r, e), U)
    <3>1. CASE e \in U
      <4>1. Keep(Append(c, e), U) = Append(Keep(c, U), e)
        BY <2>5, <3>1, Zenon
      <4>2. Keep(Append(r, e), U) = Append(Keep(r, U), e)
        BY <2>6, <3>1, Zenon
      <4> QED
        BY <2>3, <4>1, <4>2, Zenon
    <3>2. CASE e \notin U
      BY <2>3, <2>5, <2>6, <3>2, Zenon
    <3> QED
      BY <3>1, <3>2
  <2>8. Keep(<<x>> \o Append(r, e), U) = Keep(Append(r, e), U)
    BY <2>2, <2>7, Zenon
  <2> QED
    BY <2>1, <2>8, Zenon
<1> HIDE DEF A
<1>4. Seq(S) \subseteq A
  BY <1>2, <1>3, SeqInduction
<1> QED
  BY <1>4 DEF A

\* What is kept was there, and is in the set.
LEMMA KeepMembers ==
  ASSUME NEW S, NEW s \in Seq(S), NEW T, NEW i \in 1..Len(Keep(s, T))
  PROVE  Keep(s, T)[i] \in T /\ \E j \in 1..Len(s) : Keep(s, T)[i] = s[j]
<1> DEFINE Member(r, k) == Keep(r, T)[k] \in T /\ \E j \in 1..Len(r) : Keep(r, T)[k] = r[j]
           A == {r \in Seq(S) : \A k \in 1..Len(Keep(r, T)) : Member(r, k)}
<1>1. <<>> \in A
  BY EmptySeq, KeepEmpty
<1>2. ASSUME NEW r \in Seq(S), NEW e \in S, r \in A
      PROVE  Append(r, e) \in A
  <2>1. /\ Append(r, e) \in Seq(S) /\ Keep(r, T) \in Seq(S)
        /\ Len(r) \in Nat /\ Len(Append(r, e)) = Len(r) + 1
        /\ \A j \in 1..Len(r) : Append(r, e)[j] = r[j]
        /\ Append(r, e)[Len(r) + 1] = e
    BY AppendProperties, KeepTyped, LenProperties
  <2> SUFFICES ASSUME NEW k \in 1..Len(Keep(Append(r, e), T))
               PROVE  Member(Append(r, e), k)
    BY <2>1
  <2>2. \A j \in 1..Len(r) : j \in 1..Len(Append(r, e)) /\ Append(r, e)[j] = r[j]
    BY <2>1
  <2>3. CASE e \notin T
    <3>1. Keep(Append(r, e), T) = Keep(r, T)
      BY <2>3, KeepAppend
    <3>2. Member(r, k)
      BY <1>2, <3>1
    <3> QED
      BY <2>2, <3>1, <3>2
  <2>4. CASE e \in T
    <3> DEFINE c == Keep(r, T)
    <3>1. Keep(Append(r, e), T) = Append(c, e)
      BY <2>4, KeepAppend
    <3>2. /\ c \in Seq(S) /\ Len(c) \in Nat /\ Len(Append(c, e)) = Len(c) + 1
          /\ \A j \in 1..Len(c) : Append(c, e)[j] = c[j]
          /\ Append(c, e)[Len(c) + 1] = e
      BY <2>1, AppendProperties, LenProperties
    <3>3. CASE k \in 1..Len(c)
      <4>1. Member(r, k)
        BY <1>2, <3>3
      <4> QED
        BY <2>2, <3>1, <3>2, <3>3, <4>1
    <3>4. CASE k \notin 1..Len(c)
      <4>1. k = Len(c) + 1
        <5> HIDE DEF c
        <5> QED
          BY <3>1, <3>2, <3>4
      <4>2. Keep(Append(r, e), T)[k] = e
        BY <3>1, <3>2, <4>1
      <4>3. Len(r) + 1 \in 1..Len(Append(r, e))
        BY <2>1
      <4> QED
        BY <2>1, <2>4, <4>2, <4>3
    <3> QED
      BY <3>3, <3>4
  <2> QED
    BY <2>3, <2>4
<1> HIDE DEF A
<1>3. s \in A
  BY <1>1, <1>2, SeqInduction
<1> QED
  BY <1>3 DEF A

-----------------------------------------------------------------------------
(* The entries of a route's status.                                        *)

\* No two of our entries are for the same Gateway.
Unique(s) ==
  \A i, j \in DOMAIN s :
     s[i].by = "us" /\ s[j].by = "us" /\ s[i].parent = s[j].parent => i = j

LEMMA KeepIsUnique ==
  ASSUME NEW S, NEW s \in Seq(S), NEW T, Unique(s)
  PROVE  Unique(Keep(s, T))
<1> DEFINE A == {r \in Seq(S) : Unique(r) => Unique(Keep(r, T))}
<1>1. <<>> \in A
  BY EmptySeq, KeepEmpty
<1>2. ASSUME NEW r \in Seq(S), NEW e \in S, r \in A
      PROVE  Append(r, e) \in A
  <2> DEFINE c == Keep(r, T)
             n == Len(r)
             m == Len(c)
             q == Append(r, e)
             d == Append(c, e)
  <2>1. c \in Seq(S) /\ \A i \in 1..m : \E j \in 1..n : c[i] = r[j]
    BY KeepTyped, KeepMembers
  <2>2. /\ n \in Nat /\ DOMAIN r = 1..n /\ DOMAIN q = 1..(n + 1) /\ q \in Seq(S)
        /\ q[n + 1] = e /\ \A i \in 1..n : q[i] = r[i]
    BY AppendProperties, LenProperties
  <2> HIDE DEF c
  <2>3. /\ m \in Nat /\ DOMAIN c = 1..m /\ DOMAIN d = 1..(m + 1)
        /\ d[m + 1] = e /\ \A i \in 1..m : d[i] = c[i]
    BY <2>1, AppendProperties, LenProperties
  <2> HIDE DEF n, m, d
  <2> SUFFICES ASSUME Unique(q)
               PROVE  Unique(Keep(q, T))
    BY <2>2
  <2> HIDE DEF q
  <2>4. Unique(r)
    BY <2>2 DEF Unique
  <2>5. Unique(c)
    BY <1>2, <2>4 DEF c
  <2>6. CASE e \notin T
    <3>1. Keep(q, T) = c
      BY <2>6, KeepAppend DEF q, c
    <3> QED
      BY <2>5, <3>1
  <2>7. CASE e \in T
    <3>1. Keep(q, T) = d
      BY <2>7, KeepAppend DEF q, c, d
    <3>2. ASSUME NEW i \in 1..m
          PROVE  ~(c[i].by = "us" /\ e.by = "us" /\ c[i].parent = e.parent)
      <4>1. PICK j \in 1..n : c[i] = r[j]
        BY <2>1, <3>2
      <4>2. q[j] = r[j] /\ q[n + 1] = e /\ j \in DOMAIN q /\ n + 1 \in DOMAIN q /\ j # n + 1
        BY <2>2
      <4> QED
        BY <4>1, <4>2 DEF Unique
    <3>3. ASSUME NEW i \in 1..(m + 1), NEW j \in 1..(m + 1),
                 d[i].by = "us", d[j].by = "us", d[i].parent = d[j].parent
          PROVE  i = j
      <4>1. CASE i \in 1..m /\ j \in 1..m
        BY <2>3, <2>5, <3>3, <4>1 DEF Unique
      <4>2. CASE i \in 1..m /\ j = m + 1
        BY <2>3, <3>2, <3>3, <4>2
      <4>3. CASE i = m + 1 /\ j \in 1..m
        BY <2>3, <3>2, <3>3, <4>3
      <4>4. CASE i = m + 1 /\ j = m + 1
        BY <4>4
      <4> QED
        BY <2>3, <4>1, <4>2, <4>3, <4>4
    <3> QED
      BY <2>3, <3>1, <3>3 DEF Unique
  <2> QED
    BY <2>6, <2>7
<1> HIDE DEF A
<1>3. s \in A
  BY <1>1, <1>2, SeqInduction
<1> QED
  BY <1>3 DEF A

\* Our entries name their parent's namespace, which is how they are found again.
StatusInv ==
  /\ parentRefs \in Seq(Parents)
  /\ generation \in 1..MaxGeneration
  /\ entries \in Seq(Entries)
  /\ \A i \in DOMAIN entries : entries[i].by = "us" => entries[i].named
  /\ Unique(entries)

LEMMA BoundedIsSeq ==
  ASSUME NEW s \in BoundedSeq(Parents, MaxParents)
  PROVE  s \in Seq(Parents)
<1>1. PICK m \in 0..MaxParents : s \in [1..m -> Parents]
  BY DEF BoundedSeq, SeqOf
<1>2. m \in Nat
  BY StatusAssumption
<1> QED
  BY <1>1, <1>2, SeqDef

LEMMA StatusInvInit == RulesInit => StatusInv
<1> SUFFICES ASSUME RulesInit
             PROVE  StatusInv
  OBVIOUS
<1>1. entries = <<>> /\ generation = 1
  BY DEF RulesInit, StatusInit, StatusRests
<1>2. parentRefs \in Seq(Parents)
  BY BoundedIsSeq, EmptySeq DEF RulesInit, StatusInit, StatusRests
<1>3. 1 \in 1..MaxGeneration
  BY StatusAssumption
<1>4. <<>> \in Seq(Entries) /\ DOMAIN <<>> = {}
  BY EmptySeq
<1> QED
  BY <1>1, <1>2, <1>3, <1>4 DEF StatusInv, Unique

\* What is kept of the entries is as they are.
LEMMA KeptEntries ==
  ASSUME StatusInv, NEW T
  PROVE  /\ Keep(entries, T) \in Seq(Entries)
         /\ Unique(Keep(entries, T))
         /\ \A i \in DOMAIN Keep(entries, T) :
               /\ Keep(entries, T)[i] \in T
               /\ Keep(entries, T)[i].by = "us" => Keep(entries, T)[i].named
<1> DEFINE c == Keep(entries, T)
<1>1. entries \in Seq(Entries)
  BY DEF StatusInv
<1>2. c \in Seq(Entries) /\ Unique(c)
  BY <1>1, KeepTyped, KeepIsUnique DEF StatusInv
<1>3. ASSUME NEW i \in DOMAIN c
      PROVE  c[i] \in T /\ (c[i].by = "us" => c[i].named)
  <2>1. i \in 1..Len(c)
    BY <1>2, LenProperties
  <2>2. c[i] \in T /\ \E j \in 1..Len(entries) : c[i] = entries[j]
    BY <1>1, <2>1, KeepMembers
  <2>3. DOMAIN entries = 1..Len(entries)
    BY <1>1, LenProperties
  <2> QED
    BY <2>2, <2>3 DEF StatusInv
<1> QED
  BY <1>2, <1>3

LEMMA LastParent ==
  ASSUME StatusInv, parentRefs # <<>>
  PROVE  Last(parentRefs) \in Parents
<1>1. parentRefs \in Seq(Parents) /\ Len(parentRefs) \in Nat \ {0}
  BY EmptySeq, LenProperties DEF StatusInv
<1>2. Len(parentRefs) \in 1..Len(parentRefs)
  BY <1>1
<1> QED
  BY <1>1, <1>2, ElementOfSeq DEF Last

\* Ours is the first, and the others are those that are not the Gateway's.
LEMMA MarkStep ==
  ASSUME StatusInv, NEW accepted \in BOOLEAN, MarkRouteConditions(accepted)
  PROVE  StatusInv'
<1> DEFINE gw == Last(parentRefs)
           x == [parent |-> gw, named |-> TRUE, by |-> "us", accepted |-> accepted,
                 generation |-> generation]
           T == {e \in Entries : ~IsRefToGateway(e, gw)}
           c == Keep(entries, T)
<1>1. /\ parentRefs # <<>> /\ UNCHANGED <<parentRefs, generation>>
      /\ entries' = <<x>> \o c
  BY DEF MarkRouteConditions, Mutate, CombineConditions
<1>2. gw \in Parents
  BY <1>1, LastParent
<1>3. x \in Entries /\ x.by = "us" /\ x.named /\ x.parent = gw
  BY <1>2 DEF Entries, StatusInv
<1>4. /\ c \in Seq(Entries) /\ Unique(c)
      /\ \A i \in DOMAIN c : c[i] \in T /\ (c[i].by = "us" => c[i].named)
  BY KeptEntries
<1>5. ASSUME NEW i \in DOMAIN c
      PROVE  (c[i].by = "us" => c[i].named) /\ ~(c[i].by = "us" /\ c[i].parent = gw)
  BY <1>4, <1>5 DEF IsRefToGateway
<1> HIDE DEF gw, x, T, c
<1> DEFINE y == <<x>>
           n == Len(c)
           s == y \o c
<1>6. y \in Seq(Entries) /\ Len(y) = 1 /\ y[1] = x
  BY <1>3
<1> HIDE DEF y
<1>7. /\ n \in Nat /\ DOMAIN c = 1..n /\ s \in Seq(Entries) /\ DOMAIN s = 1..(n + 1)
      /\ s[1] = x /\ \A i \in 2..(n + 1) : s[i] = c[i - 1]
  <2>1. n \in Nat /\ DOMAIN c = 1..n
    BY <1>4, LenProperties
  <2>2. /\ s \in Seq(Entries) /\ Len(s) = 1 + n
        /\ \A i \in 1..(1 + n) : s[i] = IF i <= 1 THEN y[i] ELSE c[i - 1]
    BY <1>4, <1>6, ConcatProperties
  <2>3. DOMAIN s = 1..Len(s)
    BY <2>2, LenProperties
  <2> HIDE DEF s, n
  <2> QED
    BY <1>6, <2>1, <2>2, <2>3
<1>8. entries' = s
  BY <1>1 DEF y
<1> HIDE DEF s, n
<1>9. \A i \in 2..(n + 1) : i - 1 \in DOMAIN c
  BY <1>7
<1>10. \A i \in DOMAIN s : s[i].by = "us" => s[i].named
  <2> SUFFICES ASSUME NEW i \in 1..(n + 1), s[i].by = "us"
               PROVE  s[i].named
    BY <1>7
  <2>1. CASE i = 1
    BY <1>3, <1>7, <2>1
  <2>2. CASE i \in 2..(n + 1)
    BY <1>5, <1>7, <1>9, <2>2
  <2> QED
    BY <1>7, <2>1, <2>2
<1>11. Unique(s)
  <2> SUFFICES ASSUME NEW i \in 1..(n + 1), NEW j \in 1..(n + 1),
                      s[i].by = "us", s[j].by = "us", s[i].parent = s[j].parent
               PROVE  i = j
    BY <1>7 DEF Unique
  <2>1. CASE i = 1 /\ j = 1
    BY <2>1
  <2>2. CASE i = 1 /\ j \in 2..(n + 1)
    BY <1>3, <1>5, <1>7, <1>9, <2>2
  <2>3. CASE i \in 2..(n + 1) /\ j = 1
    BY <1>3, <1>5, <1>7, <1>9, <2>3
  <2>4. CASE i \in 2..(n + 1) /\ j \in 2..(n + 1)
    <3>1. i - 1 = j - 1
      BY <1>4, <1>7, <1>9, <2>4 DEF Unique
    <3> QED
      BY <1>7, <3>1
  <2> QED
    BY <1>7, <2>1, <2>2, <2>3, <2>4
<1> QED
  BY <1>1, <1>7, <1>8, <1>10, <1>11 DEF StatusInv

\* Another controller's entry comes last.
LEMMA OtherStep ==
  ASSUME StatusInv, NEW gw \in Parents, OtherMarks(gw)
  PROVE  StatusInv'
<1> DEFINE c == Keep(entries, {e \in Entries : e.parent # gw \/ e.by = "us"})
           n == Len(c)
<1>1. PICK named \in BOOLEAN, accepted \in BOOLEAN :
         entries' = Append(c, [parent |-> gw, named |-> named, by |-> "others",
                               accepted |-> accepted, generation |-> generation])
  BY DEF OtherMarks
<1>2. PICK x \in Entries : x.by = "others" /\ entries' = Append(c, x)
  BY <1>1 DEF Entries, StatusInv
<1>3. /\ c \in Seq(Entries) /\ Unique(c)
      /\ \A i \in DOMAIN c : c[i].by = "us" => c[i].named
  BY KeptEntries
<1> HIDE DEF c
<1> DEFINE s == Append(c, x)
<1>4. /\ n \in Nat /\ DOMAIN c = 1..n /\ s \in Seq(Entries) /\ DOMAIN s = 1..(n + 1)
      /\ s[n + 1] = x /\ \A i \in 1..n : s[i] = c[i]
  BY <1>3, AppendProperties, LenProperties
<1> HIDE DEF n, s
<1>5. \A i \in DOMAIN s : s[i].by = "us" => i \in 1..n
  BY <1>2, <1>4
<1>6. \A i \in DOMAIN s : s[i].by = "us" => s[i].named
  BY <1>3, <1>4, <1>5
<1>7. Unique(s)
  BY <1>3, <1>4, <1>5 DEF Unique
<1>8. UNCHANGED <<parentRefs, generation>>
  BY DEF OtherMarks
<1> QED
  BY <1>2, <1>4, <1>6, <1>7, <1>8 DEF StatusInv, s

\* The status has one entry of ours for each Gateway, whoever writes it.
LEMMA StatusInvHolds == RulesSpec => []StatusInv
<1>1. StatusInv /\ [RulesNext]_allVars => StatusInv'
  <2> SUFFICES ASSUME StatusInv, [RulesNext]_allVars
               PROVE  StatusInv'
    OBVIOUS
  <2>1. CASE EditParents
    <3>1. generation' \in 1..MaxGeneration
      BY <2>1, StatusAssumption DEF EditParents, StatusInv
    <3>2. parentRefs' \in Seq(Parents)
      BY <2>1, BoundedIsSeq DEF EditParents
    <3> QED
      BY <2>1, <3>1, <3>2 DEF EditParents, StatusInv
  <2>2. CASE StatusNext
    BY <2>1, <2>2, MarkStep, OtherStep DEF StatusNext
  <2>3. CASE UNCHANGED statusVars
    BY <2>3 DEF statusVars, StatusInv
  <2> QED
    BY <2>2, <2>3 DEF RulesNext, allVars
<1> QED
  BY <1>1, StatusInvInit, PTL DEF RulesSpec

\* However often markRouteConditions writes the status, and whatever users and other
\* controllers do between, it has at most one entry of ours for each Gateway.
THEOREM OneEntryEachHolds == RulesSpec => []OneEntryEach
<1>1. StatusInv => OneEntryEach
  BY DEF StatusInv, Unique, OneEntryEach
<1> QED
  BY <1>1, StatusInvHolds, PTL

\* What other controllers say of other Gateways than the marked one stays, in order.
THEOREM OthersKeptHolds == RulesSpec => OthersKept
<1> DEFINE Step == (\E accepted \in BOOLEAN : MarkRouteConditions(accepted)) =>
                      Theirs(entries', Last(parentRefs)) = Theirs(entries, Last(parentRefs))
<1>1. ASSUME StatusInv, NEW accepted \in BOOLEAN, MarkRouteConditions(accepted)
      PROVE  Theirs(entries', Last(parentRefs)) = Theirs(entries, Last(parentRefs))
  <2> DEFINE gw == Last(parentRefs)
             x == [parent |-> gw, named |-> TRUE, by |-> "us", accepted |-> accepted,
                   generation |-> generation]
             T == {e \in Entries : ~IsRefToGateway(e, gw)}
             U == {e \in Entries : e.by = "others" /\ e.parent # gw}
             c == Keep(entries, T)
  <2>1. entries' = <<x>> \o c /\ gw \in Parents
    BY <1>1, LastParent DEF MarkRouteConditions, Mutate, CombineConditions
  <2>2. x \in Entries /\ x \notin U
    BY <1>1, <2>1 DEF Entries, StatusInv
  <2>3. U \subseteq T
    BY DEF IsRefToGateway
  <2>4. entries \in Seq(Entries) /\ c \in Seq(Entries)
    BY <1>1, KeepTyped DEF StatusInv
  <2> HIDE DEF x, T, U, gw
  <2>5. Keep(<<x>> \o c, U) = Keep(c, U)
    BY <2>2, <2>4, KeepCons
  <2>6. Keep(c, U) = Keep(entries, U)
    BY <2>3, <2>4, KeepKeep
  <2>7. Theirs(entries', gw) = Keep(entries', U) /\ Theirs(entries, gw) = Keep(entries, U)
    BY DEF Theirs, U
  <2> QED
    BY <2>1, <2>5, <2>6, <2>7 DEF gw
<1>2. StatusInv => [Step]_statusVars
  BY <1>1
<1> QED
  BY <1>2, StatusInvHolds, PTL DEF OthersKept
=============================================================================
