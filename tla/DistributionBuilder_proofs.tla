--------------------- MODULE DistributionBuilder_proofs ---------------------
(***************************************************************************)
(* What DistributionBuilder builds, for every group of Ingresses, every    *)
(* listing of ACM and every order in which the informer cache may list the *)
(* Ingresses.                                                              *)
(*                                                                         *)
(* The state only remembers the last reconciliation, so the invariant is   *)
(* short: the inputs are what they were and the result is one desiredState *)
(* allows for some order (BuilderInvariance).  What is long is the data:   *)
(* the loops of the code are folds over sequences, and what they compute   *)
(* is proved by induction on the number of elements seen.  The provers     *)
(* cannot instantiate an induction principle that has a predicate as a     *)
(* parameter; they can use a set, and that a set of naturals has a least   *)
(* element (LeastNumber, UpTo) is all the induction needed here.  A        *)
(* recursive function is a CHOOSE, so each loop has a lemma (...Stepwise)  *)
(* that such a function exists and satisfies its equation.                 *)
(***************************************************************************)
EXTENDS DistributionBuilder, FiniteSetTheorems, TLAPS

-----------------------------------------------------------------------------
(* Induction, and sequences as functions                                   *)

(* Every nonempty set of natural numbers has a least element.              *)
LEMMA LeastNumber ==
    ASSUME NEW T \in SUBSET Nat, T # {}
    PROVE  \E x \in T : \A y \in T : x <= y
<1> DEFINE R == {p \in Nat \X Nat : p[1] < p[2]}
<1>1. IsWellFoundedOn(R, Nat)
  BY NatLessThanWellFounded DEF OpToRel
<1>2. PICK x \in T : \A y \in T : ~ (<<y, x>> \in R)
  <2> HIDE DEF R
  <2> QED BY <1>1, WFMin
<1>3. ASSUME NEW y \in T PROVE x <= y
  <2>1. x \in Nat /\ y \in Nat OBVIOUS
  <2>2. <<y, x>> \in Nat \X Nat BY <2>1
  <2>3. ~(y < x) BY <1>2, <2>2
  <2> QED BY <2>1, <2>3
<1> QED BY <1>3

(* Induction from a to n on membership of a set.                           *)
LEMMA UpTo ==
    ASSUME NEW a \in Nat, NEW n \in Nat, NEW T, a \in T,
           \A m \in a + 1 .. n : m - 1 \in T => m \in T
    PROVE  \A m \in a .. n : m \in T
<1> DEFINE F == {m \in a .. n : m \notin T}
<1>1. SUFFICES ASSUME F # {} PROVE FALSE
  OBVIOUS
<1>2. PICK m \in F : \A l \in F : m <= l
  <2>1. F \in SUBSET Nat
    OBVIOUS
  <2> HIDE DEF F
  <2> QED BY <1>1, <2>1, LeastNumber
<1>3. m \in a + 1 .. n /\ m - 1 \in a .. n
  OBVIOUS
<1>4. m - 1 \notin F
  <2> HIDE DEF F
  <2> QED BY <1>2, <1>3
<1> QED BY <1>3, <1>4

(* A function on 1 .. n is a sequence of length n.                         *)
LEMMA FunctionIsSeq ==
    ASSUME NEW S, NEW n \in Nat, NEW f \in [1 .. n -> S]
    PROVE  f \in Seq(S) /\ Len(f) = n /\ DOMAIN f = 1 .. n
OBVIOUS

(* Two sequences of the same length and elements are equal.                *)
LEMMA SameSequence ==
    ASSUME NEW i \in Seq(Nat), NEW j \in Seq(Nat), Len(i) = Len(j),
           \A k \in 1 .. Len(i) : i[k] = j[k]
    PROVE  i = j
<1>1. DOMAIN i = 1 .. Len(i) /\ DOMAIN j = 1 .. Len(i)
  OBVIOUS
<1>2. i = [k \in DOMAIN i |-> i[k]] /\ j = [k \in DOMAIN j |-> j[k]]
  OBVIOUS
<1> QED BY <1>1, <1>2

(* Max, which the folds of the community modules use to take the elements  *)
(* of a sequence in order.                                                 *)
LEMMA MaxIsLast ==
    ASSUME NEW m \in Nat, NEW t \in SUBSET (1 .. m), m \in t
    PROVE  Max(t) = m
<1>1. \A y \in t : m >= y
  OBVIOUS
<1>2. \A x \in t : (\A y \in t : x >= y) => x = m
  OBVIOUS
<1>3. Max(t) \in t /\ \A y \in t : Max(t) >= y
  BY <1>1 DEF Max
<1> QED BY <1>2, <1>3

(* ab has the elements of a and those of b, and no others.                 *)
Gathers(ab, a, b) ==
    /\ \A k \in DOMAIN a : \E l \in DOMAIN ab : ab[l] = a[k]
    /\ \A k \in DOMAIN b : \E l \in DOMAIN ab : ab[l] = b[k]
    /\ \A l \in DOMAIN ab : \/ \E k \in DOMAIN a : ab[l] = a[k]
                            \/ \E k \in DOMAIN b : ab[l] = b[k]

(* What \o gathers.                                                        *)
LEMMA ConcatElements ==
    ASSUME NEW S, NEW a \in Seq(S), NEW b \in Seq(S)
    PROVE  a \o b \in Seq(S) /\ Gathers(a \o b, a, b)
<1> DEFINE ab == a \o b
<1>1. /\ ab \in Seq(S)
      /\ DOMAIN ab = 1 .. Len(a) + Len(b)
      /\ DOMAIN a = 1 .. Len(a) /\ DOMAIN b = 1 .. Len(b) /\ Len(a) \in Nat /\ Len(b) \in Nat
      /\ \A k \in 1 .. Len(a) : ab[k] = a[k]
      /\ \A k \in 1 .. Len(b) : ab[Len(a) + k] = b[k]
  OBVIOUS
<1>2. ASSUME NEW k \in DOMAIN a PROVE k \in DOMAIN ab /\ ab[k] = a[k]
  BY <1>1
<1>3. ASSUME NEW k \in DOMAIN b PROVE Len(a) + k \in DOMAIN ab /\ ab[Len(a) + k] = b[k]
  BY <1>1
<1>4. ASSUME NEW l \in DOMAIN ab
      PROVE  \/ \E k \in DOMAIN a : ab[l] = a[k]
             \/ \E k \in DOMAIN b : ab[l] = b[k]
  <2>1. CASE l <= Len(a)
    BY <2>1, <1>1
  <2>2. CASE ~(l <= Len(a))
    <3>1. l - Len(a) \in 1 .. Len(b) /\ Len(a) + (l - Len(a)) = l
      BY <2>2, <1>1
    <3>2. ab[l] = b[l - Len(a)]
      BY <3>1, <1>1
    <3> QED BY <3>1, <3>2, <1>1
  <2> QED BY <2>1, <2>2
<1> QED BY <1>1, <1>2, <1>3, <1>4 DEF Gathers

(* FlattenSeq has the elements of all the sequences, and no others: what   *)
(* the append loop of FetchBy returns.                                     *)
LEMMA FlattenSeqElements ==
    ASSUME NEW S, NEW seqs \in Seq(Seq(S))
    PROVE  /\ FlattenSeq(seqs) \in Seq(S)
           /\ \A i \in DOMAIN seqs : \A j \in DOMAIN seqs[i] :
                \E k \in DOMAIN FlattenSeq(seqs) : FlattenSeq(seqs)[k] = seqs[i][j]
           /\ \A k \in DOMAIN FlattenSeq(seqs) :
                \E i \in DOMAIN seqs : \E j \in DOMAIN seqs[i] :
                   FlattenSeq(seqs)[k] = seqs[i][j]
<1> DEFINE n == Len(seqs)
           Is(f, m) == f = [i \in 1 .. m |-> IF i = 1 THEN seqs[i] ELSE f[i - 1] \o seqs[i]]
           fl == CHOOSE f : Is(f, n)
<1>0. n \in Nat /\ DOMAIN seqs = 1 .. n
  OBVIOUS
<1>1. CASE n = 0
  BY <1>1, <1>0 DEF FlattenSeq
<1>2. CASE n # 0
  <2>1. \A m \in 1 .. n : \E f : Is(f, m)
    <3> DEFINE T == {m \in 1 .. n : \E f : Is(f, m)}
    <3>1. 1 \in T
      <4>1. Is([i \in 1 .. 1 |-> seqs[i]], 1)
        OBVIOUS
      <4>2. \E f : Is(f, 1)
        BY <4>1
      <4> HIDE DEF n, Is
      <4> QED BY <4>2, <1>0, <1>2
    <3>2. ASSUME NEW m \in 1 + 1 .. n, m - 1 \in T PROVE m \in T
      <4>1. PICK g : Is(g, m - 1)
        BY <3>2
      <4>2. m \in Nat /\ m # 1 /\ m - 1 \in 1 .. m /\ m \in 1 .. m /\ m \in 1 .. n
        <5> HIDE DEF n
        <5> QED BY <1>0
      <4> DEFINE h == [i \in 1 .. m |-> IF i = m THEN g[m - 1] \o seqs[m] ELSE g[i]]
      <4>3. ASSUME NEW i \in 1 .. m
            PROVE  h[i] = IF i = 1 THEN seqs[i] ELSE h[i - 1] \o seqs[i]
        <5>1. CASE i = m
          <6>1. h[m] = g[m - 1] \o seqs[m] /\ h[m - 1] = g[m - 1]
            <7>1. m - 1 # m
              BY <4>2
            <7> QED BY <7>1, <4>2, Zenon
          <6> QED BY <6>1, <5>1, <4>2
        <5>2. CASE i # m
          <6>1. i \in 1 .. m - 1 /\ (i # 1 => i - 1 \in 1 .. m - 1)
            BY <5>2, <4>2
          <6>2. g[i] = IF i = 1 THEN seqs[i] ELSE g[i - 1] \o seqs[i]
            BY <4>1, <6>1
          <6>3. h[i] = g[i] /\ (i # 1 => h[i - 1] = g[i - 1])
            BY <6>1, <4>2
          <6> QED BY <6>2, <6>3
        <5> QED BY <5>1, <5>2
      <4>4. Is(h, m)
        BY <4>3
      <4> QED BY <4>4, <4>2
    <3> HIDE DEF T, n
    <3>3. \A m \in 1 .. n : m \in T
      BY <3>1, <3>2, <1>0, UpTo
    <3> QED BY <3>3 DEF T
  <2>2. Is(fl, n)
    <3>1. \E f : Is(f, n)
      <4> HIDE DEF n, Is
      <4> QED BY <2>1, <1>0, <1>2
    <3> HIDE DEF Is
    <3> QED BY <3>1, Zenon
  <2>3. FlattenSeq(seqs) = fl[n]
    BY <1>2, <1>0 DEF FlattenSeq
  <2> HIDE DEF fl
  <2> DEFINE Good(m) ==
               /\ fl[m] \in Seq(S)
               /\ \A i \in 1 .. m : \A j \in DOMAIN seqs[i] :
                    \E k \in DOMAIN fl[m] : fl[m][k] = seqs[i][j]
               /\ \A k \in DOMAIN fl[m] : \E i \in 1 .. m : \E j \in DOMAIN seqs[i] :
                    fl[m][k] = seqs[i][j]
  <2>4. \A m \in 1 .. n : Good(m)
    <3> DEFINE T == {m \in 1 .. n : Good(m)}
    <3>1. 1 \in T
      <4>1. fl[1] = seqs[1]
        BY <2>2, <1>0, <1>2
      <4>2. Good(1)
        BY <4>1, <1>0, <1>2
      <4> HIDE DEF n, Good
      <4> QED BY <4>2, <1>0, <1>2
    <3>2. ASSUME NEW m \in 1 + 1 .. n, m - 1 \in T PROVE m \in T
      <4>1. Good(m - 1)
        BY <3>2
      <4>2. m \in Nat /\ m # 1 /\ m \in 1 .. n /\ m \in 1 .. m /\ \A i \in 1 .. m - 1 : i \in 1 .. m
        <5> HIDE DEF n
        <5> QED BY <1>0
      <4>3. \A i \in 1 .. m : i = m \/ i \in 1 .. m - 1
        BY <4>2
      <4>4. seqs[m] \in Seq(S) /\ fl[m] = fl[m - 1] \o seqs[m]
        <5>1. fl[m] = IF m = 1 THEN seqs[m] ELSE fl[m - 1] \o seqs[m]
          BY <2>2, <4>2
        <5>2. \A i \in 1 .. n : seqs[i] \in Seq(S)
          BY <1>0
        <5> QED BY <5>1, <5>2, <4>2
      <4> DEFINE a == fl[m - 1]
                 b == seqs[m]
                 ab == fl[m]
      <4>5. /\ ab \in Seq(S)
            /\ \A k \in DOMAIN a : \E l \in DOMAIN ab : ab[l] = a[k]
            /\ \A k \in DOMAIN b : \E l \in DOMAIN ab : ab[l] = b[k]
            /\ \A l \in DOMAIN ab : \/ \E k \in DOMAIN a : ab[l] = a[k]
                                    \/ \E k \in DOMAIN b : ab[l] = b[k]
        <5>1. a \in Seq(S) /\ b \in Seq(S) /\ ab = a \o b
          BY <4>1, <4>4
        <5> HIDE DEF a, b, ab
        <5>2. ab \in Seq(S) /\ Gathers(ab, a, b)
          BY <5>1, ConcatElements
        <5> QED BY <5>2 DEF Gathers
      <4>6. Good(m)
        <5>1. ASSUME NEW i \in 1 .. m, NEW j \in DOMAIN seqs[i]
              PROVE  \E k \in DOMAIN ab : ab[k] = seqs[i][j]
          <6>1. CASE i = m
            BY <6>1, <4>5
          <6>2. CASE i \in 1 .. m - 1
            <7>1. PICK k \in DOMAIN a : a[k] = seqs[i][j]
              BY <6>2, <4>1
            <7> QED BY <7>1, <4>5
          <6> QED BY <6>1, <6>2, <4>3
        <5>2. ASSUME NEW k \in DOMAIN ab
              PROVE  \E i \in 1 .. m : \E j \in DOMAIN seqs[i] : ab[k] = seqs[i][j]
          <6>1. CASE \E l \in DOMAIN b : ab[k] = b[l]
            BY <6>1, <4>2
          <6>2. CASE \E l \in DOMAIN a : ab[k] = a[l]
            <7>1. PICK l \in DOMAIN a : ab[k] = a[l]
              BY <6>2
            <7>2. PICK i \in 1 .. m - 1 : \E j \in DOMAIN seqs[i] : a[l] = seqs[i][j]
              BY <4>1
            <7>3. i \in 1 .. m
              BY <4>2
            <7> QED BY <7>1, <7>2, <7>3
          <6> QED BY <6>1, <6>2, <4>5
        <5> QED BY <4>5, <5>1, <5>2
      <4> HIDE DEF Good
      <4> QED BY <4>6, <4>2
    <3> HIDE DEF T, n
    <3>3. \A m \in 1 .. n : m \in T
      BY <3>1, <3>2, <1>0, UpTo
    <3> QED BY <3>3 DEF T
  <2>5. Good(n)
    <3> HIDE DEF n, Good
    <3> QED BY <2>4, <1>0, <1>2
  <2> DEFINE r == fl[n]
             D == 1 .. n
  <2>6. /\ r \in Seq(S) /\ FlattenSeq(seqs) = r /\ DOMAIN seqs = D
        /\ \A i \in D : \A j \in DOMAIN seqs[i] : \E k \in DOMAIN r : r[k] = seqs[i][j]
        /\ \A k \in DOMAIN r : \E i \in D : \E j \in DOMAIN seqs[i] : r[k] = seqs[i][j]
    BY <2>3, <2>5, <1>0, Zenon
  <2> HIDE DEF r, D
  <2> QED BY <2>6, Zenon
<1> QED BY <1>1, <1>2

(* Each order of a finite set is a sequence of all its elements.           *)
LEMMA SetToSeqsCovers ==
    ASSUME NEW S, IsFiniteSet(S), NEW order \in SetToSeqs(S)
    PROVE  /\ order \in Seq(S)
           /\ \A x \in S : \E k \in DOMAIN order : order[k] = x
<1> DEFINE n == Cardinality(S)
<1>1. n \in Nat
  BY FS_CardinalityType
<1>2. order \in [1 .. n -> S] /\ \A i, j \in 1 .. n : i # j => order[i] # order[j]
  BY DEF SetToSeqs
<1>3. order \in Injection(1 .. n, S)
  BY <1>2 DEF Injection, IsInjective
<1>4. IsFiniteSet(1 .. n) /\ Cardinality(1 .. n) = n
  BY <1>1, FS_Interval
<1>5. order \in Surjection(1 .. n, S)
  <2> HIDE DEF n
  <2>1. Cardinality(1 .. n) = Cardinality(S)
    BY <1>4 DEF n
  <2> QED BY <1>3, <2>1, FS_Injection
<1> QED BY <1>1, <1>2, <1>5 DEF Surjection

-----------------------------------------------------------------------------
(* The group, as FetchBy returns it                                        *)

(* pathsForFunctionAssociations, which empties invalid function            *)
(* associations, leaves a well-formed contribution.                        *)
LEMMA Contributed ==
    ASSUME group \in Groups, NEW c \in Contributions
    PROVE  IsCDNIngress(c)
<1>1. PICK n \in Names : \E k \in DOMAIN group[n] : c = pathsForFunctionAssociations(group[n][k])
  BY DEF Contributions, listed
<1>2. PICK k \in DOMAIN group[n] : c = pathsForFunctionAssociations(group[n][k])
  BY <1>1
<1>3. PICK d : d = group[n][k] /\ IsCDNIngress(d)
  BY GroupsAssumption
<1>4. c = [d EXCEPT !.fas = [p \in DOMAIN d.fas |->
                               IF Validate(d.fas[p]) THEN d.fas[p] ELSE NoFunctions]]
  BY <1>2, <1>3 DEF pathsForFunctionAssociations
<1>5. NoFunctions \in FunctionAssociations
  BY DEF NoFunctions, FunctionAssociations, Events
<1>6. /\ DOMAIN c = DOMAIN d
      /\ c.fas = [p \in DOMAIN d.fas |-> IF Validate(d.fas[p]) THEN d.fas[p] ELSE NoFunctions]
      /\ \A f \in DOMAIN c : f # "fas" => c[f] = d[f]
  BY <1>3, <1>4 DEF IsCDNIngress
<1>7. /\ c.host = d.host /\ c.access = d.access /\ c.timeout = d.timeout
      /\ c.policy = d.policy /\ c.headers = d.headers /\ c.acl = d.acl
      /\ c.domains = d.domains /\ c.tags = d.tags
  BY <1>3, <1>6 DEF IsCDNIngress
<1>8. DOMAIN c.fas = DOMAIN d.fas
  BY <1>6
<1>9. ASSUME NEW p \in DOMAIN c.fas PROVE c.fas[p] \in FunctionAssociations
  BY <1>3, <1>5, <1>6, <1>8 DEF IsCDNIngress
<1> QED BY <1>3, <1>6, <1>7, <1>8, <1>9 DEF IsCDNIngress

(* What FetchBy returns when the cache lists the Ingresses in this order.  *)
Fetched(order) == FlattenSeq([k \in DOMAIN order |-> listed(order[k])])

(* Whatever the order, FetchBy returns the contributions of the group, all *)
(* of them and nothing else.                                               *)
LEMMA FetchedIsContributed ==
    ASSUME group \in Groups, NEW order \in SetToSeqs(Names)
    PROVE  /\ Fetched(order) \in Seq(Contributions)
           /\ \A c \in Contributions : \E k \in DOMAIN Fetched(order) : Fetched(order)[k] = c
<1> DEFINE seqs == [k \in DOMAIN order |-> listed(order[k])]
<1>1. /\ order \in Seq(Names)
      /\ \A x \in Names : \E k \in DOMAIN order : order[k] = x
  BY SetToSeqsCovers, GroupsAssumption
<1>2. ASSUME NEW n \in Names PROVE /\ listed(n) \in Seq(Contributions)
                                   /\ DOMAIN listed(n) = DOMAIN group[n]
  <2>1. PICK S : group[n] \in Seq(S)
    BY GroupsAssumption
  <2>2. DOMAIN group[n] = 1 .. Len(group[n]) /\ Len(group[n]) \in Nat
    BY <2>1
  <2>3. \A k \in DOMAIN group[n] : listed(n)[k] \in Contributions
    BY DEF Contributions, listed
  <2>4. listed(n) \in [1 .. Len(group[n]) -> Contributions] /\ DOMAIN listed(n) = DOMAIN group[n]
    BY <2>2, <2>3 DEF listed
  <2> QED BY <2>2, <2>4, FunctionIsSeq
<1>3. seqs \in Seq(Seq(Contributions))
  <2>1. DOMAIN order = 1 .. Len(order) /\ Len(order) \in Nat
    BY <1>1
  <2>2. \A k \in DOMAIN order : order[k] \in Names
    BY <1>1
  <2>3. seqs \in [1 .. Len(order) -> Seq(Contributions)]
    BY <2>1, <2>2, <1>2
  <2> HIDE DEF seqs
  <2> QED BY <2>1, <2>3, FunctionIsSeq
<1>4. /\ Fetched(order) \in Seq(Contributions)
      /\ \A i \in DOMAIN seqs : \A j \in DOMAIN seqs[i] :
           \E k \in DOMAIN Fetched(order) : Fetched(order)[k] = seqs[i][j]
  <2>1. Fetched(order) = FlattenSeq(seqs)
    BY DEF Fetched
  <2> HIDE DEF seqs
  <2> QED BY <1>3, <2>1, FlattenSeqElements
<1>5. ASSUME NEW c \in Contributions
      PROVE  \E k \in DOMAIN Fetched(order) : Fetched(order)[k] = c
  <2>1. PICK n \in Names : \E j \in DOMAIN group[n] : c = listed(n)[j]
    BY DEF Contributions
  <2>2. PICK j \in DOMAIN group[n] : c = listed(n)[j]
    BY <2>1
  <2>3. PICK i \in DOMAIN order : order[i] = n
    BY <1>1
  <2>4. i \in DOMAIN seqs /\ seqs[i] = listed(n) /\ j \in DOMAIN seqs[i]
    BY <2>3, <1>2
  <2> QED BY <2>4, <2>2, <1>4
<1> QED BY <1>4, <1>5

(* The sequence s has exactly the contributions of the group as elements.  *)
Lists(s) ==
    /\ s \in Seq(Contributions)
    /\ \A c \in Contributions : \E k \in DOMAIN s : s[k] = c

(* The elements of such a sequence by number, and their types.             *)
LEMMA Listed ==
    ASSUME group \in Groups, NEW s, Lists(s)
    PROVE  /\ DOMAIN s = 1 .. Len(s) /\ Len(s) \in Nat
           /\ \A k \in DOMAIN s : s[k] \in Contributions /\ IsCDNIngress(s[k])
           /\ \A c \in Contributions : \E k \in 1 .. Len(s) : s[k] = c
<1>1. s \in Seq(Contributions)
  BY DEF Lists
<1>2. /\ DOMAIN s = 1 .. Len(s) /\ Len(s) \in Nat
      /\ \A k \in DOMAIN s : s[k] \in Contributions
  BY <1>1
<1> QED BY <1>2, Contributed DEF Lists

(* The alternate domains do not depend on the order of the Ingresses.      *)
LEMMA FetchedDomains ==
    ASSUME group \in Groups, NEW order \in SetToSeqs(Names)
    PROVE  alternateDomains(Fetched(order)) = UNION {c.domains : c \in Contributions}
<1> DEFINE s == Fetched(order)
<1>1. \A k \in DOMAIN s : s[k] \in Contributions
  BY FetchedIsContributed
<1>2. \A c \in Contributions : \E k \in DOMAIN s : s[k] = c
  BY FetchedIsContributed
<1>3. alternateDomains(s) = UNION {s[k].domains : k \in DOMAIN s}
  BY DEF alternateDomains
<1> HIDE DEF s
<1>4. {s[k].domains : k \in DOMAIN s} = {c.domains : c \in Contributions}
  BY <1>1, <1>2
<1>5. alternateDomains(s) = UNION {c.domains : c \in Contributions}
  BY <1>3, <1>4
<1> QED BY <1>5 DEF s

-----------------------------------------------------------------------------
(* The inductive invariant                                                 *)

(* No reconciliation changes the Ingresses or the certificates.            *)
InputsKept == group \in Groups /\ acm \in Listings

(* The last result is one that desiredState allows for some order.         *)
ResultIsDesired ==
    result # None => \E order \in SetToSeqs(Names) : result \in desiredState(Fetched(order))

(* Both always hold; every property below follows from them.               *)

LEMMA BuilderInvariance == Spec => [](InputsKept /\ ResultIsDesired)
<1>1. Init => InputsKept /\ ResultIsDesired
  BY DEF Init, InputsKept, ResultIsDesired
<1>2. InputsKept /\ ResultIsDesired /\ [Next]_vars => (InputsKept /\ ResultIsDesired)'
  <2> SUFFICES ASSUME InputsKept, ResultIsDesired, [Next]_vars
               PROVE  (InputsKept /\ ResultIsDesired)'
    OBVIOUS
  <2>1. group' = group /\ acm' = acm
    BY DEF Next, Reconcile, vars
  <2>2. ASSUME NEW order PROVE desiredState(Fetched(order))' = desiredState(Fetched(order))
    BY <2>1 DEF desiredState, discoverCert, Fetched, listed
  <2>3. InputsKept'
    BY <2>1 DEF InputsKept
  <2>4. CASE Reconcile
    BY <2>2, <2>3, <2>4 DEF ResultIsDesired, Reconcile, Fetched
  <2>5. CASE UNCHANGED vars
    BY <2>2, <2>3, <2>5 DEF ResultIsDesired, vars
  <2> QED BY <2>4, <2>5 DEF Next
<1> QED BY <1>1, <1>2, PTL DEF Spec


-----------------------------------------------------------------------------
(* Certificates                                                            *)

(* A certificate is the set of names it was issued for.                    *)
Certificate == SUBSET (Seq(STRING) \ {<<>>})

(* What DiscoverByHost finds is a certificate that passes the filter.      *)
LEMMA DiscoverMatches ==
    ASSUME NEW hosts, NEW listing \in Seq(Seq(Certificate)), Len(listing) > 0,
           NEW none, DiscoverByHost(hosts, listing, none) # none
    PROVE  /\ DiscoverByHost(hosts, listing, none) \in Certificate
           /\ matchingDomainFilter(hosts, DiscoverByHost(hosts, listing, none))
<1> DEFINE certs == FlattenSeq(PagesSeen(listing))
           found == FindByFilter(hosts, certs)
<1>1. PagesSeen(listing) \in Seq(Seq(Certificate))
  BY DEF PagesSeen
<1>2. certs \in Seq(Certificate)
  BY <1>1, FlattenSeqElements
<1>3. found # {} /\ DiscoverByHost(hosts, listing, none) = certs[Min(found)]
  BY DEF DiscoverByHost
<1> HIDE DEF certs
<1>4. \A k \in found : k \in DOMAIN certs /\ matchingDomainFilter(hosts, certs[k])
  BY DEF FindByFilter
<1>5. found \in SUBSET Nat
  BY <1>2, <1>4
<1> HIDE DEF found
<1>6. Min(found) \in found
  <2>1. \E x \in found : \A y \in found : x <= y
    BY <1>3, <1>5, LeastNumber
  <2> QED BY <2>1 DEF Min
<1> QED BY <1>2, <1>3, <1>4, <1>6

(* A certificate that certMatches accepts for a domain is valid for it,    *)
(* but for the apex certificate that lacks the wildcard.                   *)
LEMMA MatchCovers ==
    ASSUME NEW d \in Seq(STRING), Len(d) > 0, NEW cert \in Certificate, certMatches(d, cert)
    PROVE  \/ \E name \in cert : Covers(name, d)
           \/ Tail(d) \in cert /\ <<"*">> \o Tail(d) \notin cert
<1>1. PICK name \in cert : d = name \/ WithoutWildcard(name) = Tail(d)
  BY DEF certMatches
<1>2. CASE d = name
  BY <1>2 DEF Covers
<1>3. CASE d # name /\ Len(name) > 1 /\ name[1] = "*"
  BY <1>1, <1>3 DEF Covers, WithoutWildcard
<1>4. CASE d # name /\ ~(Len(name) > 1 /\ name[1] = "*")
  <2>1. name = Tail(d) /\ name \in Seq(STRING) /\ name # <<>>
    BY <1>1, <1>4 DEF WithoutWildcard, Certificate
  <2>2. CASE <<"*">> \o Tail(d) \in cert
    <3> DEFINE w == <<"*">> \o name
               S == STRING \cup {"*"}
    <3>1. w \in Seq(S) /\ Len(w) = 1 + Len(name) /\ Len(name) > 0 /\ name \in Seq(S)
      <4>1. <<"*">> \in Seq(S) /\ Len(<<"*">>) = 1
        OBVIOUS
      <4>2. Len(name) > 0 /\ name \in Seq(S)
        BY <2>1
      <4> QED BY <4>1, <4>2
    <3>2. w[1] = "*" /\ Tail(w) = name
      <4>1. Len(Tail(w)) = Len(name) /\ Tail(w) \in Seq(S)
        BY <3>1
      <4>2. ASSUME NEW i \in 1 .. Len(name) PROVE Tail(w)[i] = name[i]
        BY <3>1
      <4>3. w[1] = "*"
        BY <3>1
      <4> HIDE DEF w, S
      <4> QED BY <4>1, <4>2, <4>3, <3>1
    <3>3. Covers(w, d)
      <4> HIDE DEF w
      <4> QED BY <3>1, <3>2, <2>1 DEF Covers
    <3> QED BY <3>3, <2>1, <2>2
  <2> QED BY <2>1, <2>2
<1> QED BY <1>2, <1>3, <1>4

(* The certificate of a desired distribution, for each domain of the       *)
(* group.                                                                  *)
LEMMA DesiredCert ==
    ASSUME InputsKept, TLSEnabled, NEW order \in SetToSeqs(Names),
           NEW r \in desiredState(Fetched(order)), r.ok,
           NEW c \in Contributions, NEW d \in c.domains
    PROVE  \/ \E name \in r.cert : Covers(name, d)
           \/ Tail(d) \in r.cert /\ <<"*">> \o Tail(d) \notin r.cert
<1> DEFINE s == Fetched(order)
<1>1. r.cert = discoverCert(s) /\ discoverCert(s) # None
  BY DEF desiredState, Refused
<1>2. r.cert = DiscoverByHost(alternateDomains(s), acm, None) /\ r.cert # None
  BY <1>1 DEF discoverCert
<1>3. acm \in Seq(Seq(Certificate)) /\ Len(acm) > 0
  BY ListingsAssumption DEF InputsKept, Certificate
<1>4. r.cert \in Certificate /\ matchingDomainFilter(alternateDomains(s), r.cert)
  BY <1>2, <1>3, DiscoverMatches
<1>5. d \in alternateDomains(s)
  BY FetchedDomains DEF InputsKept
<1>6. certMatches(d, r.cert)
  BY <1>4, <1>5 DEF matchingDomainFilter
<1>7. d \in Seq(STRING) /\ Len(d) > 0
  BY Contributed, DomainsAssumption DEF InputsKept, IsCDNIngress
<1> QED BY <1>4, <1>6, <1>7, MatchCovers

(* The certificate bound to the distribution is valid for the domains of   *)
(* all the Ingresses of the group, but for the case CertificateCoversAll   *)
(* names: the filter of DiscoverByHost is applied to the domains of the    *)
(* whole group, not to those of one Ingress.                               *)

THEOREM CertificateIsValid == Spec => []CertificateCoversAll
<1>1. InputsKept /\ ResultIsDesired => CertificateCoversAll
  BY DesiredCert DEF ResultIsDesired, CertificateCoversAll, Built
<1> QED BY <1>1, BuilderInvariance, PTL


-----------------------------------------------------------------------------
(* mergedPaths: function associations of Ingresses that share a host       *)

(* Where the loop over the Ingresses begins.                               *)
NothingMerged == [ok |-> TRUE, fas |-> [h \in Hosts |-> <<>>]]

(* mergedPaths is the last of a chain of mergeIngress steps.               *)
LEMMA MergedStepwise ==
    ASSUME NEW S, NEW s \in Seq(S)
    PROVE  \E acc : /\ acc[0] = NothingMerged
                    /\ \A k \in 1 .. Len(s) : acc[k] = mergeIngress(acc[k - 1], s[k])
                    /\ mergedPaths(s) = acc[Len(s)]
<1> DEFINE n == Len(s)
           Is(g, D) == g = [t \in SUBSET D |->
                              IF t = {} THEN NothingMerged
                              ELSE mergeIngress(g[t \ {Max(t)}], s[Max(t)])]
           it == CHOOSE g : Is(g, DOMAIN s)
<1>0. n \in Nat /\ DOMAIN s = 1 .. n
  OBVIOUS
<1>1. mergedPaths(s) = it[DOMAIN s]
  BY DEF mergedPaths, FoldLeft, MapThenFoldSet, NothingMerged
<1> HIDE DEF n
<1>2. \A m \in 0 .. n : \E g : Is(g, 1 .. m)
  <2> DEFINE T == {m \in 0 .. n : \E g : Is(g, 1 .. m)}
  <2>1. 0 \in T
    <3>1. Is([t \in SUBSET (1 .. 0) |-> NothingMerged], 1 .. 0)
      OBVIOUS
    <3> HIDE DEF Is
    <3> QED BY <3>1, <1>0
  <2>2. ASSUME NEW m \in 0 + 1 .. n, m - 1 \in T PROVE m \in T
    <3>1. PICK g : Is(g, 1 .. m - 1)
      BY <2>2
    <3>2. m \in Nat /\ m \in 0 .. n
      BY <1>0
    <3> DEFINE h == [t \in SUBSET (1 .. m) |->
                       IF m \in t THEN mergeIngress(g[t \ {m}], s[m]) ELSE g[t]]
    <3>3. ASSUME NEW t \in SUBSET (1 .. m)
          PROVE  h[t] = IF t = {} THEN NothingMerged
                        ELSE mergeIngress(h[t \ {Max(t)}], s[Max(t)])
      <4> DEFINE x == Max(t)
      <4>1. CASE m \in t
        <5>1. x = m
          BY <4>1, <3>2, MaxIsLast
        <5>2. h[t \ {m}] = g[t \ {m}]
          OBVIOUS
        <5>3. h[t] = mergeIngress(g[t \ {m}], s[m])
          BY <4>1
        <5> QED BY <5>1, <5>2, <5>3, <4>1
      <4>2. CASE m \notin t
        <5>1. t \in SUBSET (1 .. m - 1)
          BY <4>2, <3>2
        <5>2. h[t] = g[t]
          BY <4>2
        <5>3. g[t] = IF t = {} THEN NothingMerged
                     ELSE mergeIngress(g[t \ {x}], s[x])
          BY <5>1, <3>1
        <5>4. h[t \ {x}] = g[t \ {x}]
          <6> HIDE DEF x
          <6> QED BY <4>2
        <5> QED BY <5>2, <5>3, <5>4
      <4> QED BY <4>1, <4>2
    <3>4. Is(h, 1 .. m)
      BY <3>3
    <3> QED BY <3>4, <3>2
  <2> HIDE DEF T
  <2>3. \A m \in 0 .. n : m \in T
    BY <2>1, <2>2, <1>0, UpTo
  <2> QED BY <2>3 DEF T
<1>3. Is(it, 1 .. n)
  <2>1. \E g : Is(g, DOMAIN s)
    <3> HIDE DEF Is
    <3> QED BY <1>2, <1>0
  <2>2. Is(it, DOMAIN s)
    <3> HIDE DEF Is
    <3> QED BY <2>1, Zenon
  <2> QED BY <2>2, <1>0
<1> HIDE DEF it
<1> DEFINE acc == [k \in 0 .. n |-> it[1 .. k]]
<1>4. acc[0] = NothingMerged
  <2>1. (1 .. 0) = {} /\ {} \in SUBSET (1 .. n)
    OBVIOUS
  <2> QED BY <2>1, <1>3, <1>0
<1>5. ASSUME NEW k \in 1 .. n PROVE acc[k] = mergeIngress(acc[k - 1], s[k])
  <2>1. /\ k \in Nat /\ k - 1 \in 0 .. n /\ k \in 0 .. n
        /\ (1 .. k) \in SUBSET (1 .. n) /\ k \in 1 .. k
        /\ (1 .. k) \ {k} = 1 .. (k - 1)
    BY <1>0
  <2>2. Max(1 .. k) = k
    BY <2>1, MaxIsLast
  <2>3. it[1 .. k] = mergeIngress(it[(1 .. k) \ {k}], s[k])
    BY <1>3, <2>1, <2>2
  <2> QED BY <2>1, <2>3
<1>6. mergedPaths(s) = acc[n]
  BY <1>0, <1>1
<1> QED BY <1>4, <1>5, <1>6 DEF n

(* The type of what is merged.                                             *)
IsMerged(m) ==
    /\ DOMAIN m = {"ok", "fas"}
    /\ m.ok \in BOOLEAN
    /\ DOMAIN m.fas = Hosts
    /\ \A h \in Hosts :
          /\ DOMAIN m.fas[h] \subseteq Paths /\ IsFiniteSet(DOMAIN m.fas[h])
          /\ \A p \in DOMAIN m.fas[h] : m.fas[h][p] \in [Events -> Functions \cup {None}]

(* merged has the functions of fa.                                         *)
Includes(merged, fa) == \A e \in Events : fa[e] # None => merged[e] = fa[e]

(* The first k Ingresses of s are part of what was merged.                 *)
MergeKeeps(m, s, k) ==
    \A j \in 1 .. k : \A p \in DOMAIN s[j].fas :
        p \in DOMAIN m.fas[s[j].host] /\ Includes(m.fas[s[j].host][p], s[j].fas[p])

(* Whatever was merged comes from one of them.                             *)
MergeSourced(m, s, k) ==
    \A h \in Hosts : \A p \in DOMAIN m.fas[h] :
        /\ \E j \in 1 .. k : s[j].host = h /\ p \in DOMAIN s[j].fas
        /\ \A e \in Events : m.fas[h][p][e] # None =>
              \E j \in 1 .. k : /\ s[j].host = h /\ p \in DOMAIN s[j].fas
                                /\ s[j].fas[p][e] = m.fas[h][p][e]

(* Two of them give different functions to one event of a path.            *)
MergeConflict(s, k) ==
    \E i, j \in 1 .. k : /\ s[i].host = s[j].host
                         /\ \E p \in DOMAIN s[i].fas \cap DOMAIN s[j].fas :
                               Conflicting(s[i].fas[p], s[j].fas[p])

(* Function associations map every event to a function or to None.         *)
LEMMA AssociationsTyped ==
    FunctionAssociations \subseteq [Events -> Functions \cup {None}]
BY DEF FunctionAssociations

(* Merge keeps both sides unless they conflict.                            *)
LEMMA MergeIncludes ==
    ASSUME NEW fa \in [Events -> Functions \cup {None}],
           NEW other \in [Events -> Functions \cup {None}]
    PROVE  /\ Merge(fa, other) \in [Events -> Functions \cup {None}]
           /\ Includes(Merge(fa, other), fa)
           /\ ~Conflicting(fa, other) => Includes(Merge(fa, other), other)
           /\ \A e \in Events : Merge(fa, other)[e] \in {fa[e], other[e]}
BY DEF Merge, Includes, Conflicting

(* One round of the loop: what it keeps, where what it adds comes from,    *)
(* and why it may fail.                                                    *)
LEMMA MergeIngressStep ==
    ASSUME NEW m, IsMerged(m), NEW c, IsCDNIngress(c), NEW r, r = mergeIngress(m, c)
    PROVE  /\ IsMerged(r)
           /\ r.ok => m.ok
           /\ ~r.ok => r.fas = m.fas
           /\ (m.ok /\ ~r.ok) => \E p \in DOMAIN m.fas[c.host] \cap DOMAIN c.fas :
                                    Conflicting(m.fas[c.host][p], c.fas[p])
           /\ r.ok => \A h \in Hosts : \A p \in DOMAIN m.fas[h] :
                         p \in DOMAIN r.fas[h] /\ Includes(r.fas[h][p], m.fas[h][p])
           /\ r.ok => \A p \in DOMAIN c.fas :
                         /\ p \in DOMAIN r.fas[c.host]
                         /\ Includes(r.fas[c.host][p], c.fas[p])
           /\ \A h \in Hosts : \A p \in DOMAIN r.fas[h] :
                 /\ p \in DOMAIN m.fas[h] \/ (h = c.host /\ p \in DOMAIN c.fas)
                 /\ \A e \in Events :
                       \/ p \in DOMAIN m.fas[h] /\ r.fas[h][p][e] = m.fas[h][p][e]
                       \/ h = c.host /\ p \in DOMAIN c.fas /\ r.fas[h][p][e] = c.fas[p][e]
<1> DEFINE seen == m.fas[c.host]
           both == DOMAIN seen \cap DOMAIN c.fas
           bad == ~m.ok \/ \E p \in both : Conflicting(seen[p], c.fas[p])
           new == [p \in DOMAIN seen \cup DOMAIN c.fas |->
                     IF p \in both THEN Merge(seen[p], c.fas[p])
                     ELSE IF p \in DOMAIN seen THEN seen[p] ELSE c.fas[p]]
<1>0. /\ c.host \in Hosts
      /\ DOMAIN seen \subseteq Paths /\ IsFiniteSet(DOMAIN seen)
      /\ \A p \in DOMAIN seen : seen[p] \in [Events -> Functions \cup {None}]
      /\ DOMAIN c.fas \subseteq Paths /\ IsFiniteSet(DOMAIN c.fas)
      /\ \A p \in DOMAIN c.fas : c.fas[p] \in [Events -> Functions \cup {None}]
  BY AssociationsTyped DEF IsMerged, IsCDNIngress
<1>1. CASE bad
  <2>1. r = [m EXCEPT !.ok = FALSE]
    BY <1>1 DEF mergeIngress
  <2>2. /\ DOMAIN r = {"ok", "fas"} /\ r.ok = FALSE /\ r.fas = m.fas
    BY <2>1 DEF IsMerged
  <2>3. IsMerged(r)
    BY <2>2 DEF IsMerged
  <2> QED BY <2>2, <2>3, <1>1 DEF IsMerged
<1>2. CASE ~bad
  <2>1. r = [m EXCEPT !.fas[c.host] = new]
    BY <1>2 DEF mergeIngress
  <2> HIDE DEF new
  <2>2. /\ DOMAIN r = {"ok", "fas"} /\ r.ok = m.ok /\ m.ok /\ m.ok \in BOOLEAN
        /\ DOMAIN r.fas = Hosts
        /\ r.fas[c.host] = new
        /\ \A h \in Hosts : h # c.host => r.fas[h] = m.fas[h]
    BY <1>0, <1>2, <2>1 DEF IsMerged
  <2>3. /\ DOMAIN new = DOMAIN seen \cup DOMAIN c.fas
        /\ \A p \in DOMAIN new :
              new[p] = IF p \in both THEN Merge(seen[p], c.fas[p])
                       ELSE IF p \in DOMAIN seen THEN seen[p] ELSE c.fas[p]
    BY DEF new
  <2>4. ASSUME NEW p \in both
        PROVE  /\ new[p] \in [Events -> Functions \cup {None}]
               /\ Includes(new[p], seen[p]) /\ Includes(new[p], c.fas[p])
               /\ \A e \in Events : new[p][e] \in {seen[p][e], c.fas[p][e]}
    <3>1. new[p] = Merge(seen[p], c.fas[p]) /\ ~Conflicting(seen[p], c.fas[p])
      BY <2>3, <1>2
    <3>2. /\ seen[p] \in [Events -> Functions \cup {None}]
          /\ c.fas[p] \in [Events -> Functions \cup {None}]
      BY <1>0
    <3> HIDE DEF seen, both
    <3> QED BY <3>1, <3>2, MergeIncludes
  <2>5. ASSUME NEW p \in DOMAIN seen, p \notin both PROVE new[p] = seen[p]
    BY <2>3, <2>5
  <2>6. ASSUME NEW p \in DOMAIN c.fas, p \notin both PROVE new[p] = c.fas[p]
    BY <2>3, <2>6
  <2>7. ASSUME NEW fa PROVE Includes(fa, fa)
    BY DEF Includes
  <2>8. IsMerged(r)
    <3>1. IsFiniteSet(DOMAIN new) /\ DOMAIN new \subseteq Paths
      <4>1. ASSUME NEW A, NEW B, IsFiniteSet(A), IsFiniteSet(B) PROVE IsFiniteSet(A \cup B)
        BY <4>1, FS_Union
      <4>2. IsFiniteSet(DOMAIN seen \cup DOMAIN c.fas)
        BY <1>0, <4>1, Zenon
      <4> QED BY <1>0, <2>3, <4>2
    <3>2. \A p \in DOMAIN new : new[p] \in [Events -> Functions \cup {None}]
      BY <1>0, <2>3, <2>4, <2>5, <2>6
    <3> QED BY <2>2, <3>1, <3>2 DEF IsMerged
  <2>9. \A p \in DOMAIN seen : p \in DOMAIN new /\ Includes(new[p], seen[p])
    BY <2>3, <2>4, <2>5, <2>7
  <2>10. \A p \in DOMAIN c.fas : p \in DOMAIN new /\ Includes(new[p], c.fas[p])
    BY <2>3, <2>4, <2>6, <2>7
  <2>11. \A p \in DOMAIN new :
            /\ p \in DOMAIN seen \/ p \in DOMAIN c.fas
            /\ \A e \in Events : \/ p \in DOMAIN seen /\ new[p][e] = seen[p][e]
                                 \/ p \in DOMAIN c.fas /\ new[p][e] = c.fas[p][e]
    BY <2>3, <2>4, <2>5, <2>6
  <2>12. \A h \in Hosts : \A p \in DOMAIN m.fas[h] :
            p \in DOMAIN r.fas[h] /\ Includes(r.fas[h][p], m.fas[h][p])
    BY <2>2, <2>7, <2>9
  <2>13. ASSUME NEW h \in Hosts, NEW p \in DOMAIN r.fas[h]
         PROVE  /\ p \in DOMAIN m.fas[h] \/ (h = c.host /\ p \in DOMAIN c.fas)
                /\ \A e \in Events :
                      \/ p \in DOMAIN m.fas[h] /\ r.fas[h][p][e] = m.fas[h][p][e]
                      \/ h = c.host /\ p \in DOMAIN c.fas /\ r.fas[h][p][e] = c.fas[p][e]
    <3>1. CASE h = c.host
      BY <3>1, <2>2, <2>11
    <3>2. CASE h # c.host
      BY <3>2, <2>2
    <3> QED BY <3>1, <3>2
  <2> QED BY <2>2, <2>8, <2>10, <2>12, <2>13
<1> QED BY <1>1, <1>2

(* The whole loop keeps every function of every Ingress, adds none, and    *)
(* fails only when two Ingresses conflict.                                 *)
LEMMA MergedPaths ==
    ASSUME NEW S, NEW s \in Seq(S), \A k \in DOMAIN s : IsCDNIngress(s[k]),
           NEW m, m = mergedPaths(s)
    PROVE  /\ IsMerged(m)
           /\ m.ok => MergeKeeps(m, s, Len(s))
           /\ MergeSourced(m, s, Len(s))
           /\ ~m.ok => MergeConflict(s, Len(s))
<1> DEFINE n == Len(s)
<1>0. n \in Nat /\ DOMAIN s = 1 .. n
  OBVIOUS
<1> HIDE DEF n
<1>1. PICK acc : /\ acc[0] = NothingMerged
                 /\ \A k \in 1 .. n : acc[k] = mergeIngress(acc[k - 1], s[k])
                 /\ m = acc[n]
  BY MergedStepwise DEF n
<1> DEFINE Good(k) == /\ IsMerged(acc[k])
                      /\ acc[k].ok => MergeKeeps(acc[k], s, k)
                      /\ MergeSourced(acc[k], s, k)
                      /\ ~acc[k].ok => MergeConflict(s, k)
           T == {k \in 0 .. n : Good(k)}
<1>2. 0 \in T
  <2>1. IsMerged(NothingMerged) /\ NothingMerged.ok
    BY FS_EmptySet DEF IsMerged, NothingMerged
  <2>2. MergeKeeps(NothingMerged, s, 0)
    BY DEF MergeKeeps
  <2>3. MergeSourced(NothingMerged, s, 0)
    BY DEF MergeSourced, NothingMerged
  <2> QED BY <1>0, <1>1, <2>1, <2>2, <2>3
<1>3. ASSUME NEW k \in 0 + 1 .. n, k - 1 \in T PROVE k \in T
  <2>0. /\ k \in Nat /\ k \in 1 .. n /\ k \in 0 .. n /\ k \in 1 .. k
        /\ \A j \in 1 .. k - 1 : j \in 1 .. k
        /\ \A j \in 1 .. k : j = k \/ j \in 1 .. k - 1
    BY <1>0
  <2> DEFINE a == acc[k - 1]
             b == acc[k]
             c == s[k]
  <2>1. Good(k - 1)
    BY <1>3
  <2>2. IsMerged(a) /\ IsCDNIngress(c) /\ b = mergeIngress(a, c)
    BY <2>0, <2>1, <1>0, <1>1
  <2>3. /\ IsMerged(b)
        /\ b.ok => a.ok
        /\ ~b.ok => b.fas = a.fas
        /\ (a.ok /\ ~b.ok) => \E p \in DOMAIN a.fas[c.host] \cap DOMAIN c.fas :
                                 Conflicting(a.fas[c.host][p], c.fas[p])
        /\ b.ok => \A h \in Hosts : \A p \in DOMAIN a.fas[h] :
                      p \in DOMAIN b.fas[h] /\ Includes(b.fas[h][p], a.fas[h][p])
        /\ b.ok => \A p \in DOMAIN c.fas :
                      p \in DOMAIN b.fas[c.host] /\ Includes(b.fas[c.host][p], c.fas[p])
        /\ \A h \in Hosts : \A p \in DOMAIN b.fas[h] :
              /\ p \in DOMAIN a.fas[h] \/ (h = c.host /\ p \in DOMAIN c.fas)
              /\ \A e \in Events :
                    \/ p \in DOMAIN a.fas[h] /\ b.fas[h][p][e] = a.fas[h][p][e]
                    \/ h = c.host /\ p \in DOMAIN c.fas /\ b.fas[h][p][e] = c.fas[p][e]
    <3> HIDE DEF a, b, c
    <3> QED BY <2>2, MergeIngressStep
  <2>4. ASSUME b.ok PROVE MergeKeeps(b, s, k)
    <3>1. a.ok /\ MergeKeeps(a, s, k - 1)
      BY <2>4, <2>3, <2>1
    <3>2. ASSUME NEW j \in 1 .. k, NEW p \in DOMAIN s[j].fas
          PROVE  p \in DOMAIN b.fas[s[j].host] /\ Includes(b.fas[s[j].host][p], s[j].fas[p])
      <4>1. CASE j = k
        BY <4>1, <2>4, <2>3
      <4>2. CASE j \in 1 .. k - 1
        <5> DEFINE h == s[j].host
        <5>1. h \in Hosts
          BY <1>0, <2>0 DEF IsCDNIngress
        <5>2. p \in DOMAIN a.fas[h] /\ Includes(a.fas[h][p], s[j].fas[p])
          BY <4>2, <3>1 DEF MergeKeeps
        <5>3. p \in DOMAIN b.fas[h] /\ Includes(b.fas[h][p], a.fas[h][p])
          BY <5>1, <5>2, <2>3, <2>4
        <5> QED BY <5>2, <5>3 DEF Includes
      <4> QED BY <4>1, <4>2, <2>0
    <3> QED BY <3>2 DEF MergeKeeps
  <2>5. MergeSourced(b, s, k)
    <3>1. ASSUME NEW h \in Hosts, NEW p \in DOMAIN b.fas[h]
          PROVE  \E j \in 1 .. k : s[j].host = h /\ p \in DOMAIN s[j].fas
      BY <2>0, <2>1, <2>3 DEF MergeSourced
    <3>2. ASSUME NEW h \in Hosts, NEW p \in DOMAIN b.fas[h], NEW e \in Events,
                 b.fas[h][p][e] # None
          PROVE  \E j \in 1 .. k : /\ s[j].host = h /\ p \in DOMAIN s[j].fas
                                   /\ s[j].fas[p][e] = b.fas[h][p][e]
      <4>1. CASE h = c.host /\ p \in DOMAIN c.fas /\ b.fas[h][p][e] = c.fas[p][e]
        BY <4>1, <2>0
      <4>2. CASE p \in DOMAIN a.fas[h] /\ b.fas[h][p][e] = a.fas[h][p][e]
        <5>1. PICK j \in 1 .. k - 1 : /\ s[j].host = h /\ p \in DOMAIN s[j].fas
                                      /\ s[j].fas[p][e] = a.fas[h][p][e]
          BY <4>2, <3>2, <2>1 DEF MergeSourced
        <5> QED BY <5>1, <4>2, <2>0
      <4> QED BY <4>1, <4>2, <2>3
    <3> QED BY <3>1, <3>2 DEF MergeSourced
  <2>6. ASSUME ~b.ok PROVE MergeConflict(s, k)
    <3>1. CASE ~a.ok
      <4>1. MergeConflict(s, k - 1)
        BY <3>1, <2>1
      <4> QED BY <4>1, <2>0 DEF MergeConflict
    <3>2. CASE a.ok
      <4>1. PICK p \in DOMAIN a.fas[c.host] \cap DOMAIN c.fas :
                 Conflicting(a.fas[c.host][p], c.fas[p])
        BY <3>2, <2>6, <2>3
      <4>2. PICK e \in Events : /\ a.fas[c.host][p][e] # None /\ c.fas[p][e] # None
                                /\ a.fas[c.host][p][e] # c.fas[p][e]
        BY <4>1 DEF Conflicting
      <4>3. c.host \in Hosts
        BY <2>2 DEF IsCDNIngress
      <4>4. PICK j \in 1 .. k - 1 : /\ s[j].host = c.host /\ p \in DOMAIN s[j].fas
                                    /\ s[j].fas[p][e] = a.fas[c.host][p][e]
        BY <4>2, <4>3, <2>1 DEF MergeSourced
      <4>5. Conflicting(s[j].fas[p], c.fas[p])
        BY <4>2, <4>4 DEF Conflicting
      <4> QED BY <4>4, <4>5, <2>0 DEF MergeConflict
    <3> QED BY <3>1, <3>2
  <2> QED BY <2>0, <2>3, <2>4, <2>5, <2>6
<1>4. Good(n)
  <2> HIDE DEF T
  <2>1. \A k \in 0 .. n : k \in T
    BY <1>0, <1>2, <1>3, UpTo
  <2> QED BY <2>1, <1>0 DEF T
<1> QED BY <1>1, <1>4 DEF n

(* Two contributions to the group conflict.                                *)
Conflict ==
    \E c, d \in Contributions : /\ c.host = d.host
                                /\ \E p \in DOMAIN c.fas \cap DOMAIN d.fas :
                                      Conflicting(c.fas[p], d.fas[p])

(* Whether the merge fails does not depend on the order of the Ingresses.  *)
LEMMA RefusedPaths ==
    ASSUME group \in Groups, NEW s, Lists(s), NEW m, m = mergedPaths(s)
    PROVE  m.ok <=> ~Conflict
<1>1. /\ DOMAIN s = 1 .. Len(s) /\ Len(s) \in Nat
      /\ \A k \in DOMAIN s : s[k] \in Contributions /\ IsCDNIngress(s[k])
      /\ \A c \in Contributions : \E k \in 1 .. Len(s) : s[k] = c
  BY Listed
<1>2. /\ IsMerged(m)
      /\ m.ok => MergeKeeps(m, s, Len(s))
      /\ ~m.ok => MergeConflict(s, Len(s))
  BY <1>1, MergedPaths DEF Lists
<1>3. ~m.ok => Conflict
  BY <1>1, <1>2 DEF MergeConflict, Conflict
<1>4. ASSUME m.ok, NEW c \in Contributions, NEW d \in Contributions, c.host = d.host,
             NEW p \in DOMAIN c.fas \cap DOMAIN d.fas
      PROVE  ~Conflicting(c.fas[p], d.fas[p])
  <2>1. PICK i \in 1 .. Len(s) : s[i] = c
    BY <1>1
  <2>2. PICK j \in 1 .. Len(s) : s[j] = d
    BY <1>1
  <2>3. Includes(m.fas[c.host][p], c.fas[p]) /\ Includes(m.fas[c.host][p], d.fas[p])
    BY <1>2, <1>4, <2>1, <2>2 DEF MergeKeeps
  <2> QED BY <2>3 DEF Includes, Conflicting
<1>5. m.ok => ~Conflict
  BY <1>4 DEF Conflict
<1> QED BY <1>3, <1>5

(* What was merged, said of the group instead of a sequence of its         *)
(* Ingresses.                                                              *)
MergedOf(m) ==
    \A h \in Hosts : \A p :
        /\ p \in DOMAIN m.fas[h] <=> \E c \in Contributions : c.host = h /\ p \in DOMAIN c.fas
        /\ p \in DOMAIN m.fas[h] => \A e \in Events :
              /\ \A c \in Contributions :
                    (c.host = h /\ p \in DOMAIN c.fas /\ c.fas[p][e] # None) =>
                        m.fas[h][p][e] = c.fas[p][e]
              /\ m.fas[h][p][e] # None =>
                    \E c \in Contributions : /\ c.host = h /\ p \in DOMAIN c.fas
                                             /\ c.fas[p][e] = m.fas[h][p][e]

(* A merge that does not fail has the functions of the whole group.        *)
LEMMA MergedAll ==
    ASSUME group \in Groups, NEW s, Lists(s), NEW m, m = mergedPaths(s), m.ok
    PROVE  IsMerged(m) /\ MergedOf(m)
<1>1. /\ DOMAIN s = 1 .. Len(s) /\ Len(s) \in Nat
      /\ \A k \in DOMAIN s : s[k] \in Contributions /\ IsCDNIngress(s[k])
      /\ \A c \in Contributions : \E k \in 1 .. Len(s) : s[k] = c
  BY Listed
<1>2. /\ IsMerged(m)
      /\ MergeKeeps(m, s, Len(s))
      /\ MergeSourced(m, s, Len(s))
  BY <1>1, MergedPaths DEF Lists
<1>3. ASSUME NEW h \in Hosts, NEW p \in DOMAIN m.fas[h]
      PROVE  /\ \E c \in Contributions : c.host = h /\ p \in DOMAIN c.fas
             /\ \A e \in Events : m.fas[h][p][e] # None =>
                   \E c \in Contributions : /\ c.host = h /\ p \in DOMAIN c.fas
                                            /\ c.fas[p][e] = m.fas[h][p][e]
  BY <1>1, <1>2 DEF MergeSourced
<1>4. ASSUME NEW c \in Contributions, NEW p \in DOMAIN c.fas
      PROVE  /\ p \in DOMAIN m.fas[c.host]
             /\ \A e \in Events : c.fas[p][e] # None => m.fas[c.host][p][e] = c.fas[p][e]
  <2>1. PICK k \in 1 .. Len(s) : s[k] = c
    BY <1>1
  <2> QED BY <1>2, <1>4, <2>1 DEF MergeKeeps, Includes
<1> QED BY <1>2, <1>3, <1>4 DEF MergedOf

-----------------------------------------------------------------------------
(* customOrigins: one origin per host                                      *)

(* customOrigins is the last of a chain of WithOrigin steps.               *)
LEMMA OriginsStepwise ==
    ASSUME NEW S, NEW s \in Seq(S), NEW fas
    PROVE  \E acc : /\ acc[0] = <<>>
                    /\ \A k \in 1 .. Len(s) : acc[k] = WithOrigin(acc[k - 1], s[k], fas)
                    /\ customOrigins(s, fas) = acc[Len(s)]
<1> DEFINE n == Len(s)
           Is(g, D) == g = [t \in SUBSET D |->
                              IF t = {} THEN <<>>
                              ELSE WithOrigin(g[t \ {Max(t)}], s[Max(t)], fas)]
           it == CHOOSE g : Is(g, DOMAIN s)
<1>0. n \in Nat /\ DOMAIN s = 1 .. n
  OBVIOUS
<1>1. customOrigins(s, fas) = it[DOMAIN s]
  BY DEF customOrigins, FoldLeft, MapThenFoldSet
<1> HIDE DEF n
<1>2. \A m \in 0 .. n : \E g : Is(g, 1 .. m)
  <2> DEFINE T == {m \in 0 .. n : \E g : Is(g, 1 .. m)}
  <2>1. 0 \in T
    <3>1. Is([t \in SUBSET (1 .. 0) |-> <<>>], 1 .. 0)
      OBVIOUS
    <3> HIDE DEF Is
    <3> QED BY <3>1, <1>0
  <2>2. ASSUME NEW m \in 0 + 1 .. n, m - 1 \in T PROVE m \in T
    <3>1. PICK g : Is(g, 1 .. m - 1)
      BY <2>2
    <3>2. m \in Nat /\ m \in 0 .. n
      BY <1>0
    <3> DEFINE h == [t \in SUBSET (1 .. m) |->
                       IF m \in t THEN WithOrigin(g[t \ {m}], s[m], fas) ELSE g[t]]
    <3>3. ASSUME NEW t \in SUBSET (1 .. m)
          PROVE  h[t] = IF t = {} THEN <<>>
                        ELSE WithOrigin(h[t \ {Max(t)}], s[Max(t)], fas)
      <4> DEFINE x == Max(t)
      <4>1. CASE m \in t
        <5>1. x = m
          BY <4>1, <3>2, MaxIsLast
        <5>2. h[t \ {m}] = g[t \ {m}]
          OBVIOUS
        <5>3. h[t] = WithOrigin(g[t \ {m}], s[m], fas)
          BY <4>1
        <5> QED BY <5>1, <5>2, <5>3, <4>1
      <4>2. CASE m \notin t
        <5>1. t \in SUBSET (1 .. m - 1)
          BY <4>2, <3>2
        <5>2. h[t] = g[t]
          BY <4>2
        <5>3. g[t] = IF t = {} THEN <<>>
                     ELSE WithOrigin(g[t \ {x}], s[x], fas)
          BY <5>1, <3>1
        <5>4. h[t \ {x}] = g[t \ {x}]
          <6> HIDE DEF x
          <6> QED BY <4>2
        <5> QED BY <5>2, <5>3, <5>4
      <4> QED BY <4>1, <4>2
    <3>4. Is(h, 1 .. m)
      BY <3>3
    <3> QED BY <3>4, <3>2
  <2> HIDE DEF T
  <2>3. \A m \in 0 .. n : m \in T
    BY <2>1, <2>2, <1>0, UpTo
  <2> QED BY <2>3 DEF T
<1>3. Is(it, 1 .. n)
  <2>1. \E g : Is(g, DOMAIN s)
    <3> HIDE DEF Is
    <3> QED BY <1>2, <1>0
  <2>2. Is(it, DOMAIN s)
    <3> HIDE DEF Is
    <3> QED BY <2>1, Zenon
  <2> QED BY <2>2, <1>0
<1> HIDE DEF it
<1> DEFINE acc == [k \in 0 .. n |-> it[1 .. k]]
<1>4. acc[0] = <<>>
  <2>1. (1 .. 0) = {} /\ {} \in SUBSET (1 .. n)
    OBVIOUS
  <2> QED BY <2>1, <1>3, <1>0
<1>5. ASSUME NEW k \in 1 .. n PROVE acc[k] = WithOrigin(acc[k - 1], s[k], fas)
  <2>1. /\ k \in Nat /\ k - 1 \in 0 .. n /\ k \in 0 .. n
        /\ (1 .. k) \in SUBSET (1 .. n) /\ k \in 1 .. k
        /\ (1 .. k) \ {k} = 1 .. (k - 1)
    BY <1>0
  <2>2. Max(1 .. k) = k
    BY <2>1, MaxIsLast
  <2>3. it[1 .. k] = WithOrigin(it[(1 .. k) \ {k}], s[k], fas)
    BY <1>3, <2>1, <2>2
  <2> QED BY <2>1, <2>3
<1>6. customOrigins(s, fas) = acc[n]
  BY <1>0, <1>1
<1> QED BY <1>4, <1>5, <1>6 DEF n

(* os has an origin for each host of the first k Ingresses, built from one *)
(* of them.                                                                *)
OriginsOf(os, s, fas, k) ==
    /\ \A j \in 1 .. k : s[j].host \in DOMAIN os
    /\ \A h \in DOMAIN os : \E j \in 1 .. k : s[j].host = h /\ os[h] = newOrigin(s[j], fas)

(* The loop of newDistribution builds such a map.                          *)
LEMMA CustomOrigins ==
    ASSUME NEW S, NEW s \in Seq(S), NEW fas, NEW os, os = customOrigins(s, fas)
    PROVE  IsFiniteSet(DOMAIN os) /\ OriginsOf(os, s, fas, Len(s))
<1> DEFINE n == Len(s)
<1>0. n \in Nat
  OBVIOUS
<1> HIDE DEF n
<1>1. PICK acc : /\ acc[0] = <<>>
                 /\ \A k \in 1 .. n : acc[k] = WithOrigin(acc[k - 1], s[k], fas)
                 /\ os = acc[n]
  BY OriginsStepwise DEF n
<1> DEFINE Good(k) == IsFiniteSet(DOMAIN acc[k]) /\ OriginsOf(acc[k], s, fas, k)
           T == {k \in 0 .. n : Good(k)}
<1>2. 0 \in T
  <2>1. DOMAIN acc[0] = {}
    BY <1>1
  <2>2. IsFiniteSet(DOMAIN acc[0])
    BY <2>1, FS_EmptySet
  <2>3. OriginsOf(acc[0], s, fas, 0)
    BY <2>1 DEF OriginsOf
  <2> QED BY <1>0, <2>2, <2>3
<1>3. ASSUME NEW k \in 0 + 1 .. n, k - 1 \in T PROVE k \in T
  <2>0. /\ k \in 1 .. n /\ k \in 0 .. n /\ k \in 1 .. k
        /\ \A j \in 1 .. k - 1 : j \in 1 .. k
        /\ \A j \in 1 .. k : j = k \/ j \in 1 .. k - 1
    BY <1>0
  <2> DEFINE a == acc[k - 1]
             b == acc[k]
             c == s[k]
  <2>1. Good(k - 1)
    BY <1>3
  <2>2. b = WithOrigin(a, c, fas)
    BY <2>0, <1>1
  <2>3. /\ DOMAIN b = DOMAIN a \cup {c.host}
        /\ \A h \in DOMAIN b : b[h] = IF h = c.host THEN newOrigin(c, fas) ELSE a[h]
    BY <2>2 DEF WithOrigin
  <2>4. IsFiniteSet(DOMAIN b)
    <3> HIDE DEF b, c
    <3> QED BY <2>1, <2>3, FS_AddElement
  <2>5. \A j \in 1 .. k : s[j].host \in DOMAIN b
    BY <2>0, <2>1, <2>3 DEF OriginsOf
  <2>6. ASSUME NEW h \in DOMAIN b
        PROVE  \E j \in 1 .. k : s[j].host = h /\ b[h] = newOrigin(s[j], fas)
    <3>1. CASE h = c.host
      BY <3>1, <2>0, <2>3
    <3>2. CASE h # c.host
      <4>1. h \in DOMAIN a /\ b[h] = a[h]
        BY <3>2, <2>3
      <4>2. PICK j \in 1 .. k - 1 : s[j].host = h /\ a[h] = newOrigin(s[j], fas)
        BY <4>1, <2>1 DEF OriginsOf
      <4> QED BY <4>1, <4>2, <2>0
    <3> QED BY <3>1, <3>2
  <2> QED BY <2>0, <2>4, <2>5, <2>6 DEF OriginsOf
<1>4. Good(n)
  <2> HIDE DEF T
  <2>1. \A k \in 0 .. n : k \in T
    BY <1>0, <1>2, <1>3, UpTo
  <2> QED BY <2>1, <1>0 DEF T
<1> QED BY <1>1, <1>4 DEF n

(* The hosts of the origins are those of the group.                        *)
LEMMA OriginsOfAll ==
    ASSUME group \in Groups, NEW s, Lists(s), NEW fas, NEW os, os = customOrigins(s, fas)
    PROVE  DOMAIN os = {c.host : c \in Contributions}
<1>1. /\ DOMAIN s = 1 .. Len(s)
      /\ \A k \in DOMAIN s : s[k] \in Contributions
      /\ \A c \in Contributions : \E k \in 1 .. Len(s) : s[k] = c
  BY Listed
<1>2. OriginsOf(os, s, fas, Len(s))
  BY CustomOrigins DEF Lists
<1>3. ASSUME NEW c \in Contributions PROVE c.host \in DOMAIN os
  BY <1>1, <1>2 DEF OriginsOf
<1>4. ASSUME NEW h \in DOMAIN os PROVE \E c \in Contributions : h = c.host
  BY <1>1, <1>2 DEF OriginsOf
<1> HIDE DEF Contributions
<1> QED BY <1>3, <1>4

-----------------------------------------------------------------------------
(* The order of cache behaviors                                            *)

(* The switch at the first different character is a strict total order:    *)
(* wildcards come last, "*" after "?".                                     *)
LEMMA PrecedesIsOrder ==
    /\ \A c, d \in Nat : c # d => Precedes(c, d) \/ Precedes(d, c)
    /\ \A c, d \in Nat : ~(Precedes(c, d) /\ Precedes(d, c))
    /\ \A c, d, e \in Nat : Precedes(c, d) /\ Precedes(d, e) => Precedes(c, e)
BY DEF Precedes, Star, Question

(* Of two patterns, one may come before the other.                         *)

LEMMA OrderIsTotal ==
    ASSUME NEW i \in Seq(Nat), NEW j \in Seq(Nat)
    PROVE  isInMostSpecificOrder(i, j) \/ isInMostSpecificOrder(j, i)
<1>1. CASE Len(i) # Len(j) \/ i = j
  BY <1>1 DEF isInMostSpecificOrder
<1>2. CASE Len(i) = Len(j) /\ i # j
  <2> DEFINE D == {k \in 1 .. Len(i) : i[k] # j[k]}
  <2>1. D # {} /\ D \in SUBSET Nat
    <3>1. \E k \in 1 .. Len(i) : i[k] # j[k]
      BY <1>2, SameSequence
    <3>2. \A k \in 1 .. Len(i) : k \in Nat
      OBVIOUS
    <3> QED BY <3>1, <3>2
  <2>2. PICK k \in D : \A l \in D : k <= l
    <3> HIDE DEF D
    <3> QED BY <2>1, LeastNumber
  <2>3. \A m \in 1 .. (k - 1) : i[m] = j[m]
    <3>1. ASSUME NEW m \in 1 .. (k - 1) PROVE m \in 1 .. Len(i) /\ ~(k <= m)
      OBVIOUS
    <3> QED BY <3>1, <2>2
  <2>4. /\ k \in DOMAIN i /\ k \in DOMAIN j /\ i[k] # j[k]
        /\ i[k] \in Nat /\ j[k] \in Nat
    BY <1>2
  <2>5. Precedes(i[k], j[k]) \/ Precedes(j[k], i[k])
    BY <2>4, PrecedesIsOrder
  <2> QED BY <1>2, <2>3, <2>4, <2>5 DEF isInMostSpecificOrder
<1> QED BY <1>1, <1>2

(* Different patterns never come before one another both ways.             *)
LEMMA OrderIsAntisymmetric ==
    ASSUME NEW i \in Seq(Nat), NEW j \in Seq(Nat), i # j,
           isInMostSpecificOrder(i, j), isInMostSpecificOrder(j, i)
    PROVE  FALSE
<1>1. Len(i) = Len(j)
  BY DEF isInMostSpecificOrder
<1>2. PICK k \in DOMAIN i : /\ i[k] # j[k] /\ Precedes(i[k], j[k])
                            /\ \A m \in 1 .. (k - 1) : i[m] = j[m]
  BY <1>1 DEF isInMostSpecificOrder
<1>3. PICK l \in DOMAIN j : /\ j[l] # i[l] /\ Precedes(j[l], i[l])
                            /\ \A m \in 1 .. (l - 1) : j[m] = i[m]
  BY <1>1 DEF isInMostSpecificOrder
<1>4. k = l
  <2>1. k \in Nat /\ l \in Nat /\ k >= 1 /\ l >= 1
    OBVIOUS
  <2>2. ASSUME k < l PROVE k \in 1 .. (l - 1)
    BY <2>1, <2>2
  <2>3. ASSUME l < k PROVE l \in 1 .. (k - 1)
    BY <2>1, <2>3
  <2>4. ~(k < l) /\ ~(l < k)
    BY <2>2, <2>3, <1>2, <1>3
  <2> QED BY <2>1, <2>4
<1>5. i[k] \in Nat /\ j[k] \in Nat
  <2>1. DOMAIN i = DOMAIN j
    BY <1>1
  <2> QED BY <2>1
<1> QED BY <1>2, <1>3, <1>4, <1>5, PrecedesIsOrder

(* isInMostSpecificOrder is transitive; sort.Sort relies on that.          *)
LEMMA OrderIsTransitive ==
    ASSUME NEW i \in Seq(Nat), NEW j \in Seq(Nat), NEW h \in Seq(Nat),
           isInMostSpecificOrder(i, j), isInMostSpecificOrder(j, h)
    PROVE  isInMostSpecificOrder(i, h)
<1>1. CASE Len(i) # Len(j) \/ Len(j) # Len(h)
  <2>1. Len(i) >= Len(j) /\ Len(j) >= Len(h)
    BY DEF isInMostSpecificOrder
  <2> QED BY <1>1, <2>1 DEF isInMostSpecificOrder
<1>2. CASE i = j \/ j = h
  BY <1>2
<1>3. CASE Len(i) = Len(j) /\ Len(j) = Len(h) /\ i # j /\ j # h
  <2>1. PICK k \in DOMAIN i : /\ i[k] # j[k] /\ Precedes(i[k], j[k])
                              /\ \A m \in 1 .. (k - 1) : i[m] = j[m]
    BY <1>3 DEF isInMostSpecificOrder
  <2>2. PICK l \in DOMAIN j : /\ j[l] # h[l] /\ Precedes(j[l], h[l])
                              /\ \A m \in 1 .. (l - 1) : j[m] = h[m]
    BY <1>3 DEF isInMostSpecificOrder
  <2>3. /\ k \in Nat /\ l \in Nat /\ k >= 1 /\ l >= 1
        /\ k \in DOMAIN j /\ k \in DOMAIN h /\ l \in DOMAIN i /\ l \in DOMAIN h
        /\ i[k] \in Nat /\ j[k] \in Nat /\ h[k] \in Nat
        /\ i[l] \in Nat /\ j[l] \in Nat /\ h[l] \in Nat
    <3>1. DOMAIN i = DOMAIN j /\ DOMAIN h = DOMAIN j
      BY <1>3
    <3>2. k \in Nat /\ l \in Nat /\ k >= 1 /\ l >= 1
      OBVIOUS
    <3> QED BY <3>1, <3>2
  <2>7. \A x, y \in Nat : (x >= 1 /\ x < y) =>
           x \in 1 .. (y - 1) /\ \A m \in 1 .. (x - 1) : m \in 1 .. (y - 1)
    OBVIOUS
  <2>4. CASE k < l
    <3>1. j[k] = h[k] /\ \A m \in 1 .. (k - 1) : j[m] = h[m]
      <4>1. k \in 1 .. (l - 1) /\ \A m \in 1 .. (k - 1) : m \in 1 .. (l - 1)
        BY <2>3, <2>4, <2>7
      <4> QED BY <2>2, <4>1
    <3> QED BY <1>3, <2>1, <2>3, <3>1 DEF isInMostSpecificOrder
  <2>5. CASE l < k
    <3>1. i[l] = j[l] /\ \A m \in 1 .. (l - 1) : i[m] = j[m]
      <4>1. l \in 1 .. (k - 1) /\ \A m \in 1 .. (l - 1) : m \in 1 .. (k - 1)
        BY <2>3, <2>5, <2>7
      <4> QED BY <2>1, <4>1
    <3> QED BY <1>3, <2>2, <2>3, <3>1 DEF isInMostSpecificOrder
  <2>6. CASE k = l
    <3>1. Precedes(i[k], h[k]) /\ i[k] # h[k]
      BY <2>1, <2>2, <2>3, <2>6, PrecedesIsOrder
    <3>2. \A m \in 1 .. (k - 1) : i[m] = h[m]
      BY <2>1, <2>2, <2>6
    <3> QED BY <1>3, <2>3, <3>1, <3>2 DEF isInMostSpecificOrder
  <2> QED BY <2>3, <2>4, <2>5, <2>6
<1> QED BY <1>1, <1>2, <1>3

(* R is a strict total order of B.                                         *)
Orders(R, B) ==
    /\ \A x, y \in B : x # y => <<x, y>> \in R \/ <<y, x>> \in R
    /\ \A x, y \in B : x # y => ~(<<x, y>> \in R /\ <<y, x>> \in R)
    /\ \A x, y, z \in B : x # y /\ y # z /\ <<x, y>> \in R /\ <<y, z>> \in R => <<x, z>> \in R

(* What comes before b.                                                    *)
Below(b, R, B) == {c \in B \ {b} : <<c, b>> \in R}

(* In a finite strict total order, the number of elements below one tells  *)
(* it apart from the others and grows with the order.                      *)
LEMMA RankIsUnique ==
    ASSUME NEW B, IsFiniteSet(B), NEW R, Orders(R, B), NEW b \in B, NEW c \in B
    PROVE  /\ Cardinality(Below(b, R, B)) + 1 \in 1 .. Cardinality(B)
           /\ (b # c /\ <<b, c>> \in R) =>
                 Cardinality(Below(b, R, B)) < Cardinality(Below(c, R, B))
           /\ Cardinality(Below(b, R, B)) = Cardinality(Below(c, R, B)) => b = c
<1>1. ASSUME NEW x \in B
      PROVE  /\ IsFiniteSet(Below(x, R, B)) /\ Cardinality(Below(x, R, B)) \in Nat
             /\ Cardinality(Below(x, R, B)) + 1 <= Cardinality(B)
  <2>1. IsFiniteSet(B \ {x}) /\ Cardinality(B \ {x}) = Cardinality(B) - 1
    BY FS_RemoveElement
  <2>2. Below(x, R, B) \in SUBSET (B \ {x})
    BY DEF Below
  <2>3. /\ IsFiniteSet(Below(x, R, B))
        /\ Cardinality(Below(x, R, B)) <= Cardinality(B \ {x})
    BY <2>1, <2>2, FS_Subset
  <2>4. Cardinality(Below(x, R, B)) \in Nat /\ Cardinality(B) \in Nat
    BY <2>3, FS_CardinalityType
  <2> QED BY <2>1, <2>3, <2>4
<1>2. ASSUME NEW x \in B, NEW y \in B, x # y, <<x, y>> \in R
      PROVE  Cardinality(Below(x, R, B)) < Cardinality(Below(y, R, B))
  <2> DEFINE A == Below(x, R, B) \cup {x}
  <2>1. A \in SUBSET Below(y, R, B)
    BY <1>2 DEF Below, Orders
  <2>2. x \notin Below(x, R, B)
    BY DEF Below
  <2>3. Cardinality(A) = Cardinality(Below(x, R, B)) + 1
    BY <1>1, <2>2, FS_AddElement
  <2>4. Cardinality(A) <= Cardinality(Below(y, R, B))
    <3> HIDE DEF A
    <3> QED BY <1>1, <2>1, FS_Subset
  <2> QED BY <1>1, <2>3, <2>4
<1>3. Cardinality(Below(b, R, B)) + 1 \in 1 .. Cardinality(B)
  <2>1. Cardinality(B) \in Nat
    BY FS_CardinalityType
  <2> QED BY <1>1, <2>1
<1>4. ASSUME Cardinality(Below(b, R, B)) = Cardinality(Below(c, R, B)), b # c PROVE FALSE
  <2>1. <<b, c>> \in R \/ <<c, b>> \in R
    BY <1>4 DEF Orders
  <2>2. Cardinality(Below(b, R, B)) \in Nat
    BY <1>1
  <2> QED BY <1>2, <1>4, <2>1, <2>2
<1> QED BY <1>2, <1>3, <1>4

(* Behaviors of which no two have both pattern and host in common.         *)
AreBehaviors(bs) ==
    /\ IsFiniteSet(bs)
    /\ \A b \in bs : b.pattern \in Seq(Nat)
    /\ \A b, c \in bs : b.pattern = c.pattern /\ b.host = c.host => b = c

(* sorted has the behaviors bs, each at the place pos gives it, and more   *)
(* specific patterns come first.                                           *)
InOrder(pos, sorted, bs) ==
    /\ \A b \in bs : pos[b] \in DOMAIN sorted /\ sorted[pos[b]] = b
    /\ \A k \in DOMAIN sorted : \E b \in bs : pos[b] = k
    /\ \A b, c \in bs : (b.pattern # c.pattern /\ isInMostSpecificOrder(b.pattern, c.pattern)) =>
                           pos[b] < pos[c]

(* SortedCustomBehaviors loses no behavior, has none twice and puts more   *)
(* specific patterns first, whatever the order among equal patterns.       *)
LEMMA SortedInOrder ==
    ASSUME NEW bs, AreBehaviors(bs), NEW sorted \in SortedCustomBehaviors(bs)
    PROVE  /\ DOMAIN sorted = 1 .. Cardinality(bs)
           /\ \E pos : InOrder(pos, sorted, bs)
<1> DEFINE hosts == {x.host : x \in bs}
           shared == {x.pattern : x \in {y \in bs : \E d \in bs : /\ d # y
                                                                  /\ d.pattern = y.pattern}}
           Before(x, y, tie) ==
               IF x.pattern = y.pattern THEN tie[x.pattern][x.host] < tie[x.pattern][y.host]
               ELSE isInMostSpecificOrder(x.pattern, y.pattern)
<1>1. PICK tie \in [shared -> Bijection(hosts, 1 .. Cardinality(hosts))] :
           sorted = [k \in 1 .. Cardinality(bs) |->
                       CHOOSE x \in bs : Cardinality({c \in bs \ {x} : Before(c, x, tie)}) = k - 1]
  BY DEF SortedCustomBehaviors
<1> DEFINE R == {p \in bs \X bs : Before(p[1], p[2], tie)}
<1>2. ASSUME NEW x \in bs, NEW y \in bs PROVE <<x, y>> \in R <=> Before(x, y, tie)
  <2> HIDE DEF Before
  <2> QED OBVIOUS
<1>3. ASSUME NEW x \in bs, NEW y \in bs, x # y, x.pattern = y.pattern
      PROVE  /\ tie[x.pattern][x.host] \in Int /\ tie[x.pattern][y.host] \in Int
             /\ tie[x.pattern][x.host] # tie[x.pattern][y.host]
  <2>1. x.pattern \in shared
    BY <1>3
  <2>2. PICK f : f = tie[x.pattern] /\ f \in Bijection(hosts, 1 .. Cardinality(hosts))
    BY <2>1, <1>1
  <2>3. /\ f \in [hosts -> 1 .. Cardinality(hosts)]
        /\ \A u, v \in hosts : f[u] = f[v] => u = v
    BY <2>2 DEF Bijection, Injection, IsInjective
  <2>4. x.host \in hosts /\ y.host \in hosts /\ x.host # y.host
    BY <1>3 DEF AreBehaviors
  <2> HIDE DEF hosts
  <2>5. f[x.host] # f[y.host] /\ f[x.host] \in 1 .. Cardinality(hosts) /\ f[y.host] \in 1 .. Cardinality(hosts)
    BY <2>3, <2>4
  <2> QED BY <2>2, <2>5
<1> HIDE DEF R
<1>4. Orders(R, bs)
  <2>1. ASSUME NEW x \in bs, NEW y \in bs, x # y
        PROVE  /\ Before(x, y, tie) \/ Before(y, x, tie)
               /\ ~(Before(x, y, tie) /\ Before(y, x, tie))
    <3>1. CASE x.pattern = y.pattern
      BY <2>1, <3>1, <1>3
    <3>2. CASE x.pattern # y.pattern
      <4>1. x.pattern \in Seq(Nat) /\ y.pattern \in Seq(Nat)
        BY DEF AreBehaviors
      <4> QED BY <3>2, <4>1, OrderIsTotal, OrderIsAntisymmetric
    <3> QED BY <3>1, <3>2
  <2>2. ASSUME NEW x \in bs, NEW y \in bs, NEW z \in bs, x # y, y # z,
               Before(x, y, tie), Before(y, z, tie)
        PROVE  Before(x, z, tie)
    <3>1. x.pattern \in Seq(Nat) /\ y.pattern \in Seq(Nat) /\ z.pattern \in Seq(Nat)
      BY DEF AreBehaviors
    <3>2. CASE x.pattern = y.pattern /\ y.pattern = z.pattern
      <4>1. tie[x.pattern][x.host] < tie[x.pattern][y.host] /\ tie[x.pattern][y.host] < tie[x.pattern][z.host]
        BY <2>2, <3>2
      <4>2. /\ tie[x.pattern][x.host] \in Int /\ tie[x.pattern][y.host] \in Int
            /\ tie[x.pattern][z.host] \in Int
        BY <2>2, <3>2, <1>3
      <4>3. tie[x.pattern][x.host] < tie[x.pattern][z.host]
        BY <4>1, <4>2
      <4> QED BY <3>2, <4>3
    <3>3. CASE x.pattern = y.pattern /\ y.pattern # z.pattern
      BY <2>2, <3>3
    <3>4. CASE x.pattern # y.pattern /\ y.pattern = z.pattern
      BY <2>2, <3>4
    <3>5. CASE x.pattern # y.pattern /\ y.pattern # z.pattern
      <4>1. /\ isInMostSpecificOrder(x.pattern, y.pattern)
            /\ isInMostSpecificOrder(y.pattern, z.pattern)
        BY <2>2, <3>5
      <4>2. x.pattern # z.pattern
        BY <4>1, <3>1, <3>5, OrderIsAntisymmetric
      <4>3. isInMostSpecificOrder(x.pattern, z.pattern)
        BY <4>1, <3>1, OrderIsTransitive
      <4> QED BY <4>2, <4>3
    <3> QED BY <3>2, <3>3, <3>4, <3>5
  <2> HIDE DEF Before
  <2> QED BY <1>2, <2>1, <2>2 DEF Orders
<1>5. ASSUME NEW x \in bs PROVE {c \in bs \ {x} : Before(c, x, tie)} = Below(x, R, bs)
  <2> HIDE DEF Before
  <2> QED BY <1>2 DEF Below
<1> DEFINE rank(x) == Cardinality(Below(x, R, bs))
           pos == [x \in bs |-> rank(x) + 1]
           N == Cardinality(bs)
<1>6. ASSUME NEW x \in bs
      PROVE  /\ rank(x) \in Nat /\ rank(x) + 1 \in 1 .. N
             /\ \A y \in bs : rank(y) = rank(x) => y = x
             /\ \A y \in bs : (x # y /\ <<x, y>> \in R) => rank(x) < rank(y)
  <2>1. IsFiniteSet(Below(x, R, bs))
    <3>1. Below(x, R, bs) \in SUBSET bs
      BY DEF Below
    <3> QED BY <3>1, FS_Subset DEF AreBehaviors
  <2>2. rank(x) \in Nat
    BY <2>1, FS_CardinalityType
  <2>3. /\ rank(x) + 1 \in 1 .. N
        /\ \A y \in bs : rank(y) = rank(x) => y = x
        /\ \A y \in bs : (x # y /\ <<x, y>> \in R) => rank(x) < rank(y)
    <3> HIDE DEF R
    <3> QED BY <1>4, RankIsUnique DEF AreBehaviors
  <2> QED BY <2>2, <2>3
<1>7. DOMAIN sorted = 1 .. N
  BY <1>1
<1>8. ASSUME NEW b \in bs PROVE pos[b] \in 1 .. N /\ sorted[pos[b]] = b
  <2> DEFINE k == rank(b) + 1
             P(x) == Cardinality({c \in bs \ {x} : Before(c, x, tie)}) = k - 1
  <2>1. k \in 1 .. N /\ k - 1 = rank(b)
    BY <1>6
  <2>2. sorted[k] = CHOOSE x \in bs : Cardinality({c \in bs \ {x} : Before(c, x, tie)}) = k - 1
    <3> HIDE DEF Before, k, N
    <3> QED BY <1>1, <2>1 DEF N
  <2>3. \A x \in bs : P(x) <=> rank(x) = rank(b)
    <3> HIDE DEF Before, k
    <3> QED BY <1>5, <2>1
  <2>4. P(b) /\ \A x \in bs : P(x) => x = b
    <3> HIDE DEF P, rank
    <3> QED BY <2>3, <1>6
  <2>5. sorted[k] = CHOOSE x \in bs : P(x)
    BY <2>2, Zenon
  <2>6. sorted[k] = b
    <3> HIDE DEF P, k
    <3> QED BY <2>4, <2>5
  <2> QED BY <2>1, <2>6
<1>9. ASSUME NEW b \in bs, NEW c \in bs, b.pattern # c.pattern,
             isInMostSpecificOrder(b.pattern, c.pattern)
      PROVE  pos[b] < pos[c]
  <2>1. b # c /\ <<b, c>> \in R
    BY <1>2, <1>9
  <2> HIDE DEF R, rank
  <2> QED BY <1>6, <2>1
<1>10. ASSUME NEW k \in 1 .. N PROVE \E b \in bs : pos[b] = k
  <2>1. N \in Nat
    BY FS_CardinalityType DEF AreBehaviors
  <2> HIDE DEF R, rank, N
  <2>2. pos \in [bs -> 1 .. N]
    BY <1>6
  <2>3. ASSUME NEW x \in bs, NEW y \in bs, pos[x] = pos[y] PROVE x = y
    BY <1>6, <2>3
  <2> HIDE DEF pos
  <2>4. pos \in Injection(bs, 1 .. N)
    BY <2>2, <2>3 DEF Injection, IsInjective
  <2>5. IsFiniteSet(1 .. N) /\ Cardinality(1 .. N) = N
    BY <2>1, FS_Interval
  <2>6. pos \in Surjection(bs, 1 .. N)
    BY <2>4, <2>5, FS_Injection DEF N
  <2> QED BY <2>6 DEF Surjection
<1>11. InOrder(pos, sorted, bs)
  <2> HIDE DEF pos, N
  <2> QED BY <1>7, <1>8, <1>9, <1>10 DEF InOrder
<1> HIDE DEF pos
<1> QED BY <1>7, <1>11

(* Every behavior is somewhere in the sorted list.                         *)
LEMMA SortedHasAll ==
    ASSUME NEW bs, AreBehaviors(bs), NEW sorted \in SortedCustomBehaviors(bs), NEW b \in bs
    PROVE  \E k \in DOMAIN sorted : sorted[k] = b
BY SortedInOrder DEF InOrder

(* When no pattern is shared, there is one way to sort.                    *)
LEMMA SortedOneWay ==
    ASSUME NEW bs, \A b, c \in bs : b.pattern = c.pattern => b = c,
           NEW u \in SortedCustomBehaviors(bs), NEW v \in SortedCustomBehaviors(bs)
    PROVE  u = v
<1> DEFINE hosts == {x.host : x \in bs}
           shared == {x.pattern : x \in {y \in bs : \E d \in bs : /\ d # y
                                                                  /\ d.pattern = y.pattern}}
           Before(x, y, tie) ==
               IF x.pattern = y.pattern THEN tie[x.pattern][x.host] < tie[x.pattern][y.host]
               ELSE isInMostSpecificOrder(x.pattern, y.pattern)
           Sorted(tie) ==
               [k \in 1 .. Cardinality(bs) |->
                  CHOOSE x \in bs : Cardinality({c \in bs \ {x} : Before(c, x, tie)}) = k - 1]
           B == Bijection(hosts, 1 .. Cardinality(hosts))
<1>1. PICK x \in [shared -> B] : u = Sorted(x)
  BY DEF SortedCustomBehaviors
<1>2. PICK y \in [shared -> B] : v = Sorted(y)
  BY DEF SortedCustomBehaviors
<1>3. shared = {}
  OBVIOUS
<1> HIDE DEF shared, B, Sorted
<1>4. x = y
  BY <1>1, <1>2, <1>3
<1> QED BY <1>1, <1>2, <1>4

-----------------------------------------------------------------------------
(* Cache behaviors and their functions                                     *)

(* A path has finitely many patterns, which are strings.                   *)
LEMMA PatternsOfPath ==
    ASSUME NEW p \in Paths
    PROVE  pathPatternsForPath(p) \subseteq Seq(Nat) /\ IsFiniteSet(pathPatternsForPath(p))
<1>1. ASSUME NEW x, NEW y PROVE IsFiniteSet({x}) /\ IsFiniteSet({x, y})
  <2>1. IsFiniteSet({x})
    BY FS_Singleton
  <2>2. IsFiniteSet({x} \cup {y})
    BY <2>1, FS_AddElement
  <2>3. {x} \cup {y} = {x, y}
    OBVIOUS
  <2> QED BY <2>1, <2>2, <2>3
<1> DEFINE path == p.pattern
<1>2. path \in Seq(Nat) /\ Len(path) > 0
  BY PatternsAssumption DEF Paths
<1>3. TrimSuffix(path) \in Seq(Nat)
  BY <1>2 DEF TrimSuffix, Front
<1>4. <<Slash, Star>> \in Seq(Nat)
  BY DEF Slash, Star
<1>5. TrimSuffix(path) \o <<Slash, Star>> \in Seq(Nat)
  BY <1>3, <1>4
<1>6. \/ pathPatternsForPath(p) = {path}
      \/ pathPatternsForPath(p) = {<<Slash, Star>>}
      \/ pathPatternsForPath(p) = {TrimSuffix(path), TrimSuffix(path) \o <<Slash, Star>>}
  BY DEF pathPatternsForPath, buildPatternsForPrefix
<1> HIDE DEF path
<1> QED BY <1>1, <1>2, <1>3, <1>4, <1>5, <1>6

(* The image of a finite set is finite.                                    *)
LEMMA ImageIsFinite ==
    ASSUME NEW D, IsFiniteSet(D), NEW f
    PROVE  IsFiniteSet({f[x] : x \in D})
<1> DEFINE T == {f[x] : x \in D}
           g == [x \in D |-> f[x]]
<1>1. g \in Surjection(D, T)
  BY DEF Surjection
<1> HIDE DEF g, T
<1>2. IsFiniteSet(T)
  BY <1>1, FS_Surjection
<1> QED BY <1>2 DEF T

(* The behaviors of the origin of a host are those of all paths merged for *)
(* the host.                                                               *)
LEMMA OriginBehaviors ==
    ASSUME NEW m, IsMerged(m), NEW S, NEW s \in Seq(S), NEW os,
           OriginsOf(os, s, m.fas, Len(s)), NEW h \in DOMAIN os,
           \A k \in DOMAIN s : IsCDNIngress(s[k])
    PROVE  /\ h \in Hosts
           /\ os[h].behaviors = addBehaviors(m.fas[h])
           /\ DOMAIN os[h].behaviors = UNION {pathPatternsForPath(p) : p \in DOMAIN m.fas[h]}
           /\ DOMAIN os[h].behaviors \subseteq Seq(Nat)
           /\ IsFiniteSet(DOMAIN os[h].behaviors)
<1>1. PICK j \in 1 .. Len(s) : s[j].host = h /\ os[h] = newOrigin(s[j], m.fas)
  BY DEF OriginsOf
<1>2. h \in Hosts
  BY <1>1 DEF IsCDNIngress
<1>3. os[h].behaviors = addBehaviors(m.fas[h])
  BY <1>1 DEF newOrigin, PathsFromOrigin
<1> DEFINE ps == DOMAIN m.fas[h]
           f == [p \in ps |-> pathPatternsForPath(p)]
<1>4. DOMAIN os[h].behaviors = UNION {pathPatternsForPath(p) : p \in ps}
  BY <1>3 DEF addBehaviors
<1>5. IsFiniteSet(ps) /\ ps \subseteq Paths
  BY <1>2 DEF IsMerged
<1>6. IsFiniteSet({f[p] : p \in ps})
  <2> HIDE DEF f, ps
  <2> QED BY <1>5, ImageIsFinite
<1> HIDE DEF ps
<1>7. {f[p] : p \in ps} = {pathPatternsForPath(p) : p \in ps}
  OBVIOUS
<1>8. \A U \in {pathPatternsForPath(p) : p \in ps} : IsFiniteSet(U) /\ U \subseteq Seq(Nat)
  BY <1>5, PatternsOfPath
<1>9. IsFiniteSet(UNION {pathPatternsForPath(p) : p \in ps})
  <2> DEFINE U == {pathPatternsForPath(p) : p \in ps}
  <2>1. IsFiniteSet(U) /\ \A V \in U : IsFiniteSet(V)
    BY <1>6, <1>7, <1>8
  <2> HIDE DEF U
  <2>2. IsFiniteSet(UNION U)
    BY <2>1, FS_UNION
  <2> QED BY <2>2 DEF U
<1> QED BY <1>2, <1>3, <1>4, <1>8, <1>9 DEF ps

(* There is one cache behavior for a host and a pattern.                   *)
LEMMA CacheBehaviors ==
    ASSUME NEW m, IsMerged(m), NEW S, NEW s \in Seq(S), NEW os,
           OriginsOf(os, s, m.fas, Len(s)), IsFiniteSet(DOMAIN os),
           \A k \in DOMAIN s : IsCDNIngress(s[k])
    PROVE  AreBehaviors(cacheBehaviors(os))
<1> DEFINE Of(h) == {newCacheBehavior(h, os[h], pp) : pp \in DOMAIN os[h].behaviors}
           f == [h \in DOMAIN os |-> Of(h)]
<1>1. ASSUME NEW h \in DOMAIN os
      PROVE  /\ DOMAIN os[h].behaviors \subseteq Seq(Nat)
             /\ IsFiniteSet(DOMAIN os[h].behaviors)
  BY OriginBehaviors
<1>2. ASSUME NEW h, NEW pp
      PROVE  newCacheBehavior(h, os[h], pp).host = h /\ newCacheBehavior(h, os[h], pp).pattern = pp
  BY DEF newCacheBehavior
<1>3. ASSUME NEW b \in cacheBehaviors(os)
      PROVE  \E h \in DOMAIN os : \E pp \in DOMAIN os[h].behaviors :
                b = newCacheBehavior(h, os[h], pp)
  BY DEF cacheBehaviors
<1>4. ASSUME NEW h \in DOMAIN os PROVE IsFiniteSet(Of(h))
  <2> DEFINE D == DOMAIN os[h].behaviors
             g == [pp \in D |-> newCacheBehavior(h, os[h], pp)]
  <2>1. IsFiniteSet(D)
    BY <1>1
  <2>2. Of(h) = {g[pp] : pp \in D}
    OBVIOUS
  <2>3. IsFiniteSet({g[pp] : pp \in D})
    <3> HIDE DEF D, g
    <3> QED BY <2>1, ImageIsFinite
  <2> HIDE DEF Of, g, D
  <2> QED BY <2>2, <2>3
<1>5. IsFiniteSet(cacheBehaviors(os))
  <2> HIDE DEF Of
  <2> DEFINE U == {f[h] : h \in DOMAIN os}
  <2>1. IsFiniteSet(U)
    <3> HIDE DEF f
    <3> QED BY ImageIsFinite
  <2>2. \A V \in U : IsFiniteSet(V)
    BY <1>4
  <2>3. U = {Of(h) : h \in DOMAIN os}
    OBVIOUS
  <2>4. cacheBehaviors(os) = UNION U
    BY <2>3 DEF cacheBehaviors, Of
  <2> HIDE DEF U
  <2> QED BY <2>1, <2>2, <2>4, FS_UNION
<1>6. \A b \in cacheBehaviors(os) : b.pattern \in Seq(Nat)
  <2> SUFFICES ASSUME NEW b \in cacheBehaviors(os) PROVE b.pattern \in Seq(Nat)
    OBVIOUS
  <2>1. PICK h \in DOMAIN os : \E pp \in DOMAIN os[h].behaviors :
                                   b = newCacheBehavior(h, os[h], pp)
    BY <1>3
  <2>2. PICK pp \in DOMAIN os[h].behaviors : b = newCacheBehavior(h, os[h], pp)
    BY <2>1
  <2>3. b.pattern = pp
    BY <1>2, <2>2
  <2> QED BY <1>1, <2>3
<1>7. ASSUME NEW b \in cacheBehaviors(os), NEW c \in cacheBehaviors(os),
             b.pattern = c.pattern, b.host = c.host
      PROVE  b = c
  <2>1. PICK h, pp : b = newCacheBehavior(h, os[h], pp)
    BY <1>3
  <2>2. PICK g, qq : c = newCacheBehavior(g, os[g], qq)
    BY <1>3
  <2>3. b.host = h /\ b.pattern = pp /\ c.host = g /\ c.pattern = qq
    BY <2>1, <2>2 DEF newCacheBehavior
  <2>4. h = g /\ pp = qq
    BY <1>7, <2>3
  <2> QED BY <2>1, <2>2, <2>4
<1> QED BY <1>5, <1>6, <1>7 DEF AreBehaviors

(* The behavior b has the function f for event e, in the list of its type. *)
Attached(f, e, b) ==
    IF f.type = "cloudfront" THEN [event |-> e, arn |-> f.arn] \in b.functions
    ELSE [event |-> e, arn |-> f.arn, body |-> f.body] \in b.lambdas

(* newCacheBehavior attaches every function of every path that has the     *)
(* pattern.                                                                *)
LEMMA BehaviorHasFunction ==
    ASSUME NEW ps, NEW h, NEW o, o.behaviors = addBehaviors(ps), NEW p \in DOMAIN ps,
           NEW e \in Events, NEW f, ps[p][e] = f, f # None, f \in Functions,
           NEW pp \in pathPatternsForPath(p)
    PROVE  /\ pp \in DOMAIN o.behaviors
           /\ Attached(f, e, newCacheBehavior(h, o, pp))
<1> DEFINE x == [event |-> e, fn |-> f]
<1>1. pp \in DOMAIN o.behaviors
  BY DEF addBehaviors
<1>2. x \in o.behaviors[pp]
  <2>1. o.behaviors[pp] = UNION {{[event |-> d, fn |-> ps[q][d]] : d \in Events} :
                                 q \in {r \in DOMAIN ps : pp \in pathPatternsForPath(r)}}
    BY <1>1 DEF addBehaviors
  <2>2. x \in {[event |-> d, fn |-> ps[p][d]] : d \in Events}
    OBVIOUS
  <2> QED BY <2>1, <2>2
<1>3. x.fn = f /\ x.event = e
  OBVIOUS
<1>4. f.type \in {"cloudfront", "edge"}
  BY DEF Functions
<1> HIDE DEF x
<1>5. CASE f.type = "cloudfront"
  <2>1. [event |-> x.event, arn |-> x.fn.arn] \in newCacheBehavior(h, o, pp).functions
    BY <1>2, <1>3, <1>5 DEF newCacheBehavior
  <2> QED BY <2>1, <1>1, <1>3, <1>5 DEF Attached
<1>6. CASE f.type = "edge"
  <2>1. [event |-> x.event, arn |-> x.fn.arn, body |-> x.fn.body] \in newCacheBehavior(h, o, pp).lambdas
    BY <1>2, <1>3, <1>6 DEF newCacheBehavior
  <2> QED BY <2>1, <1>1, <1>3, <1>6 DEF Attached
<1> QED BY <1>4, <1>5, <1>6

(* A function of any contribution is attached in a desired distribution.   *)
LEMMA DesiredFunctions ==
    ASSUME InputsKept, NEW order \in SetToSeqs(Names),
           NEW r \in desiredState(Fetched(order)), r.ok,
           NEW c \in Contributions, NEW p \in DOMAIN c.fas, NEW e \in Events,
           c.fas[p][e] # None, NEW pp \in pathPatternsForPath(p)
    PROVE  \E k \in DOMAIN r.behaviors :
              /\ r.behaviors[k].host = c.host /\ r.behaviors[k].pattern = pp
              /\ Attached(c.fas[p][e], e, r.behaviors[k])
<1>0. group \in Groups
  BY DEF InputsKept
<1> DEFINE s == Fetched(order)
           m == mergedPaths(s)
           os == customOrigins(s, m.fas)
           bs == cacheBehaviors(os)
           f == c.fas[p][e]
           h == c.host
           b == newCacheBehavior(h, os[h], pp)
<1>1. m.ok /\ r.behaviors \in SortedCustomBehaviors(bs)
  BY DEF desiredState, Refused
<1>2. s \in Seq(Contributions) /\ \E k \in DOMAIN s : s[k] = c
  BY <1>0, FetchedIsContributed
<1> HIDE DEF s
<1>3. DOMAIN s = 1 .. Len(s) /\ Len(s) \in Nat /\ \A k \in DOMAIN s : s[k] \in Contributions
  BY <1>2
<1>4. \A k \in DOMAIN s : IsCDNIngress(s[k])
  BY <1>0, <1>3, Contributed
<1> HIDE DEF m
<1>5. IsMerged(m) /\ MergeKeeps(m, s, Len(s))
  BY <1>1, <1>2, <1>4, MergedPaths DEF m
<1> HIDE DEF os
<1>6. IsFiniteSet(DOMAIN os) /\ OriginsOf(os, s, m.fas, Len(s))
  BY <1>2, CustomOrigins DEF os
<1>7. AreBehaviors(bs)
  BY <1>2, <1>4, <1>5, <1>6, CacheBehaviors
<1>8. PICK j \in 1 .. Len(s) : s[j] = c
  BY <1>2, <1>3
<1>9. h \in DOMAIN os /\ IsCDNIngress(c)
  BY <1>3, <1>4, <1>6, <1>8 DEF OriginsOf
<1>10. os[h].behaviors = addBehaviors(m.fas[h])
  BY <1>2, <1>4, <1>5, <1>6, <1>9, OriginBehaviors
<1>11. p \in DOMAIN m.fas[h] /\ m.fas[h][p][e] = f
  BY <1>5, <1>8 DEF MergeKeeps, Includes
<1>12. f \in Functions
  BY <1>9, AssociationsTyped DEF IsCDNIngress
<1>13. pp \in DOMAIN os[h].behaviors /\ Attached(f, e, b)
  <2> HIDE DEF f, h
  <2>1. f # None
    BY DEF f
  <2> QED BY <1>10, <1>11, <1>12, <2>1, BehaviorHasFunction
<1>14. b \in bs
  BY <1>9, <1>13 DEF cacheBehaviors
<1>15. b.host = h /\ b.pattern = pp
  BY DEF newCacheBehavior
<1>16. \E k \in DOMAIN r.behaviors : r.behaviors[k] = b
  <2> HIDE DEF b, bs
  <2> QED BY <1>1, <1>7, <1>14, SortedHasAll
<1> HIDE DEF b, f, h
<1>17. \E k \in DOMAIN r.behaviors :
          /\ r.behaviors[k].host = h /\ r.behaviors[k].pattern = pp
          /\ Attached(f, e, r.behaviors[k])
  BY <1>13, <1>15, <1>16
<1> QED BY <1>17 DEF f, h

(* Every function that an Ingress asks for on a path is on each cache      *)
(* behavior of that path, whoever shares the host and the path and in      *)
(* whatever order the Ingresses were merged.                               *)

THEOREM FunctionsAreKept == Spec => []FunctionsKept
<1>1. InputsKept /\ ResultIsDesired => FunctionsKept
  <2> SUFFICES ASSUME InputsKept, ResultIsDesired, Built,
                      NEW c \in Contributions, NEW p \in DOMAIN c.fas, NEW e \in Events,
                      c.fas[p][e] # None, NEW pp \in pathPatternsForPath(p)
               PROVE  \E k \in DOMAIN result.behaviors :
                         /\ result.behaviors[k].host = c.host /\ result.behaviors[k].pattern = pp
                         /\ Attached(c.fas[p][e], e, result.behaviors[k])
    BY DEF FunctionsKept, Attached
  <2> QED BY DesiredFunctions DEF ResultIsDesired, Built
<1> QED BY <1>1, BuilderInvariance, PTL


(* bs are the behaviors of the paths of the group.                         *)
BehaviorsOf(bs) ==
    /\ \A b \in bs : \E c \in Contributions : \E p \in DOMAIN c.fas :
          b.host = c.host /\ b.pattern \in pathPatternsForPath(p)
    /\ \A c \in Contributions : \A p \in DOMAIN c.fas : \A pp \in pathPatternsForPath(p) :
          \E b \in bs : b.host = c.host /\ b.pattern = pp

(* The cache behaviors are those of the paths of the group.                *)
LEMMA GroupBehaviors ==
    ASSUME group \in Groups, NEW s, Lists(s),
           NEW m, IsMerged(m), MergedOf(m), NEW os, os = customOrigins(s, m.fas)
    PROVE  AreBehaviors(cacheBehaviors(os)) /\ BehaviorsOf(cacheBehaviors(os))
<1>1. \A k \in DOMAIN s : s[k] \in Contributions /\ IsCDNIngress(s[k])
  BY Listed
<1>2. IsFiniteSet(DOMAIN os) /\ OriginsOf(os, s, m.fas, Len(s))
  BY CustomOrigins DEF Lists
<1>3. AreBehaviors(cacheBehaviors(os))
  BY <1>1, <1>2, CacheBehaviors DEF Lists
<1>4. ASSUME NEW h \in DOMAIN os
      PROVE  /\ h \in Hosts
             /\ DOMAIN os[h].behaviors = UNION {pathPatternsForPath(p) : p \in DOMAIN m.fas[h]}
  BY <1>1, <1>2, OriginBehaviors DEF Lists
<1>5. ASSUME NEW b \in cacheBehaviors(os)
      PROVE  \E c \in Contributions : \E p \in DOMAIN c.fas :
                b.host = c.host /\ b.pattern \in pathPatternsForPath(p)
  <2>1. PICK h \in DOMAIN os : \E pp \in DOMAIN os[h].behaviors : b = newCacheBehavior(h, os[h], pp)
    BY DEF cacheBehaviors
  <2>2. PICK pp \in DOMAIN os[h].behaviors : b = newCacheBehavior(h, os[h], pp)
    BY <2>1
  <2>3. b.host = h /\ b.pattern = pp
    BY <2>2 DEF newCacheBehavior
  <2>4. PICK p \in DOMAIN m.fas[h] : pp \in pathPatternsForPath(p)
    BY <1>4
  <2>5. PICK c \in Contributions : c.host = h /\ p \in DOMAIN c.fas
    BY <1>4 DEF MergedOf
  <2> QED BY <2>3, <2>4, <2>5
<1>6. ASSUME NEW c \in Contributions, NEW p \in DOMAIN c.fas, NEW pp \in pathPatternsForPath(p)
      PROVE  \E b \in cacheBehaviors(os) : b.host = c.host /\ b.pattern = pp
  <2> DEFINE h == c.host
             b == newCacheBehavior(h, os[h], pp)
  <2>1. h \in DOMAIN os
    BY OriginsOfAll
  <2>2. h \in Hosts /\ p \in DOMAIN m.fas[h]
    BY <1>4, <2>1 DEF MergedOf
  <2>3. pp \in DOMAIN os[h].behaviors
    BY <1>4, <2>1, <2>2
  <2>4. b \in cacheBehaviors(os)
    BY <2>1, <2>3 DEF cacheBehaviors
  <2>5. b.host = h /\ b.pattern = pp
    BY DEF newCacheBehavior
  <2> QED BY <2>4, <2>5
<1> QED BY <1>3, <1>5, <1>6 DEF BehaviorsOf

-----------------------------------------------------------------------------
(* Refusals                                                                *)

(* ACM answers with one page of certificates.  With more, FindByFilter     *)
(* stops after the first (run certs).                                      *)
SinglePage == \A l \in Listings : Len(l) = 1

(* With one page, DiscoverByHost finds nothing only when no certificate    *)
(* passes the filter.                                                      *)
LEMMA NotFound ==
    ASSUME NEW hosts, NEW listing \in Seq(Seq(Certificate)), Len(listing) = 1,
           NEW none, \A k \in DOMAIN listing : \A l \in DOMAIN listing[k] : listing[k][l] # none,
           DiscoverByHost(hosts, listing, none) = none,
           NEW k \in DOMAIN listing, NEW l \in DOMAIN listing[k]
    PROVE  ~matchingDomainFilter(hosts, listing[k][l])
<1> DEFINE pages == PagesSeen(listing)
           certs == FlattenSeq(pages)
           found == FindByFilter(hosts, certs)
<1>1. /\ pages \in Seq(Seq(Certificate)) /\ DOMAIN pages = DOMAIN listing
      /\ \A i \in DOMAIN listing : pages[i] = listing[i]
  <2>1. Len(pages) = 1 /\ pages \in Seq(Seq(Certificate))
    BY DEF PagesSeen
  <2>2. \A i \in 1 .. 1 : pages[i] = listing[i]
    BY DEF PagesSeen
  <2> QED BY <2>1, <2>2
<1> HIDE DEF pages
<1>2. /\ certs \in Seq(Certificate)
      /\ \A i \in DOMAIN pages : \A j \in DOMAIN pages[i] :
           \E x \in DOMAIN certs : certs[x] = pages[i][j]
      /\ \A x \in DOMAIN certs : \E i \in DOMAIN pages : \E j \in DOMAIN pages[i] :
           certs[x] = pages[i][j]
  BY <1>1, FlattenSeqElements
<1>3. DiscoverByHost(hosts, listing, none) = IF found = {} THEN none ELSE certs[Min(found)]
  BY DEF DiscoverByHost, pages
<1> HIDE DEF certs
<1>4. found = {x \in DOMAIN certs : matchingDomainFilter(hosts, certs[x])}
  BY DEF FindByFilter
<1> HIDE DEF found
<1>5. ASSUME found # {} PROVE FALSE
  <2>1. \E x \in found : \A y \in found : x <= y
    <3>1. found \in SUBSET Nat
      BY <1>2, <1>4
    <3> QED BY <1>5, <3>1, LeastNumber
  <2>2. Min(found) \in found
    BY <2>1 DEF Min
  <2>3. certs[Min(found)] # none
    BY <1>1, <1>2, <1>4, <2>2
  <2> QED BY <1>3, <1>5, <2>3
<1>6. PICK x \in DOMAIN certs : certs[x] = listing[k][l]
  BY <1>1, <1>2
<1> QED BY <1>4, <1>5, <1>6

(* A certificate that is valid for a domain is accepted by certMatches.    *)
LEMMA CoversMatches ==
    ASSUME NEW d, NEW cert, NEW name \in cert, Covers(name, d)
    PROVE  certMatches(d, cert)
BY DEF Covers, certMatches, WithoutWildcard

(* The first reason to refuse a group: no certificate for all its domains. *)
NoCertificate ==
    TLSEnabled /\ \A cert \in Issued : \E c \in Contributions :
        \E d \in c.domains : \A name \in cert : ~Covers(name, d)

(* The other reasons: two WebACLs, two functions for one event of a path,  *)
(* an origin on the default origin's host with other parameters.           *)
Contradiction(c, d) ==
    \/ c.acl # None /\ d.acl # None /\ c.acl # d.acl
    \/ c.host = d.host /\ \E p \in DOMAIN c.fas \cap DOMAIN d.fas :
                             Conflicting(c.fas[p], d.fas[p])
    \/ /\ c.host = DefaultHost
       /\ c.timeout \notin {DefaultTimeout, None} \/ c.access # "Public"

(* A refusal of desiredState has one of these reasons.                     *)
LEMMA RefusalHasReason ==
    ASSUME SinglePage, InputsKept, NEW order \in SetToSeqs(Names),
           NEW r \in desiredState(Fetched(order)), ~r.ok
    PROVE  NoCertificate \/ \E c, d \in Contributions : Contradiction(c, d)
<1>0. group \in Groups
  BY DEF InputsKept
<1> DEFINE s == Fetched(order)
           acl == mergedWebACL(s)
           m == mergedPaths(s)
           os == customOrigins(s, m.fas)
           cert == discoverCert(s)
<1>1. \/ \E x, y \in acl : x # y
      \/ ~m.ok
      \/ TLSEnabled /\ cert = None
      \/ ~validate(os)
  BY DEF desiredState
<1>2. s \in Seq(Contributions)
  BY <1>0, FetchedIsContributed
<1>3. alternateDomains(s) = UNION {c.domains : c \in Contributions}
  BY <1>0, FetchedDomains
<1> HIDE DEF s
<1>4. DOMAIN s = 1 .. Len(s) /\ Len(s) \in Nat /\ \A k \in DOMAIN s : s[k] \in Contributions
  BY <1>2
<1>5. \A k \in DOMAIN s : IsCDNIngress(s[k])
  BY <1>0, <1>4, Contributed
<1>6. CASE \E x, y \in acl : x # y
  <2>1. PICK i \in DOMAIN s, j \in DOMAIN s :
             s[i].acl # None /\ s[j].acl # None /\ s[i].acl # s[j].acl
    BY <1>6 DEF mergedWebACL
  <2> QED BY <1>4, <2>1 DEF Contradiction
<1>7. CASE ~m.ok
  <2>1. MergeConflict(s, Len(s))
    <3> HIDE DEF m
    <3> QED BY <1>2, <1>5, <1>7, MergedPaths DEF m
  <2> QED BY <1>4, <2>1 DEF MergeConflict, Contradiction
<1>8. CASE TLSEnabled /\ cert = None
  <2>1. DiscoverByHost(alternateDomains(s), acm, None) = None
    BY <1>8 DEF discoverCert
  <2>2. /\ acm \in Seq(Seq(Certificate)) /\ Len(acm) = 1
        /\ \A k \in DOMAIN acm : \A l \in DOMAIN acm[k] : acm[k][l] # None
    BY ListingsAssumption DEF SinglePage, InputsKept, Certificate
  <2>3. ASSUME NEW x \in Issued
        PROVE  \E c \in Contributions : \E d \in c.domains : \A name \in x : ~Covers(name, d)
    <3>1. PICK k \in DOMAIN acm : \E l \in DOMAIN acm[k] : x = acm[k][l]
      BY DEF Issued
    <3>2. PICK l \in DOMAIN acm[k] : x = acm[k][l]
      BY <3>1
    <3>3. ~matchingDomainFilter(alternateDomains(s), x)
      BY <2>1, <2>2, <3>2, NotFound
    <3>4. PICK d \in alternateDomains(s) : ~certMatches(d, x)
      BY <3>3 DEF matchingDomainFilter
    <3>5. \A name \in x : ~Covers(name, d)
      BY <3>4, CoversMatches
    <3> QED BY <1>3, <3>5
  <2> QED BY <1>8, <2>3 DEF NoCertificate
<1>9. CASE ~validate(os)
  <2>1. OriginsOf(os, s, m.fas, Len(s))
    <3> HIDE DEF os, m
    <3> QED BY <1>2, CustomOrigins DEF os
  <2>2. /\ DefaultHost \in DOMAIN os
        /\ \/ os[DefaultHost].params.timeout # DefaultTimeout
           \/ os[DefaultHost].params.access # "Public"
    BY <1>9 DEF validate
  <2> HIDE DEF os, m
  <2>3. PICK j \in 1 .. Len(s) : /\ s[j].host = DefaultHost
                                 /\ os[DefaultHost] = newOrigin(s[j], m.fas)
    BY <2>1, <2>2 DEF OriginsOf
  <2>4. /\ os[DefaultHost].params.timeout = WithDefault(s[j].timeout, DefaultTimeout)
        /\ os[DefaultHost].params.access = s[j].access
    BY <2>3 DEF newOrigin, OriginBuilder
  <2>5. s[j].timeout \notin {DefaultTimeout, None} \/ s[j].access # "Public"
    BY <2>2, <2>4 DEF WithDefault
  <2> QED BY <1>4, <2>3, <2>5 DEF Contradiction
<1> QED BY <1>1, <1>6, <1>7, <1>8, <1>9

(* While the certificates fit on one page, a group is refused only for a   *)
(* reason that is in its Ingresses or in the certificates: none of the     *)
(* intermediate errors of desiredState is due to the order in which the    *)
(* Ingresses were merged.                                                  *)

THEOREM RefusalsHaveReasons == ASSUME SinglePage PROVE Spec => []RefusedForAReason
<1>1. InputsKept /\ ResultIsDesired => RefusedForAReason
  <2> SUFFICES ASSUME InputsKept, ResultIsDesired, result # None, ~result.ok
               PROVE  NoCertificate \/ \E c, d \in Contributions : Contradiction(c, d)
    BY DEF RefusedForAReason, NoCertificate, Contradiction
  <2> QED BY RefusalHasReason DEF ResultIsDesired
<1> QED BY <1>1, BuilderInvariance, PTL


-----------------------------------------------------------------------------
(* generateTags                                                            *)

(* The loop of AppendTags and generateTags over a list of tags.            *)
MergedTags(s) == FoldLeft(MergeMapString, defaultTags, s)

(* MergedTags is the last of a chain of MergeMapString steps.              *)
LEMMA TagsStepwise ==
    ASSUME NEW S, NEW s \in Seq(S)
    PROVE  \E acc : /\ acc[0] = defaultTags
                    /\ \A k \in 1 .. Len(s) : acc[k] = MergeMapString(acc[k - 1], s[k])
                    /\ MergedTags(s) = acc[Len(s)]
<1> DEFINE n == Len(s)
           Is(g, D) == g = [t \in SUBSET D |->
                              IF t = {} THEN defaultTags
                              ELSE MergeMapString(g[t \ {Max(t)}], s[Max(t)])]
           it == CHOOSE g : Is(g, DOMAIN s)
<1>0. n \in Nat /\ DOMAIN s = 1 .. n
  OBVIOUS
<1>1. MergedTags(s) = it[DOMAIN s]
  BY DEF MergedTags, FoldLeft, MapThenFoldSet
<1> HIDE DEF n
<1>2. \A m \in 0 .. n : \E g : Is(g, 1 .. m)
  <2> DEFINE T == {m \in 0 .. n : \E g : Is(g, 1 .. m)}
  <2>1. 0 \in T
    <3>1. Is([t \in SUBSET (1 .. 0) |-> defaultTags], 1 .. 0)
      OBVIOUS
    <3> HIDE DEF Is
    <3> QED BY <3>1, <1>0
  <2>2. ASSUME NEW m \in 0 + 1 .. n, m - 1 \in T PROVE m \in T
    <3>1. PICK g : Is(g, 1 .. m - 1)
      BY <2>2
    <3>2. m \in Nat /\ m \in 0 .. n
      BY <1>0
    <3> DEFINE h == [t \in SUBSET (1 .. m) |->
                       IF m \in t THEN MergeMapString(g[t \ {m}], s[m]) ELSE g[t]]
    <3>3. ASSUME NEW t \in SUBSET (1 .. m)
          PROVE  h[t] = IF t = {} THEN defaultTags
                        ELSE MergeMapString(h[t \ {Max(t)}], s[Max(t)])
      <4> DEFINE x == Max(t)
      <4>1. CASE m \in t
        <5>1. x = m
          BY <4>1, <3>2, MaxIsLast
        <5>2. h[t \ {m}] = g[t \ {m}]
          OBVIOUS
        <5>3. h[t] = MergeMapString(g[t \ {m}], s[m])
          BY <4>1
        <5> QED BY <5>1, <5>2, <5>3, <4>1
      <4>2. CASE m \notin t
        <5>1. t \in SUBSET (1 .. m - 1)
          BY <4>2, <3>2
        <5>2. h[t] = g[t]
          BY <4>2
        <5>3. g[t] = IF t = {} THEN defaultTags
                     ELSE MergeMapString(g[t \ {x}], s[x])
          BY <5>1, <3>1
        <5>4. h[t \ {x}] = g[t \ {x}]
          <6> HIDE DEF x
          <6> QED BY <4>2
        <5> QED BY <5>2, <5>3, <5>4
      <4> QED BY <4>1, <4>2
    <3>4. Is(h, 1 .. m)
      BY <3>3
    <3> QED BY <3>4, <3>2
  <2> HIDE DEF T
  <2>3. \A m \in 0 .. n : m \in T
    BY <2>1, <2>2, <1>0, UpTo
  <2> QED BY <2>3 DEF T
<1>3. Is(it, 1 .. n)
  <2>1. \E g : Is(g, DOMAIN s)
    <3> HIDE DEF Is
    <3> QED BY <1>2, <1>0
  <2>2. Is(it, DOMAIN s)
    <3> HIDE DEF Is
    <3> QED BY <2>1, Zenon
  <2> QED BY <2>2, <1>0
<1> HIDE DEF it
<1> DEFINE acc == [k \in 0 .. n |-> it[1 .. k]]
<1>4. acc[0] = defaultTags
  <2>1. (1 .. 0) = {} /\ {} \in SUBSET (1 .. n)
    OBVIOUS
  <2> QED BY <2>1, <1>3, <1>0
<1>5. ASSUME NEW k \in 1 .. n PROVE acc[k] = MergeMapString(acc[k - 1], s[k])
  <2>1. /\ k \in Nat /\ k - 1 \in 0 .. n /\ k \in 0 .. n
        /\ (1 .. k) \in SUBSET (1 .. n) /\ k \in 1 .. k
        /\ (1 .. k) \ {k} = 1 .. (k - 1)
    BY <1>0
  <2>2. Max(1 .. k) = k
    BY <2>1, MaxIsLast
  <2>3. it[1 .. k] = MergeMapString(it[(1 .. k) \ {k}], s[k])
    BY <1>3, <2>1, <2>2
  <2> QED BY <2>1, <2>3
<1>6. MergedTags(s) = acc[n]
  BY <1>0, <1>1
<1> QED BY <1>4, <1>5, <1>6 DEF n

(* v is the tag of the last of the first k that has one, or the default.   *)
LastTag(v, key, u, k) ==
    \/ v = defaultTags[key] /\ \A j \in 1 .. k : u[j][key] = None
    \/ \E j \in 1 .. k : /\ u[j][key] # None /\ v = u[j][key]
                         /\ \A i \in j + 1 .. k : u[i][key] = None

(* The loop computes LastTag for every key.                                *)
LEMMA TagsAreLast ==
    ASSUME NEW S, NEW u \in Seq(S), NEW key \in TagKeys
    PROVE  LastTag(MergedTags(u)[key], key, u, Len(u))
<1> DEFINE n == Len(u)
<1>0. n \in Nat
  OBVIOUS
<1> HIDE DEF n
<1>1. PICK acc : /\ acc[0] = defaultTags
                 /\ \A k \in 1 .. n : acc[k] = MergeMapString(acc[k - 1], u[k])
                 /\ MergedTags(u) = acc[n]
  BY TagsStepwise DEF n
<1> DEFINE T == {k \in 0 .. n : LastTag(acc[k][key], key, u, k)}
<1>2. 0 \in T
  BY <1>0, <1>1 DEF LastTag
<1>3. ASSUME NEW k \in 0 + 1 .. n, k - 1 \in T PROVE k \in T
  <2>0. /\ k \in Nat /\ k \in 1 .. n /\ k \in 0 .. n /\ k \in 1 .. k
        /\ \A j \in 1 .. k - 1 : j \in 1 .. k
        /\ \A j \in 1 .. k : j = k \/ j \in 1 .. k - 1
        /\ \A j \in 1 .. k - 1 : \A i \in j + 1 .. k : i = k \/ i \in j + 1 .. k - 1
        /\ (k + 1 .. k) = {}
    BY <1>0
  <2>1. LastTag(acc[k - 1][key], key, u, k - 1)
    BY <1>3
  <2>2. acc[k][key] = IF u[k][key] # None THEN u[k][key] ELSE acc[k - 1][key]
    BY <1>1, <2>0 DEF MergeMapString
  <2>3. CASE u[k][key] # None
    BY <2>0, <2>2, <2>3 DEF LastTag
  <2>4. CASE u[k][key] = None
    <3>1. acc[k][key] = acc[k - 1][key]
      BY <2>2, <2>4
    <3>2. CASE acc[k - 1][key] = defaultTags[key] /\ \A j \in 1 .. k - 1 : u[j][key] = None
      BY <2>0, <2>4, <3>1, <3>2 DEF LastTag
    <3>3. ASSUME NEW j \in 1 .. k - 1, u[j][key] # None, acc[k - 1][key] = u[j][key],
                 \A i \in j + 1 .. k - 1 : u[i][key] = None
          PROVE  LastTag(acc[k][key], key, u, k)
      <4>1. \A i \in j + 1 .. k : u[i][key] = None
        BY <2>0, <2>4, <3>3
      <4> QED BY <2>0, <3>1, <3>3, <4>1 DEF LastTag
    <3>4. LastTag(acc[k][key], key, u, k)
      BY <2>1, <3>2, <3>3 DEF LastTag
    <3> QED BY <2>0, <3>4
  <2> QED BY <2>0, <2>3, <2>4
<1>4. LastTag(acc[n][key], key, u, n)
  <2> HIDE DEF T
  <2>1. \A k \in 0 .. n : k \in T
    BY <1>0, <1>2, <1>3, UpTo
  <2> QED BY <2>1, <1>0 DEF T
<1> QED BY <1>1, <1>4 DEF n

(* The result is a function on the keys.                                   *)
LEMMA TagsAreFunction ==
    ASSUME NEW S, NEW u \in Seq(S), Len(u) > 0
    PROVE  MergedTags(u) = [key \in TagKeys |-> MergedTags(u)[key]]
<1>1. PICK acc : /\ \A k \in 1 .. Len(u) : acc[k] = MergeMapString(acc[k - 1], u[k])
                 /\ MergedTags(u) = acc[Len(u)]
  BY TagsStepwise
<1>2. MergedTags(u) = MergeMapString(acc[Len(u) - 1], u[Len(u)])
  BY <1>1
<1> QED BY <1>2 DEF MergeMapString

(* The tag that the configuration and the group, in no order, ask for.     *)
Tagged(v, key) ==
    IF CustomTags[key] # None THEN v = CustomTags[key]
    ELSE \/ \E c \in Contributions : c.tags[key] # None /\ v = c.tags[key]
         \/ v = defaultTags[key] /\ \A c \in Contributions : c.tags[key] = None

(* generateTags asks for such a tag for every key.                         *)
LEMMA DesiredTags ==
    ASSUME group \in Groups, NEW order \in SetToSeqs(Names)
    PROVE  /\ generateTags(Fetched(order)) = [key \in TagKeys |-> generateTags(Fetched(order))[key]]
           /\ \A key \in TagKeys : Tagged(generateTags(Fetched(order))[key], key)
<1> DEFINE s == Fetched(order)
           n == Len(s)
           ts == [k \in DOMAIN s |-> s[k].tags]
           u == ts \o <<CustomTags>>
<1>1. s \in Seq(Contributions) /\ \A c \in Contributions : \E k \in DOMAIN s : s[k] = c
  BY FetchedIsContributed
<1> HIDE DEF s
<1>2. n \in Nat /\ DOMAIN s = 1 .. n /\ \A k \in 1 .. n : s[k] \in Contributions
  BY <1>1
<1> HIDE DEF n
<1>3. ts \in Seq(Tags) /\ Len(ts) = n
  <2>1. \A k \in 1 .. n : s[k].tags \in Tags
    BY <1>2, Contributed DEF IsCDNIngress
  <2>2. ts \in [1 .. n -> Tags]
    BY <1>2, <2>1
  <2> HIDE DEF ts
  <2> QED BY <1>2, <2>2, FunctionIsSeq
<1>4. \A k \in 1 .. n : ts[k] = s[k].tags
  BY <1>2
<1> HIDE DEF ts
<1>5. /\ u \in Seq(Tags) /\ Len(u) = n + 1 /\ u[n + 1] = CustomTags
      /\ \A k \in 1 .. n : u[k] = s[k].tags
  <2>1. CustomTags \in Tags
    BY TagsAssumption
  <2>2. <<CustomTags>> \in Seq(Tags) /\ Len(<<CustomTags>>) = 1 /\ <<CustomTags>>[1] = CustomTags
    BY <2>1
  <2> QED BY <1>2, <1>3, <1>4, <2>2
<1>6. generateTags(s) = MergedTags(u)
  BY DEF generateTags, MergedTags, ts
<1> HIDE DEF u
<1>7. Len(u) > 0
  BY <1>2, <1>5
<1>8. generateTags(s) = [key \in TagKeys |-> generateTags(s)[key]]
  BY <1>5, <1>6, <1>7, TagsAreFunction
<1>9. ASSUME NEW key \in TagKeys PROVE Tagged(generateTags(s)[key], key)
  <2> DEFINE v == generateTags(s)[key]
  <2>1. LastTag(v, key, u, n + 1)
    BY <1>5, <1>6, TagsAreLast
  <2> HIDE DEF v
  <2>2. n + 1 \in 1 .. n + 1 /\ \A j \in 1 .. n + 1 : j = n + 1 \/ j \in 1 .. n
    BY <1>2
  <2>3. \A j \in 1 .. n : n + 1 \in j + 1 .. n + 1 /\ j \in 1 .. n + 1
    BY <1>2
  <2>4. CASE CustomTags[key] # None
    <3>1. \A j \in 1 .. n : \E i \in j + 1 .. n + 1 : u[i][key] # None
      BY <1>5, <2>3, <2>4
    <3>2. v = u[n + 1][key]
      BY <1>5, <2>1, <2>2, <2>4, <3>1 DEF LastTag
    <3> QED BY <1>5, <2>4, <3>2 DEF Tagged, v
  <2>5. CASE CustomTags[key] = None
    <3>1. CASE v = defaultTags[key] /\ \A j \in 1 .. n + 1 : u[j][key] = None
      <4>1. \A c \in Contributions : c.tags[key] = None
        <5> SUFFICES ASSUME NEW c \in Contributions PROVE c.tags[key] = None
          OBVIOUS
        <5>1. PICK k \in 1 .. n : s[k] = c
          BY <1>1, <1>2
        <5> QED BY <1>5, <2>3, <3>1, <5>1
      <4> QED BY <2>5, <3>1, <4>1 DEF Tagged, v
    <3>2. ASSUME NEW j \in 1 .. n + 1, u[j][key] # None, v = u[j][key]
          PROVE  Tagged(generateTags(s)[key], key)
      <4>1. j \in 1 .. n
        BY <1>5, <2>2, <2>5, <3>2
      <4>2. s[j] \in Contributions /\ s[j].tags[key] # None /\ v = s[j].tags[key]
        BY <1>2, <1>5, <3>2, <4>1
      <4> QED BY <2>5, <4>2 DEF Tagged, v
    <3> QED BY <2>1, <3>1, <3>2 DEF LastTag
  <2> QED BY <2>4, <2>5
<1> QED BY <1>8, <1>9 DEF s

-----------------------------------------------------------------------------
(* The order of the Ingresses                                              *)

(* Two merges of the group end with the same behaviors for every host.     *)
LEMMA SameFunctions ==
    ASSUME NEW m, NEW q, MergedOf(m), MergedOf(q), NEW h \in Hosts
    PROVE  addBehaviors(m.fas[h]) = addBehaviors(q.fas[h])
<1> DEFINE ps == m.fas[h]
           qs == q.fas[h]
<1>1. DOMAIN ps = DOMAIN qs
  BY DEF MergedOf
<1>2. ASSUME NEW p \in DOMAIN ps, NEW e \in Events PROVE ps[p][e] = qs[p][e]
  <2>1. p \in DOMAIN qs
    BY <1>1
  <2>2. CASE ps[p][e] # None
    BY <1>2, <2>1, <2>2 DEF MergedOf
  <2>3. CASE qs[p][e] # None
    BY <1>2, <2>1, <2>3 DEF MergedOf
  <2> QED BY <2>2, <2>3
<1> HIDE DEF ps, qs
<1>3. \A p \in DOMAIN ps : {[event |-> e, fn |-> ps[p][e]] : e \in Events}
                         = {[event |-> e, fn |-> qs[p][e]] : e \in Events}
  BY <1>2
<1>4. \A pp : {{[event |-> e, fn |-> ps[p][e]] : e \in Events} :
                 p \in {x \in DOMAIN ps : pp \in pathPatternsForPath(x)}}
            = {{[event |-> e, fn |-> qs[p][e]] : e \in Events} :
                 p \in {x \in DOMAIN qs : pp \in pathPatternsForPath(x)}}
  BY <1>1, <1>3
<1>5. addBehaviors(ps) = addBehaviors(qs)
  BY <1>1, <1>4 DEF addBehaviors
<1> QED BY <1>5 DEF ps, qs

(* So do the origins, when those who share a host agree on it.             *)
LEMMA SameOrigins ==
    ASSUME group \in Groups, ContributionsAgree,
           NEW s, Lists(s), NEW t, Lists(t), NEW m, NEW q, MergedOf(m), MergedOf(q),
           NEW os, os = customOrigins(s, m.fas), NEW ot, ot = customOrigins(t, q.fas)
    PROVE  DOMAIN os = DOMAIN ot /\ \A h \in DOMAIN os : os[h] = ot[h]
<1>1. /\ DOMAIN s = 1 .. Len(s) /\ Len(s) \in Nat
      /\ \A k \in DOMAIN s : s[k] \in Contributions /\ IsCDNIngress(s[k])
      /\ \A c \in Contributions : \E k \in 1 .. Len(s) : s[k] = c
  BY Listed
<1>2. /\ DOMAIN t = 1 .. Len(t) /\ Len(t) \in Nat
      /\ \A k \in DOMAIN t : t[k] \in Contributions /\ IsCDNIngress(t[k])
      /\ \A c \in Contributions : \E k \in 1 .. Len(t) : t[k] = c
  BY Listed
<1>3. OriginsOf(os, s, m.fas, Len(s))
  BY CustomOrigins DEF Lists
<1>4. OriginsOf(ot, t, q.fas, Len(t))
  BY CustomOrigins DEF Lists
<1>5. DOMAIN os = {c.host : c \in Contributions}
  BY OriginsOfAll
<1>6. DOMAIN ot = {c.host : c \in Contributions}
  BY OriginsOfAll
<1>7. ASSUME NEW h \in DOMAIN os PROVE os[h] = ot[h]
  <2>1. PICK j \in 1 .. Len(s) : s[j].host = h /\ os[h] = newOrigin(s[j], m.fas)
    BY <1>3 DEF OriginsOf
  <2>2. PICK k \in 1 .. Len(t) : t[k].host = h /\ ot[h] = newOrigin(t[k], q.fas)
    BY <1>4, <1>5, <1>6 DEF OriginsOf
  <2>3. OriginBuilder(s[j]) = OriginBuilder(t[k])
    BY <1>1, <1>2, <2>1, <2>2 DEF ContributionsAgree
  <2>4. h \in Hosts
    BY <1>1, <2>1 DEF IsCDNIngress
  <2>5. addBehaviors(m.fas[h]) = addBehaviors(q.fas[h])
    BY <2>4, SameFunctions
  <2> QED BY <2>1, <2>2, <2>3, <2>5 DEF newOrigin, PathsFromOrigin
<1> QED BY <1>5, <1>6, <1>7

(* When contributions agree, no two behaviors share a pattern.             *)

LEMMA OnePatternOneBehavior ==
    ASSUME ContributionsAgree, NEW bs, AreBehaviors(bs), BehaviorsOf(bs),
           NEW b \in bs, NEW c \in bs, b.pattern = c.pattern
    PROVE  b = c
<1>1. ASSUME NEW x \in bs
      PROVE  \E d \in Contributions : d.host = x.host /\ x.pattern \in PatternsOf(d)
  BY DEF BehaviorsOf, PatternsOf
<1>2. PICK d \in Contributions : d.host = b.host /\ b.pattern \in PatternsOf(d)
  BY <1>1
<1>3. PICK e \in Contributions : e.host = c.host /\ c.pattern \in PatternsOf(e)
  BY <1>1
<1>4. b.host = c.host
  BY <1>2, <1>3 DEF ContributionsAgree
<1> QED BY <1>4 DEF AreBehaviors


(* Nor do the tags depend on the order when contributions agree.           *)
LEMMA SameTags ==
    ASSUME group \in Groups, ContributionsAgree,
           NEW o \in SetToSeqs(Names), NEW p \in SetToSeqs(Names)
    PROVE  generateTags(Fetched(o)) = generateTags(Fetched(p))
<1> DEFINE u == generateTags(Fetched(o))
           v == generateTags(Fetched(p))
<1>1. u = [key \in TagKeys |-> u[key]] /\ \A key \in TagKeys : Tagged(u[key], key)
  BY DesiredTags
<1>2. v = [key \in TagKeys |-> v[key]] /\ \A key \in TagKeys : Tagged(v[key], key)
  BY DesiredTags
<1> HIDE DEF u, v
<1>3. ASSUME NEW key \in TagKeys PROVE u[key] = v[key]
  BY <1>1, <1>2 DEF Tagged, ContributionsAgree
<1>4. u = v
  BY <1>1, <1>2, <1>3
<1> QED BY <1>4 DEF u, v

(* The WebACLs never depend on the order.                                  *)
LEMMA SameACLs ==
    ASSUME group \in Groups, NEW s, Lists(s)
    PROVE  mergedWebACL(s) = {c.acl : c \in Contributions} \ {None}
<1>1. /\ \A k \in DOMAIN s : s[k] \in Contributions
      /\ \A c \in Contributions : \E k \in DOMAIN s : s[k] = c
  BY Listed DEF Lists
<1> QED BY <1>1 DEF mergedWebACL

(* When contributions agree, desiredState has one result, the same for     *)
(* every two orders.                                                       *)
LEMMA SameDesired ==
    ASSUME InputsKept, ContributionsAgree,
           NEW o \in SetToSeqs(Names), NEW p \in SetToSeqs(Names),
           NEW x \in desiredState(Fetched(o)), NEW y \in desiredState(Fetched(p))
    PROVE  x = y
<1>0. group \in Groups
  BY DEF InputsKept
<1> DEFINE s == Fetched(o)
           t == Fetched(p)
           m == mergedPaths(s)
           q == mergedPaths(t)
           os == customOrigins(s, m.fas)
           ot == customOrigins(t, q.fas)
<1>1. Lists(s) /\ Lists(t)
  BY <1>0, FetchedIsContributed DEF Lists
<1>2. mergedWebACL(s) = mergedWebACL(t)
  BY <1>0, <1>1, SameACLs
<1>3. m.ok <=> q.ok
  <2> HIDE DEF s, t, m, q
  <2> QED BY <1>0, <1>1, RefusedPaths DEF m, q
<1>4. alternateDomains(s) = alternateDomains(t)
  BY <1>0, FetchedDomains
<1>5. discoverCert(s) = discoverCert(t)
  BY <1>4 DEF discoverCert
<1>6. generateTags(s) = generateTags(t)
  BY <1>0, SameTags
<1>7. ASSUME m.ok
      PROVE  /\ DOMAIN os = DOMAIN ot /\ \A h \in DOMAIN os : os[h] = ot[h]
             /\ \A b, c \in cacheBehaviors(os) : b.pattern = c.pattern => b = c
  <2> HIDE DEF s, t, m, q, os, ot
  <2>1. IsMerged(m) /\ MergedOf(m) /\ MergedOf(q)
    BY <1>0, <1>1, <1>3, <1>7, MergedAll DEF m, q
  <2>2. os = customOrigins(s, m.fas) /\ ot = customOrigins(t, q.fas)
    BY DEF os, ot
  <2>3. DOMAIN os = DOMAIN ot /\ \A h \in DOMAIN os : os[h] = ot[h]
    BY <1>0, <1>1, <2>1, <2>2, SameOrigins
  <2>4. \A b, c \in cacheBehaviors(os) : b.pattern = c.pattern => b = c
    <3>1. AreBehaviors(cacheBehaviors(os)) /\ BehaviorsOf(cacheBehaviors(os))
      BY <1>0, <1>1, <2>1, <2>2, GroupBehaviors
    <3> QED BY <3>1, OnePatternOneBehavior
  <2> QED BY <2>3, <2>4
<1>8. x \in desiredState(s) /\ y \in desiredState(t)
  OBVIOUS
<1> HIDE DEF s, t, m, q, os, ot
<1> DEFINE acl == mergedWebACL(s)
           cert == discoverCert(s)
           Asked(z, bs) ==
               [ok |-> TRUE, acl |-> acl, cert |-> cert,
                domains |-> alternateDomains(s), tags |-> generateTags(s),
                origins |-> [h \in DOMAIN z |->
                               [timeout |-> z[h].params.timeout, access |-> z[h].params.access,
                                headers |-> z[h].params.headers]],
                behaviors |-> bs]
           All(z) == {Asked(z, bs) : bs \in SortedCustomBehaviors(cacheBehaviors(z))}
           Desired(ok, z) == IF \E a, b \in acl : a # b THEN {Refused("acl")}
                             ELSE IF ~ok THEN {Refused("paths")}
                             ELSE IF TLSEnabled /\ cert = None THEN {Refused("cert")}
                             ELSE IF ~validate(z) THEN {Refused("origins")}
                             ELSE All(z)
<1>9. desiredState(s) = Desired(m.ok, os)
  BY DEF desiredState, m, os
<1>10. desiredState(t) = Desired(q.ok, ot)
  BY <1>2, <1>4, <1>5, <1>6 DEF desiredState, q, ot
<1>11. CASE ~m.ok
  BY <1>3, <1>8, <1>9, <1>10, <1>11
<1>12. CASE m.ok
  <2>1. cacheBehaviors(os) = cacheBehaviors(ot)
    BY <1>7, <1>12 DEF cacheBehaviors
  <2>2. validate(os) <=> validate(ot)
    BY <1>7, <1>12 DEF validate
  <2>3. \A bs : Asked(os, bs) = Asked(ot, bs)
    BY <1>7, <1>12
  <2> HIDE DEF Asked
  <2>4. All(os) = All(ot)
    BY <2>1, <2>3
  <2>5. \A a, b \in All(os) : a = b
    <3> SUFFICES ASSUME NEW u \in SortedCustomBehaviors(cacheBehaviors(os)),
                        NEW v \in SortedCustomBehaviors(cacheBehaviors(os))
                 PROVE  Asked(os, u) = Asked(os, v)
      OBVIOUS
    <3>1. u = v
      BY <1>7, <1>12, SortedOneWay
    <3> QED BY <3>1
  <2> HIDE DEF All, acl, cert
  <2>6. Desired(m.ok, os) = Desired(q.ok, ot)
    BY <1>3, <1>12, <2>2, <2>4
  <2>7. \A a, b \in Desired(m.ok, os) : a = b
    BY <2>5
  <2> HIDE DEF Desired
  <2> QED BY <1>8, <1>9, <1>10, <2>6, <2>7
<1> QED BY <1>11, <1>12

(* Reconciling a group whose Ingresses agree asks for the same             *)
(* distribution, or fails with the same error, in whatever order the cache *)
(* lists them and whatever order Go iterates its map of origins in: an     *)
(* unchanged group never causes an update of the distribution back and     *)
(* forth.                                                                  *)

THEOREM SameAlways == Spec => SameAgain
<1>1. InputsKept /\ ResultIsDesired /\ [Next]_vars
        => [(ContributionsAgree /\ result # None) => result' = result]_vars
  <2> SUFFICES ASSUME InputsKept, ResultIsDesired, Reconcile, ContributionsAgree, result # None
               PROVE  result' = result
    BY DEF Next
  <2>1. PICK o \in SetToSeqs(Names) : result \in desiredState(Fetched(o))
    BY DEF ResultIsDesired
  <2>2. PICK p \in SetToSeqs(Names) : result' \in desiredState(Fetched(p))
    BY DEF Reconcile, Fetched
  <2> QED BY <2>1, <2>2, SameDesired
<1> QED BY <1>1, BuilderInvariance, PTL DEF Spec, SameAgain


-----------------------------------------------------------------------------
(* Matching of patterns                                                    *)

(* The recursive function of Matches exists and satisfies its equation.    *)
LEMMA ReachStepwise ==
    ASSUME NEW pattern \in Seq(Nat), NEW path \in Seq(Nat)
    PROVE  \E reach :
              /\ reach[0] = {0}
              /\ \A i \in 1 .. Len(pattern) : reach[i] =
                    IF pattern[i] = Star THEN UNION {l .. Len(path) : l \in reach[i - 1]}
                    ELSE {l + 1 : l \in {k \in reach[i - 1] :
                                   k < Len(path) /\ pattern[i] \in {Question, path[k + 1]}}}
              /\ Matches(pattern, path) <=> Len(path) \in reach[Len(pattern)]
<1> DEFINE n == Len(pattern)
           Step(r, i) == IF pattern[i] = Star THEN UNION {l .. Len(path) : l \in r}
                         ELSE {l + 1 : l \in {k \in r :
                                  k < Len(path) /\ pattern[i] \in {Question, path[k + 1]}}}
           Is(g, m) == g = [i \in 0 .. m |-> IF i = 0 THEN {0} ELSE Step(g[i - 1], i)]
           it == CHOOSE g : Is(g, Len(pattern))
<1>0. n \in Nat
  OBVIOUS
<1>1. Matches(pattern, path) <=> Len(path) \in it[n]
  BY DEF Matches
<1> HIDE DEF n, Step
<1>2. \A m \in 0 .. n : \E g : Is(g, m)
  <2> DEFINE T == {m \in 0 .. n : \E g : Is(g, m)}
  <2>1. 0 \in T
    <3>1. Is([i \in 0 .. 0 |-> {0}], 0)
      OBVIOUS
    <3> HIDE DEF Is
    <3> QED BY <3>1, <1>0
  <2>2. ASSUME NEW m \in 0 + 1 .. n, m - 1 \in T PROVE m \in T
    <3>1. PICK g : Is(g, m - 1)
      BY <2>2
    <3>2. m \in Nat /\ m \in 0 .. n /\ m # 0
      BY <1>0
    <3> DEFINE h == [i \in 0 .. m |-> IF i = m THEN Step(g[m - 1], m) ELSE g[i]]
    <3>3. ASSUME NEW i \in 0 .. m
          PROVE  h[i] = IF i = 0 THEN {0} ELSE Step(h[i - 1], i)
      <4>1. CASE i = m
        <5>1. h[i - 1] = g[m - 1] /\ h[i] = Step(g[m - 1], m)
          BY <4>1, <3>2
        <5> QED BY <5>1, <4>1, <3>2
      <4>2. CASE i # m
        <5>1. i \in 0 .. m - 1 /\ h[i] = g[i]
          BY <4>2, <3>2
        <5>2. g[i] = IF i = 0 THEN {0} ELSE Step(g[i - 1], i)
          BY <3>1, <5>1
        <5>3. i # 0 => h[i - 1] = g[i - 1]
          BY <4>2, <3>2
        <5> HIDE DEF h
        <5> QED BY <5>1, <5>2, <5>3
      <4> QED BY <4>1, <4>2
    <3>4. Is(h, m)
      BY <3>3
    <3> QED BY <3>4, <3>2
  <2> HIDE DEF T
  <2>3. \A m \in 0 .. n : m \in T
    BY <2>1, <2>2, <1>0, UpTo
  <2> QED BY <2>3 DEF T
<1>3. Is(it, n)
  <2>1. \E g : Is(g, Len(pattern))
    <3> HIDE DEF Is
    <3> QED BY <1>2, <1>0 DEF n
  <2>2. Is(it, Len(pattern))
    <3> HIDE DEF Is
    <3> QED BY <2>1, Zenon
  <2> QED BY <2>2 DEF n
<1> HIDE DEF it
<1>4. \A i \in 0 .. n : it[i] = IF i = 0 THEN {0} ELSE Step(it[i - 1], i)
  <2> DEFINE F == [i \in 0 .. n |-> IF i = 0 THEN {0} ELSE Step(it[i - 1], i)]
  <2>1. it = F
    BY <1>3
  <2>2. \A i \in 0 .. n : F[i] = IF i = 0 THEN {0} ELSE Step(it[i - 1], i)
    OBVIOUS
  <2> HIDE DEF F
  <2> QED BY <2>1, <2>2
<1>5. /\ 0 \in 0 .. n
      /\ \A i \in 1 .. n : i \in 0 .. n /\ i # 0
  BY <1>0
<1>6. it[0] = {0} /\ \A i \in 1 .. n : it[i] = Step(it[i - 1], i)
  BY <1>4, <1>5
<1> QED BY <1>1, <1>6 DEF n, Step

(* The path begins with the first i characters of the pattern.             *)
Begins(pattern, path, i) == i <= Len(path) /\ \A k \in 1 .. i : pattern[k] = path[k]

(* Without wildcards, matching is comparing character by character.        *)
LEMMA LiteralReach ==
    ASSUME NEW pattern \in Seq(Nat), NEW path \in Seq(Nat), NEW n \in 0 .. Len(pattern),
           \A k \in 1 .. n : pattern[k] \notin {Star, Question}, NEW reach, reach[0] = {0},
           \A i \in 1 .. Len(pattern) : reach[i] =
                    IF pattern[i] = Star THEN UNION {l .. Len(path) : l \in reach[i - 1]}
                    ELSE {l + 1 : l \in {k \in reach[i - 1] :
                                   k < Len(path) /\ pattern[i] \in {Question, path[k + 1]}}}
    PROVE  /\ Begins(pattern, path, n) => reach[n] = {n}
           /\ ~Begins(pattern, path, n) => reach[n] = {}
<1> DEFINE Good(i) == /\ Begins(pattern, path, i) => reach[i] = {i}
                      /\ ~Begins(pattern, path, i) => reach[i] = {}
           T == {i \in 0 .. n : Good(i)}
<1>0. n \in Nat /\ Len(path) \in Nat /\ Len(pattern) \in Nat /\ n <= Len(pattern)
  OBVIOUS
<1>1. 0 \in T
  <2>1. Begins(pattern, path, 0)
    BY <1>0 DEF Begins
  <2> QED BY <1>0, <2>1
<1>2. ASSUME NEW i \in 0 + 1 .. n, i - 1 \in T PROVE i \in T
  <2>0. i \in Nat /\ i \in 1 .. n /\ i \in 0 .. n /\ i \in 1 .. Len(pattern) /\ (i - 1) + 1 = i
    BY <1>0
  <2>1. reach[i] = {l + 1 : l \in {k \in reach[i - 1] :
                               k < Len(path) /\ pattern[i] \in {Question, path[k + 1]}}}
    BY <2>0
  <2>2. pattern[i] # Question
    BY <2>0
  <2>3. Begins(pattern, path, i) <=> /\ Begins(pattern, path, i - 1)
                                     /\ i - 1 < Len(path) /\ pattern[i] = path[i]
    <3>1. /\ i \in 1 .. i
          /\ \A k \in 1 .. i - 1 : k \in 1 .. i
          /\ \A k \in 1 .. i : k = i \/ k \in 1 .. i - 1
      BY <2>0
    <3>2. i - 1 < Len(path) <=> i <= Len(path)
      BY <1>0, <2>0
    <3>3. i <= Len(path) => i - 1 <= Len(path)
      BY <1>0, <2>0
    <3>4. (\A k \in 1 .. i : pattern[k] = path[k])
          <=> (pattern[i] = path[i] /\ \A k \in 1 .. i - 1 : pattern[k] = path[k])
      BY <3>1
    <3> QED BY <3>2, <3>3, <3>4 DEF Begins
  <2>4. CASE Begins(pattern, path, i - 1)
    <3>1. reach[i - 1] = {i - 1}
      BY <2>4, <1>2
    <3>2. CASE i - 1 < Len(path) /\ pattern[i] = path[i]
      <4>1. {k \in reach[i - 1] : k < Len(path) /\ pattern[i] \in {Question, path[k + 1]}} = {i - 1}
        BY <2>0, <3>1, <3>2
      <4>2. reach[i] = {i}
        BY <2>0, <2>1, <4>1
      <4> QED BY <2>0, <2>3, <2>4, <3>2, <4>2
    <3>3. CASE ~(i - 1 < Len(path) /\ pattern[i] = path[i])
      <4>1. {k \in reach[i - 1] : k < Len(path) /\ pattern[i] \in {Question, path[k + 1]}} = {}
        BY <2>0, <2>2, <3>1, <3>3
      <4>2. reach[i] = {}
        BY <2>1, <4>1
      <4> QED BY <2>0, <2>3, <3>3, <4>2
    <3> QED BY <3>2, <3>3
  <2>5. CASE ~Begins(pattern, path, i - 1)
    <3>1. reach[i - 1] = {}
      BY <2>5, <1>2
    <3>2. reach[i] = {}
      BY <2>1, <3>1
    <3> QED BY <2>0, <2>3, <2>5, <3>2
  <2> QED BY <2>4, <2>5
<1>3. Good(n)
  <2> HIDE DEF T
  <2>1. \A i \in 0 .. n : i \in T
    BY <1>0, <1>1, <1>2, UpTo
  <2> QED BY <2>1, <1>0 DEF T
<1> QED BY <1>3

(* A pattern without wildcards matches itself only.                        *)
LEMMA LiteralMatches ==
    ASSUME NEW pattern \in Seq(Nat), NEW path \in Seq(Nat),
           \A k \in 1 .. Len(pattern) : pattern[k] \notin {Star, Question}
    PROVE  Matches(pattern, path) <=> pattern = path
<1> DEFINE n == Len(pattern)
<1>0. n \in Nat /\ n \in 0 .. n /\ Len(path) \in Nat
  OBVIOUS
<1>1. /\ Begins(pattern, path, n) => (Matches(pattern, path) <=> Len(path) \in {n})
      /\ ~Begins(pattern, path, n) => ~Matches(pattern, path)
  <2>1. PICK reach :
              /\ reach[0] = {0}
              /\ \A i \in 1 .. Len(pattern) : reach[i] =
                    IF pattern[i] = Star THEN UNION {l .. Len(path) : l \in reach[i - 1]}
                    ELSE {l + 1 : l \in {k \in reach[i - 1] :
                                   k < Len(path) /\ pattern[i] \in {Question, path[k + 1]}}}
              /\ Matches(pattern, path) <=> Len(path) \in reach[Len(pattern)]
    BY ReachStepwise
  <2>2. /\ Begins(pattern, path, n) => reach[n] = {n}
        /\ ~Begins(pattern, path, n) => reach[n] = {}
    BY <1>0, <2>1, LiteralReach
  <2> QED BY <2>1, <2>2
<1>2. Begins(pattern, path, n) /\ Len(path) = n => pattern = path
  BY SameSequence DEF Begins
<1>3. pattern = path => Begins(pattern, path, n)
  BY DEF Begins
<1> QED BY <1>0, <1>1, <1>2, <1>3

(* "/foo/*" matches what begins with "/foo/".                              *)
LEMMA WildcardMatches ==
    ASSUME NEW q \in Seq(Nat), NEW path \in Seq(Nat),
           \A k \in 1 .. Len(q) : q[k] \notin {Star, Question}
    PROVE  Matches(q \o <<Slash, Star>>, path) <=>
              Begins(q \o <<Slash, Star>>, path, Len(q) + 1)
<1> DEFINE pattern == q \o <<Slash, Star>>
           n == Len(q) + 1
<1>1. /\ pattern \in Seq(Nat) /\ Len(pattern) = n + 1 /\ n \in Nat
      /\ \A k \in 1 .. Len(q) : pattern[k] = q[k]
      /\ pattern[n] = Slash /\ pattern[n + 1] = Star
  BY DEF Slash, Star
<1>2. \A k \in 1 .. n : pattern[k] \notin {Star, Question}
  <2>1. \A k \in 1 .. n : k = n \/ k \in 1 .. Len(q)
    OBVIOUS
  <2>2. Slash \notin {Star, Question}
    BY DEF Slash, Star, Question
  <2> HIDE DEF pattern, n
  <2> QED BY <1>1, <2>1, <2>2
<1> HIDE DEF pattern, n
<1>0. n \in 0 .. Len(pattern) /\ n + 1 \in 1 .. Len(pattern) /\ (n + 1) - 1 = n /\ Len(path) \in Nat
  BY <1>1
<1>3. PICK reach :
              /\ reach[0] = {0}
              /\ \A i \in 1 .. Len(pattern) : reach[i] =
                    IF pattern[i] = Star THEN UNION {l .. Len(path) : l \in reach[i - 1]}
                    ELSE {l + 1 : l \in {k \in reach[i - 1] :
                                   k < Len(path) /\ pattern[i] \in {Question, path[k + 1]}}}
              /\ Matches(pattern, path) <=> Len(path) \in reach[Len(pattern)]
  BY <1>1, ReachStepwise
<1>4. /\ Begins(pattern, path, n) => reach[n] = {n}
      /\ ~Begins(pattern, path, n) => reach[n] = {}
  BY <1>0, <1>1, <1>2, <1>3, LiteralReach
<1>5. reach[n + 1] = UNION {l .. Len(path) : l \in reach[n]}
  BY <1>0, <1>1, <1>3
<1>6. Matches(pattern, path) <=> Len(path) \in reach[n + 1]
  BY <1>1, <1>3
<1>7. CASE Begins(pattern, path, n)
  <2>1. n <= Len(path)
    BY <1>7 DEF Begins
  <2>2. Len(path) \in n .. Len(path)
    BY <1>0, <1>1, <2>1
  <2> QED BY <1>4, <1>5, <1>6, <1>7, <2>2 DEF pattern, n
<1>8. CASE ~Begins(pattern, path, n)
  BY <1>4, <1>5, <1>6, <1>8 DEF pattern, n
<1> QED BY <1>7, <1>8

(* CloudFront serves a request by a behavior that comes before all the     *)
(* other ones that match, or by the default when none does.                *)
LEMMA FirstServes ==
    ASSUME NEW bs, AreBehaviors(bs), NEW sorted \in SortedCustomBehaviors(bs),
           NEW path, NEW default, NEW host, host = ServedBy(sorted, path, default)
    PROVE  \/ host = default /\ \A b \in bs : ~Matches(b.pattern, path)
           \/ \E b \in bs : /\ host = b.host /\ Matches(b.pattern, path)
                            /\ \A c \in bs : Matches(c.pattern, path) =>
                                  \/ c.pattern = b.pattern
                                  \/ isInMostSpecificOrder(b.pattern, c.pattern)
<1>1. PICK pos : InOrder(pos, sorted, bs)
  BY SortedInOrder
<1>2. DOMAIN sorted \in SUBSET Nat
  <2>1. DOMAIN sorted = 1 .. Cardinality(bs)
    BY SortedInOrder
  <2> QED BY <2>1
<1> DEFINE M == {k \in DOMAIN sorted : Matches(sorted[k].pattern, path)}
<1>3. host = IF M = {} THEN default ELSE sorted[CHOOSE k \in M : \A l \in M : k <= l].host
  BY DEF ServedBy
<1>4. ASSUME NEW c \in bs, Matches(c.pattern, path) PROVE pos[c] \in M /\ sorted[pos[c]] = c
  BY <1>1, <1>4 DEF InOrder
<1>5. ASSUME NEW k \in M PROVE \E b \in bs : pos[b] = k /\ sorted[k] = b /\ Matches(b.pattern, path)
  BY <1>1 DEF InOrder
<1>6. M \in SUBSET Nat
  BY <1>2
<1> HIDE DEF M
<1>7. CASE M = {}
  BY <1>3, <1>4, <1>7
<1>8. CASE M # {}
  <2> DEFINE k == CHOOSE x \in M : \A l \in M : x <= l
  <2>1. \E x \in M : \A l \in M : x <= l
    BY <1>6, <1>8, LeastNumber
  <2>2. k \in M /\ \A l \in M : k <= l
    BY <2>1
  <2>3. host = sorted[k].host
    BY <1>3, <1>8
  <2> HIDE DEF k
  <2>4. PICK b \in bs : pos[b] = k /\ sorted[k] = b /\ Matches(b.pattern, path)
    BY <1>5, <2>2
  <2>5. ASSUME NEW c \in bs, Matches(c.pattern, path), c.pattern # b.pattern
        PROVE  isInMostSpecificOrder(b.pattern, c.pattern)
    <3>1. pos[c] \in M /\ k <= pos[c] /\ k \in Nat /\ pos[c] \in Nat
      BY <1>4, <1>6, <2>2, <2>5
    <3>2. ~(pos[c] < k)
      BY <3>1
    <3>3. ~isInMostSpecificOrder(c.pattern, b.pattern)
      BY <1>1, <2>4, <2>5, <3>2 DEF InOrder
    <3>4. b.pattern \in Seq(Nat) /\ c.pattern \in Seq(Nat)
      BY DEF AreBehaviors
    <3> QED BY <3>3, <3>4, OrderIsTotal
  <2> QED BY <2>3, <2>4, <2>5
<1> QED BY <1>7, <1>8

-----------------------------------------------------------------------------
(* Routing                                                                 *)

(* IsPrefix, character by character.                                       *)
LEMMA PrefixBegins ==
    ASSUME NEW i \in Seq(Nat), NEW j \in Seq(Nat)
    PROVE  IsPrefix(i, j) <=> Begins(i, j, Len(i))
<1>1. CASE ~(Len(i) <= Len(j))
  BY <1>1 DEF IsPrefix, Begins
<1>2. CASE Len(i) <= Len(j)
  <2> DEFINE n == Len(i)
             x == SubSeq(i, 1, n)
             y == SubSeq(j, 1, n)
  <2>1. n \in Nat /\ x \in Seq(Nat) /\ y \in Seq(Nat) /\ Len(x) = n /\ Len(y) = n
    BY <1>2
  <2>2. \A k \in 1 .. n : x[k] = i[k] /\ y[k] = j[k]
    BY <1>2
  <2>3. IsPrefix(i, j) <=> x = y
    BY <1>2 DEF IsPrefix
  <2> HIDE DEF x, y
  <2>4. x = y <=> \A k \in 1 .. n : x[k] = y[k]
    BY <2>1, SameSequence
  <2> QED BY <1>2, <2>2, <2>3, <2>4 DEF Begins
<1> QED BY <1>1, <1>2

(* The pattern of what is below the path t.                                *)
Wildcard(t) == t \o <<Slash, Star>>

(* Its characters.                                                         *)
LEMMA WildcardIs ==
    ASSUME NEW t \in Seq(Nat)
    PROVE  /\ Wildcard(t) \in Seq(Nat) /\ Len(Wildcard(t)) = Len(t) + 2
           /\ \A k \in 1 .. Len(t) : Wildcard(t)[k] = t[k]
           /\ Wildcard(t)[Len(t) + 1] = Slash /\ Wildcard(t)[Len(t) + 2] = Star
BY DEF Wildcard, Slash, Star

(* The patterns pathPatternsForPath gives to a plain path: the path        *)
(* without the slash it may end in and, for a Prefix, what is below it.    *)
LEMMA PlainPatterns ==
    ASSUME NEW p \in Paths, Plain(p), NEW t, t = TrimSuffix(p.pattern)
    PROVE  /\ t \in Seq(Nat)
           /\ t = <<>> \/ t[Len(t)] # Slash
           /\ \A k \in 1 .. Len(t) : t[k] \notin {Star, Question}
           /\ p.pattern = t \/ p.pattern = t \o <<Slash>>
           /\ \/ p.type = "Exact" /\ p.pattern = t /\ pathPatternsForPath(p) = {t}
              \/ p.type = "Prefix" /\ p.pattern # <<Slash>> /\ pathPatternsForPath(p) = {t, Wildcard(t)}
              \/ p.type = "Prefix" /\ t = <<>> /\ pathPatternsForPath(p) = {Wildcard(t)}
<1> DEFINE path == p.pattern
<1>1. path \in Seq(Nat) /\ Len(path) > 0
  BY PatternsAssumption DEF Paths
<1>2. t \in Seq(Nat)
  BY <1>1 DEF TrimSuffix, Front
<1>3. /\ t = <<>> \/ t[Len(t)] # Slash
      /\ \A k \in DOMAIN t : t[k] \notin {Star, Question}
      /\ p.type = "Prefix" \/ (p.type = "Exact" /\ t = path)
  BY DEF Plain
<1>4. path = t \/ path = t \o <<Slash>>
  <2>1. CASE path[Len(path)] = Slash
    <3>1. t = SubSeq(path, 1, Len(path) - 1)
      BY <2>1 DEF TrimSuffix, Front
    <3>2. Len(t) = Len(path) - 1 /\ \A k \in 1 .. Len(path) - 1 : t[k] = path[k]
      BY <1>1, <3>1
    <3> DEFINE u == t \o <<Slash>>
    <3>3. u \in Seq(Nat) /\ Len(u) = Len(path) /\ u[Len(path)] = Slash
      <4>1. u \in Seq(Nat) /\ Len(u) = Len(t) + 1 /\ u[Len(t) + 1] = Slash
        BY <1>2 DEF Slash
      <4>2. Len(t) + 1 = Len(path)
        BY <1>1, <3>2
      <4> QED BY <4>1, <4>2
    <3>4. \A k \in 1 .. Len(path) - 1 : u[k] = t[k]
      BY <1>1, <1>2, <3>2
    <3>5. \A k \in 1 .. Len(path) : k = Len(path) \/ k \in 1 .. Len(path) - 1
      BY <1>1
    <3> HIDE DEF u, path
    <3>6. u = path
      <4>1. \A k \in 1 .. Len(u) : u[k] = path[k]
        BY <2>1, <3>2, <3>3, <3>4, <3>5
      <4> QED BY <1>1, <3>3, <4>1, SameSequence
    <3> QED BY <3>6 DEF u
  <2>2. CASE path[Len(path)] # Slash
    BY <2>2 DEF TrimSuffix
  <2> QED BY <2>1, <2>2
<1>5. path = <<Slash>> => t = <<>>
  <2>1. <<Slash>>[Len(<<Slash>>)] = Slash /\ SubSeq(<<Slash>>, 1, Len(<<Slash>>) - 1) = <<>>
    OBVIOUS
  <2> QED BY <2>1 DEF TrimSuffix, Front
<1>6. <<>> \o <<Slash, Star>> = <<Slash, Star>>
  OBVIOUS
<1>7. ASSUME p.type = "Exact", t = path PROVE pathPatternsForPath(p) = {t}
  BY <1>7 DEF pathPatternsForPath
<1>8. ASSUME p.type = "Prefix", path = <<Slash>>
      PROVE  t = <<>> /\ pathPatternsForPath(p) = {Wildcard(t)}
  <2>1. pathPatternsForPath(p) = {<<Slash, Star>>}
    BY <1>8 DEF pathPatternsForPath, buildPatternsForPrefix
  <2>2. t = <<>>
    BY <1>5, <1>8
  <2>3. Wildcard(t) = <<Slash, Star>>
    BY <1>6, <2>2 DEF Wildcard
  <2> QED BY <2>1, <2>2, <2>3
<1>9. ASSUME p.type = "Prefix", path # <<Slash>>
      PROVE  pathPatternsForPath(p) = {t, Wildcard(t)}
  <2>1. pathPatternsForPath(p) = {t, t \o <<Slash, Star>>}
    BY <1>9 DEF pathPatternsForPath, buildPatternsForPrefix
  <2> QED BY <2>1 DEF Wildcard
<1>10. \A k \in 1 .. Len(t) : t[k] \notin {Star, Question}
  BY <1>2, <1>3
<1> QED BY <1>2, <1>3, <1>4, <1>7, <1>8, <1>9, <1>10

(* The request r is below the path t.                                      *)
Under(r, t) == Begins(Wildcard(t), r, Len(t) + 1)

(* A Prefix path matches itself and what is below it.                      *)
LEMMA PrefixOrUnder ==
    ASSUME NEW t \in Seq(Nat), NEW r \in Seq(Nat)
    PROVE  IsPrefix(t \o <<Slash>>, r \o <<Slash>>) <=> r = t \/ Under(r, t)
<1> DEFINE x == t \o <<Slash>>
           y == r \o <<Slash>>
           w == Wildcard(t)
           n == Len(t)
           m == Len(r)
<1>1. /\ x \in Seq(Nat) /\ Len(x) = n + 1 /\ x[n + 1] = Slash
      /\ \A k \in 1 .. n : x[k] = t[k]
  BY DEF Slash
<1>2. /\ y \in Seq(Nat) /\ Len(y) = m + 1 /\ y[m + 1] = Slash
      /\ \A k \in 1 .. m : y[k] = r[k]
  BY DEF Slash
<1>3. w[n + 1] = Slash /\ \A k \in 1 .. n : w[k] = t[k]
  BY WildcardIs
<1>4. n \in Nat /\ m \in Nat
  OBVIOUS
<1>5. IsPrefix(x, y) <=> Begins(x, y, n + 1)
  BY <1>1, <1>2, PrefixBegins
<1>6. Under(r, t) <=> Begins(w, r, n + 1)
  BY DEF Under
<1>7. r = t => n = m
  OBVIOUS
<1>8. m = n => (r = t <=> \A k \in 1 .. n : t[k] = r[k])
  BY SameSequence
<1> HIDE DEF x, y, w, n, m
<1>9. \A k \in 1 .. n + 1 : k = n + 1 \/ k \in 1 .. n
  BY <1>4
<1>10. n + 1 \in 1 .. n + 1 /\ \A k \in 1 .. n : k \in 1 .. n + 1
  BY <1>4
<1>11. CASE m = n
  <2>1. ~Begins(w, r, n + 1)
    BY <1>4, <1>11 DEF Begins, m
  <2>2. Begins(x, y, n + 1) <=> \A k \in 1 .. n + 1 : x[k] = y[k]
    BY <1>2, <1>4, <1>11 DEF Begins
  <2>3. Begins(x, y, n + 1) <=> \A k \in 1 .. n : t[k] = r[k]
    BY <1>1, <1>2, <1>9, <1>10, <1>11, <2>2
  <2> QED BY <1>5, <1>6, <1>8, <1>11, <2>1, <2>3 DEF x, y
<1>12. CASE m # n
  <2>1. r # t
    BY <1>7, <1>12
  <2>2. n + 1 <= m + 1 <=> n + 1 <= m
    BY <1>4, <1>12
  <2>3. ASSUME n + 1 <= m, NEW k \in 1 .. n + 1 PROVE x[k] = w[k] /\ y[k] = r[k]
    <3>1. k \in 1 .. m
      BY <1>4, <2>3
    <3> QED BY <1>1, <1>2, <1>3, <1>9, <3>1
  <2>4. Begins(x, y, n + 1) <=> Begins(w, r, n + 1)
    BY <1>2, <2>2, <2>3 DEF Begins, m
  <2> QED BY <1>5, <1>6, <2>1, <2>4 DEF x, y
<1> QED BY <1>11, <1>12

(* An Ingress would route a request by a plain path exactly when one of    *)
(* the patterns of the path matches the request.                           *)
LEMMA PlainMatches ==
    ASSUME NEW p \in Paths, Plain(p), NEW r \in Requests, NEW t, t = TrimSuffix(p.pattern)
    PROVE  /\ IngressMatches(p, r) => \/ r = t /\ t \in pathPatternsForPath(p)
                                      \/ /\ p.type = "Prefix" /\ Under(r, t)
                                         /\ Wildcard(t) \in pathPatternsForPath(p)
           /\ IngressMatches(p, r) => \E pp \in pathPatternsForPath(p) : Matches(pp, r)
           /\ \A pp \in pathPatternsForPath(p) : Matches(pp, r) =>
                 /\ IngressMatches(p, r)
                 /\ \/ pp = r /\ t = r
                    \/ p.type = "Prefix" /\ pp = Wildcard(t) /\ Under(r, t)
<1>1. /\ t \in Seq(Nat)
      /\ t = <<>> \/ t[Len(t)] # Slash
      /\ \A k \in 1 .. Len(t) : t[k] \notin {Star, Question}
      /\ p.pattern = t \/ p.pattern = t \o <<Slash>>
      /\ \/ p.type = "Exact" /\ p.pattern = t /\ pathPatternsForPath(p) = {t}
         \/ p.type = "Prefix" /\ p.pattern # <<Slash>> /\ pathPatternsForPath(p) = {t, Wildcard(t)}
         \/ p.type = "Prefix" /\ t = <<>> /\ pathPatternsForPath(p) = {Wildcard(t)}
  BY PlainPatterns
<1>2. r \in Seq(Nat) /\ r # <<>>
  BY PatternsAssumption
<1>3. Matches(t, r) <=> t = r
  BY <1>1, <1>2, LiteralMatches
<1>4. Matches(Wildcard(t), r) <=> Under(r, t)
  BY <1>1, <1>2, WildcardMatches DEF Wildcard, Under
<1>5. IsPrefix(t \o <<Slash>>, r \o <<Slash>>) <=> r = t \/ Under(r, t)
  BY <1>1, <1>2, PrefixOrUnder
<1>6. r = t \o <<Slash>> => Under(r, t)
  <2>1. SUFFICES ASSUME r = t \o <<Slash>> PROVE Begins(Wildcard(t), r, Len(t) + 1)
    BY DEF Under
  <2>2. Len(r) = Len(t) + 1 /\ r[Len(t) + 1] = Slash /\ \A k \in 1 .. Len(t) : r[k] = t[k]
    BY <1>1, <2>1
  <2>3. \A k \in 1 .. Len(t) + 1 : k = Len(t) + 1 \/ k \in 1 .. Len(t)
    BY <1>1
  <2>4. Len(t) + 1 <= Len(r)
    BY <1>1, <2>2
  <2>5. \A k \in 1 .. Len(t) + 1 : Wildcard(t)[k] = r[k]
    BY <1>1, <2>2, <2>3, WildcardIs
  <2> QED BY <2>4, <2>5 DEF Begins
<1>7. p.type = "Exact" => (IngressMatches(p, r) <=> r = p.pattern)
  BY DEF IngressMatches
<1>8. p.type = "Prefix" => (IngressMatches(p, r) <=> r = t \/ Under(r, t))
  <2>1. ASSUME p.type = "Prefix"
        PROVE  IngressMatches(p, r) <=> r = p.pattern \/ IsPrefix(t \o <<Slash>>, r \o <<Slash>>)
    BY <2>1 DEF IngressMatches
  <2> QED BY <2>1, <1>1, <1>5, <1>6
<1>9. "Exact" # "Prefix"
  OBVIOUS
<1> QED BY <1>1, <1>2, <1>3, <1>4, <1>7, <1>8, <1>9

(* Of a path below t that matches literally and the wildcard pattern of t, *)
(* the literal one is the more specific.  It may not end in "/".           *)
LEMMA LiteralFirst ==
    ASSUME NEW t \in Seq(Nat), NEW r \in Seq(Nat), Under(r, t), r[Len(r)] # Slash,
           \A k \in 1 .. Len(r) : r[k] \notin {Star, Question}
    PROVE  Wildcard(t) # r /\ ~isInMostSpecificOrder(Wildcard(t), r)
<1> DEFINE w == Wildcard(t)
           n == Len(t)
<1>1. /\ w \in Seq(Nat) /\ Len(w) = n + 2 /\ DOMAIN w = 1 .. n + 2 /\ n \in Nat
      /\ w[n + 1] = Slash /\ w[n + 2] = Star
  BY WildcardIs
<1>2. n + 1 <= Len(r) /\ \A k \in 1 .. n + 1 : w[k] = r[k]
  BY DEF Under, Begins
<1>3. Len(r) \in Nat
  OBVIOUS
<1> HIDE DEF w, n
<1>4. n + 1 \in 1 .. n + 1
  BY <1>1
<1>5. Len(r) # n + 1
  BY <1>1, <1>2, <1>4
<1>6. n + 2 <= Len(r) /\ n + 2 \in 1 .. Len(r)
  BY <1>1, <1>2, <1>3, <1>5
<1>7. w # r
  BY <1>1, <1>6
<1>8. CASE Len(r) # n + 2
  BY <1>1, <1>3, <1>6, <1>7, <1>8 DEF isInMostSpecificOrder, w
<1>9. CASE Len(r) = n + 2
  <2>1. \A k \in 1 .. n + 2 : k \in 1 .. n + 1 \/ k = n + 2
    BY <1>1
  <2>2. \A k \in DOMAIN w : w[k] # r[k] => ~Precedes(w[k], r[k])
    BY <1>1, <1>2, <2>1 DEF Precedes
  <2> QED BY <1>1, <1>7, <1>9, <2>2 DEF isInMostSpecificOrder, w
<1> QED BY <1>7, <1>8, <1>9 DEF w

(* All paths of the group are plain.                                       *)
AllPlain == \A c \in Contributions : \A p \in DOMAIN c.fas : Plain(p)

(* The path p of c is one the request r may be routed by.                  *)
RoutedBy(c, p, r) == c \in Contributions /\ p \in DOMAIN c.fas /\ IngressMatches(p, r)

(* The first behavior that matches a request belongs to a path that        *)
(* Kubernetes prefers to all the others that match.                        *)
LEMMA Routing ==
    ASSUME group \in Groups, ContributionsAgree, AllPlain,
           NEW bs, AreBehaviors(bs), BehaviorsOf(bs),
           NEW sorted \in SortedCustomBehaviors(bs), NEW r \in Requests,
           NEW host, host = ServedBy(sorted, r, DefaultHost)
    PROVE  \/ host = DefaultHost /\ \A c, p : ~RoutedBy(c, p, r)
           \/ \E c, p : /\ RoutedBy(c, p, r) /\ c.host = host
                        /\ \A d, q : RoutedBy(d, q, r) => Preferred(p, q)
<1>0. r \in Seq(Nat) /\ r # <<>> /\ Len(r) \in Nat /\ Len(r) > 0
  BY PatternsAssumption
<1>1. ASSUME NEW c \in Contributions, NEW p \in DOMAIN c.fas PROVE p \in Paths /\ Plain(p)
  BY Contributed DEF AllPlain, IsCDNIngress
<1>2. ASSUME NEW c, NEW p, RoutedBy(c, p, r)
      PROVE  \E b \in bs : b.host = c.host /\ b.pattern \in pathPatternsForPath(p) /\ Matches(b.pattern, r)
  <2>1. PICK pp \in pathPatternsForPath(p) : Matches(pp, r)
    BY <1>1, <1>2, PlainMatches DEF RoutedBy
  <2> QED BY <1>2, <2>1 DEF RoutedBy, BehaviorsOf
<1>3. CASE host = DefaultHost /\ \A b \in bs : ~Matches(b.pattern, r)
  BY <1>2, <1>3
<1>4. ASSUME NEW b \in bs, host = b.host, Matches(b.pattern, r),
             \A c \in bs : Matches(c.pattern, r) =>
                \/ c.pattern = b.pattern
                \/ isInMostSpecificOrder(b.pattern, c.pattern)
      PROVE  \E c, p : /\ RoutedBy(c, p, r) /\ c.host = host
                       /\ \A d, q : RoutedBy(d, q, r) => Preferred(p, q)
  <2>1. PICK c \in Contributions : \E p \in DOMAIN c.fas :
                b.host = c.host /\ b.pattern \in pathPatternsForPath(p)
    BY DEF BehaviorsOf
  <2>2. PICK p \in DOMAIN c.fas : b.host = c.host /\ b.pattern \in pathPatternsForPath(p)
    BY <2>1
  <2> DEFINE t == TrimSuffix(p.pattern)
  <2>3. /\ IngressMatches(p, r)
        /\ \/ b.pattern = r /\ t = r
           \/ p.type = "Prefix" /\ b.pattern = Wildcard(t) /\ Under(r, t)
    BY <1>1, <1>4, <2>2, PlainMatches
  <2>4. RoutedBy(c, p, r)
    BY <2>3 DEF RoutedBy
  <2>5. t \in Seq(Nat) /\ Len(t) \in Nat
    BY <1>1, PlainPatterns
  <2>6. ASSUME NEW d, NEW q, RoutedBy(d, q, r)
        PROVE  LET u == TrimSuffix(q.pattern) IN
               /\ u \in Seq(Nat) /\ Len(u) \in Nat
               /\ q.type = "Exact" \/ q.type = "Prefix"
               /\ q.type = "Exact" => u = r
               /\ \/ r = u /\ u \in pathPatternsForPath(q)
                  \/ /\ q.type = "Prefix" /\ Under(r, u)
                     /\ Wildcard(u) \in pathPatternsForPath(q)
               /\ u = <<>> \/ u[Len(u)] # Slash
               /\ \A k \in 1 .. Len(u) : u[k] \notin {Star, Question}
    <3> DEFINE u == TrimSuffix(q.pattern)
    <3>1. q \in Paths /\ Plain(q) /\ IngressMatches(q, r)
      BY <1>1, <2>6 DEF RoutedBy
    <3>2. /\ u \in Seq(Nat) /\ Len(u) \in Nat
          /\ q.type = "Exact" \/ q.type = "Prefix"
          /\ u = <<>> \/ u[Len(u)] # Slash
          /\ \A k \in 1 .. Len(u) : u[k] \notin {Star, Question}
      BY <3>1, PlainPatterns
    <3>3. \/ r = u /\ u \in pathPatternsForPath(q)
          \/ /\ q.type = "Prefix" /\ Under(r, u)
             /\ Wildcard(u) \in pathPatternsForPath(q)
      BY <3>1, PlainMatches
    <3> QED BY <3>2, <3>3
  <2>7. ASSUME NEW d, NEW q, RoutedBy(d, q, r)
        PROVE  Len(TrimSuffix(q.pattern)) <= Len(r)
    <3> DEFINE u == TrimSuffix(q.pattern)
    <3>1. u \in Seq(Nat) /\ Len(u) \in Nat /\ (r = u \/ Under(r, u))
      BY <2>6, <2>7
    <3>2. Under(r, u) => Len(u) + 1 <= Len(r)
      BY DEF Under, Begins
    <3> HIDE DEF u
    <3>3. Len(u) <= Len(r)
      BY <1>0, <3>1, <3>2
    <3> QED BY <3>3 DEF u
  <2>8. CASE b.pattern = r /\ t = r
    <3>1. ASSUME NEW d, NEW q, RoutedBy(d, q, r), q.type = "Exact" PROVE d.host = host
      <4>1. r \in pathPatternsForPath(q)
        BY <2>6, <3>1
      <4>2. r \in PatternsOf(d) /\ r \in PatternsOf(c) /\ d \in Contributions
        BY <2>2, <2>8, <3>1, <4>1 DEF PatternsOf, RoutedBy
      <4> QED BY <1>4, <2>2, <4>2 DEF ContributionsAgree
    <3>2. ASSUME NEW x, TrimSuffix(x.pattern) = r, NEW d, NEW q, RoutedBy(d, q, r),
                 x.type = "Exact" \/ q.type # "Exact"
          PROVE  Preferred(x, q)
      <4> DEFINE n == Len(TrimSuffix(q.pattern))
      <4>1. n \in Nat /\ n <= Len(r) /\ (q.type = "Exact" \/ q.type = "Prefix")
        BY <2>6, <2>7, <3>2
      <4>2. Len(r) > n \/ Len(r) = n
        BY <1>0, <4>1
      <4> QED BY <3>2, <4>1, <4>2 DEF Preferred
    <3>3. CASE \E d, q : RoutedBy(d, q, r) /\ q.type = "Exact"
      <4>1. PICK d, q : RoutedBy(d, q, r) /\ q.type = "Exact"
        BY <3>3
      <4>2. TrimSuffix(q.pattern) = r
        BY <2>6, <4>1
      <4> QED BY <3>1, <3>2, <4>1, <4>2
    <3>4. CASE ~ \E d, q : RoutedBy(d, q, r) /\ q.type = "Exact"
      BY <1>4, <2>2, <2>4, <2>8, <3>2, <3>4
    <3> QED BY <3>3, <3>4
  <2>9. CASE p.type = "Prefix" /\ b.pattern = Wildcard(t) /\ Under(r, t)
    <3>1. ASSUME NEW d, NEW q, RoutedBy(d, q, r) PROVE Preferred(p, q)
      <4> DEFINE u == TrimSuffix(q.pattern)
      <4>1. /\ u \in Seq(Nat) /\ Len(u) \in Nat
            /\ q.type = "Exact" \/ q.type = "Prefix"
            /\ q.type = "Exact" => u = r
            /\ \/ r = u /\ u \in pathPatternsForPath(q)
               \/ /\ q.type = "Prefix" /\ Under(r, u)
                  /\ Wildcard(u) \in pathPatternsForPath(q)
            /\ u = <<>> \/ u[Len(u)] # Slash
            /\ \A k \in 1 .. Len(u) : u[k] \notin {Star, Question}
        BY <2>6, <3>1
      <4> HIDE DEF u, t
      <4>2. ASSUME NEW pp \in pathPatternsForPath(q), Matches(pp, r)
            PROVE  pp = Wildcard(t) \/ isInMostSpecificOrder(Wildcard(t), pp)
        <5>1. PICK x \in bs : x.pattern = pp
          BY <3>1 DEF RoutedBy, BehaviorsOf
        <5> QED BY <1>4, <2>9, <4>2, <5>1
      <4>3. r # u
        <5> SUFFICES ASSUME r = u PROVE FALSE
          OBVIOUS
        <5>1. Matches(u, r) /\ u \in pathPatternsForPath(q)
          <6>1. Matches(u, r)
            BY <1>0, <4>1, LiteralMatches
          <6>2. Wildcard(u) \in pathPatternsForPath(q) => ~Under(r, u)
            <7>1. ~(Len(r) + 1 <= Len(r))
              BY <1>0
            <7> QED BY <7>1 DEF Under, Begins
          <6> QED BY <4>1, <6>1, <6>2
        <5>2. u = Wildcard(t) \/ isInMostSpecificOrder(Wildcard(t), u)
          BY <4>2, <5>1
        <5>3. Wildcard(t) # r /\ ~isInMostSpecificOrder(Wildcard(t), r)
          BY <1>0, <2>5, <2>9, <4>1, LiteralFirst
        <5> QED BY <5>2, <5>3
      <4>4. q.type = "Prefix" /\ Under(r, u) /\ Wildcard(u) \in pathPatternsForPath(q)
        BY <4>1, <4>3
      <4>5. Matches(Wildcard(u), r)
        BY <1>0, <4>1, <4>4, WildcardMatches DEF Wildcard, Under
      <4>6. Wildcard(u) = Wildcard(t) \/ isInMostSpecificOrder(Wildcard(t), Wildcard(u))
        BY <4>2, <4>4, <4>5
      <4>7. Len(Wildcard(u)) = Len(u) + 2 /\ Len(Wildcard(t)) = Len(t) + 2
        BY <2>5, <4>1, WildcardIs
      <4>8. Len(Wildcard(u)) = Len(Wildcard(t)) \/ Len(Wildcard(t)) > Len(Wildcard(u))
        BY <4>6 DEF isInMostSpecificOrder
      <4>9. Len(t) > Len(u) \/ Len(t) = Len(u)
        BY <2>5, <4>1, <4>7, <4>8
      <4> QED BY <4>4, <4>9 DEF Preferred, t, u
    <3> QED BY <1>4, <2>2, <2>4, <3>1
  <2> QED BY <2>3, <2>8, <2>9
<1> QED BY <1>3, <1>4, FirstServes

(* The same of a desired distribution.                                     *)
LEMMA DesiredRouting ==
    ASSUME InputsKept, ContributionsAgree, AllPlain, NEW order \in SetToSeqs(Names),
           NEW d \in desiredState(Fetched(order)), d.ok, NEW r \in Requests,
           NEW host, host = ServedBy(d.behaviors, r, DefaultHost)
    PROVE  \/ host = DefaultHost /\ \A c, p : ~RoutedBy(c, p, r)
           \/ \E c, p : /\ RoutedBy(c, p, r) /\ c.host = host
                        /\ \A e, q : RoutedBy(e, q, r) => Preferred(p, q)
<1>0. group \in Groups
  BY DEF InputsKept
<1> DEFINE s == Fetched(order)
           m == mergedPaths(s)
           os == customOrigins(s, m.fas)
           bs == cacheBehaviors(os)
<1>1. m.ok /\ d.behaviors \in SortedCustomBehaviors(bs)
  BY DEF desiredState, Refused
<1>2. Lists(s)
  BY <1>0, FetchedIsContributed DEF Lists
<1> HIDE DEF s, m, os
<1>3. IsMerged(m) /\ MergedOf(m)
  BY <1>0, <1>1, <1>2, MergedAll DEF m
<1>4. AreBehaviors(bs) /\ BehaviorsOf(bs)
  BY <1>0, <1>2, <1>3, GroupBehaviors DEF os
<1> HIDE DEF bs
<1> QED BY <1>0, <1>1, <1>4, Routing

(* CloudFront, which takes the first pattern that matches, serves a        *)
(* request by the origin that the Ingresses would route it to: the longest *)
(* path, Exact before Prefix, or the default origin when no path matches.  *)
(* Every number of Ingresses, hosts and paths and every request is         *)
(* covered, provided the contributions agree and the paths are plain.      *)
THEOREM RoutingIsRight == Spec => []RoutedAsIngress
<1>1. InputsKept /\ ResultIsDesired => RoutedAsIngress
  <2> SUFFICES ASSUME InputsKept, ResultIsDesired, Built, ContributionsAgree, AllPlain,
                      NEW r \in Requests
               PROVE  LET host == ServedBy(result.behaviors, r, DefaultHost)
                          routes == UNION {{[host |-> c.host, path |-> p] :
                                    p \in {q \in DOMAIN c.fas : IngressMatches(q, r)}} :
                                 c \in Contributions}
                      IN  IF routes = {} THEN host = DefaultHost
                          ELSE \E x \in routes : /\ host = x.host
                                                 /\ \A y \in routes : Preferred(x.path, y.path)
    BY DEF RoutedAsIngress, AllPlain
  <2> DEFINE host == ServedBy(result.behaviors, r, DefaultHost)
             routes == UNION {{[host |-> c.host, path |-> p] :
                                    p \in {q \in DOMAIN c.fas : IngressMatches(q, r)}} :
                                 c \in Contributions}
  <2>1. PICK order \in SetToSeqs(Names) : result \in desiredState(Fetched(order))
    BY DEF ResultIsDesired, Built
  <2>2. \/ host = DefaultHost /\ \A c, p : ~RoutedBy(c, p, r)
        \/ \E c, p : /\ RoutedBy(c, p, r) /\ c.host = host
                     /\ \A e, q : RoutedBy(e, q, r) => Preferred(p, q)
    BY <2>1, DesiredRouting DEF Built
  <2>3. ASSUME NEW c, NEW p, RoutedBy(c, p, r) PROVE [host |-> c.host, path |-> p] \in routes
    BY <2>3 DEF RoutedBy
  <2>4. ASSUME NEW y \in routes PROVE \E c : RoutedBy(c, y.path, r)
    <3>1. PICK c \in Contributions : y \in {[host |-> c.host, path |-> p] :
                                              p \in {q \in DOMAIN c.fas : IngressMatches(q, r)}}
      OBVIOUS
    <3>2. y.path \in {q \in DOMAIN c.fas : IngressMatches(q, r)}
      BY <3>1
    <3> QED BY <3>2 DEF RoutedBy
  <2> HIDE DEF host, routes
  <2>5. CASE host = DefaultHost /\ \A c, p : ~RoutedBy(c, p, r)
    BY <2>4, <2>5 DEF host, routes
  <2>6. ASSUME NEW c, NEW p, RoutedBy(c, p, r), c.host = host,
               \A e, q : RoutedBy(e, q, r) => Preferred(p, q)
        PROVE  \E x \in routes : host = x.host /\ \A y \in routes : Preferred(x.path, y.path)
    <3> DEFINE x == [host |-> c.host, path |-> p]
    <3>1. x \in routes /\ x.host = host /\ x.path = p
      BY <2>3, <2>6
    <3> HIDE DEF x
    <3> QED BY <2>4, <2>6, <3>1
  <2>7. (\E x \in routes : host = x.host /\ \A y \in routes : Preferred(x.path, y.path))
        \/ (routes = {} /\ host = DefaultHost)
    BY <2>2, <2>4, <2>5, <2>6
  <2> QED BY <2>7 DEF host, routes
<1> QED BY <1>1, BuilderInvariance, PTL
=============================================================================
