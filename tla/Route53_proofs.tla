--------------------------- MODULE Route53_proofs ---------------------------
(***************************************************************************)
(* Lemmas about the operators of Route53: what the two ways of rewriting a *)
(* TXT record add, keep and drop, and what a successful validation says.   *)
(***************************************************************************)
EXTENDS Route53, TLAPS

(* A record without records is one a zone may store. *)
LEMMA NoRecordsType == NoRecords \in RecordSets
  BY DEF NoRecords, RecordSets, RRTypes

(* Everything a TXT record holds is a TXT value. *)
LEMMA TXTElements ==
  ASSUME NEW txt \in Seq(TXTValues), NEW k \in DOMAIN txt
  PROVE  txt[k] \in TXTValues
  OBVIOUS

(* ensureTXTValue keeps every value, adds at most the owner's, and leaves  *)
(* a record that has the owner's.                                          *)
LEMMA EnsureTXT ==
  ASSUME NEW owner \in TXTValues, NEW txt \in Seq(TXTValues)
  PROVE  LET new == ensureTXTValue(owner, txt) IN
         /\ new \in Seq(TXTValues)
         /\ \E k \in DOMAIN new : new[k] = owner
         /\ \A k \in DOMAIN new : new[k] = owner \/ \E j \in DOMAIN txt : new[k] = txt[j]
<1>1. CASE \E k \in DOMAIN txt : txt[k] = owner
  BY <1>1 DEF ensureTXTValue
<1>2. CASE ~ \E k \in DOMAIN txt : txt[k] = owner
  <2> DEFINE new == Append(txt, owner)
  <2>1. ensureTXTValue(owner, txt) = new
    BY <1>2 DEF ensureTXTValue
  <2>2. new \in Seq(TXTValues) /\ Len(new) = Len(txt) + 1 /\ new[Len(txt) + 1] = owner
    OBVIOUS
  <2>3. \A k \in DOMAIN new : new[k] = owner \/ \E j \in DOMAIN txt : new[k] = txt[j]
    OBVIOUS
  <2> HIDE DEF new
  <2> QED
    BY <2>1, <2>2, <2>3
<1> QED
  BY <1>1, <1>2

(* removeOwnershipRecord adds no value and keeps every other value. *)
LEMMA RemoveTXT ==
  ASSUME NEW owner \in TXTValues, NEW txt \in Seq(TXTValues)
  PROVE  LET new == removeOwnershipRecord(owner, txt) IN
         /\ new \in Seq(TXTValues)
         /\ \A k \in DOMAIN new : \E j \in DOMAIN txt : new[k] = txt[j]
         /\ \A j \in DOMAIN txt : txt[j] # owner => \E k \in DOMAIN new : new[k] = txt[j]
<1>1. CASE \E k \in DOMAIN txt : txt[k] = owner
  <2> DEFINE n == Len(txt) - 1
             f == [j \in 1 .. n |->
                     IF \E k \in 1 .. j : txt[k] = owner THEN txt[j + 1] ELSE txt[j]]
  <2>1. removeOwnershipRecord(owner, txt) = f
    BY <1>1 DEF removeOwnershipRecord
  <2>2. n \in Nat
    BY <1>1
  <2>3. \A j \in 1 .. n : f[j] = txt[j] \/ f[j] = txt[j + 1]
    OBVIOUS
  <2>4. \A j \in 1 .. n : f[j] \in TXTValues
    BY <2>2, <2>3
  <2>5. f \in Seq(TXTValues) /\ DOMAIN f = 1 .. n
    BY <2>2, <2>4
  <2>6. \A k \in 1 .. n : \E j \in DOMAIN txt : f[k] = txt[j]
    BY <2>2, <2>3
  <2>7. ASSUME NEW j \in DOMAIN txt, txt[j] # owner
        PROVE  \E k \in 1 .. n : f[k] = txt[j]
    <3>1. CASE \E k \in 1 .. j : txt[k] = owner
      <4>1. PICK k \in 1 .. j : txt[k] = owner
        BY <3>1
      <4>2. k \in 1 .. j - 1 /\ j - 1 \in 1 .. n
        BY <2>7, <4>1
      <4>3. f[j - 1] = txt[j]
        BY <4>1, <4>2
      <4> QED
        BY <4>2, <4>3
    <3>2. CASE ~ \E k \in 1 .. j : txt[k] = owner
      <4>1. j \in 1 .. n
        BY <1>1, <3>2
      <4>2. f[j] = txt[j]
        BY <3>2, <4>1
      <4> QED
        BY <4>1, <4>2
    <3> QED
      BY <3>1, <3>2
  <2> HIDE DEF f
  <2> QED
    BY <2>1, <2>5, <2>6, <2>7
<1>2. CASE ~ \E k \in DOMAIN txt : txt[k] = owner
  BY <1>2 DEF removeOwnershipRecord
<1> QED
  BY <1>1, <1>2

(* What removeOwnershipRecord leaves comes from different places. *)
LEMMA RemovePositions ==
  ASSUME NEW owner \in TXTValues, NEW txt \in Seq(TXTValues)
  PROVE  LET new == removeOwnershipRecord(owner, txt) IN
         \A j, k \in DOMAIN new : \E p, q \in DOMAIN txt :
            new[j] = txt[p] /\ new[k] = txt[q] /\ (p = q => j = k)
<1>1. CASE \E k \in DOMAIN txt : txt[k] = owner
  <2> DEFINE n == Len(txt) - 1
             after(j) == \E k \in 1 .. j : txt[k] = owner
             pos(j) == IF after(j) THEN j + 1 ELSE j
             f == [j \in 1 .. n |-> IF after(j) THEN txt[j + 1] ELSE txt[j]]
  <2>1. removeOwnershipRecord(owner, txt) = f
    BY <1>1 DEF removeOwnershipRecord
  <2>2. n \in Nat /\ DOMAIN f = 1 .. n /\ DOMAIN txt = 1 .. n + 1
    BY <1>1
  <2>3. \A j \in 1 .. n : f[j] = txt[pos(j)] /\ pos(j) \in 1 .. n + 1
    BY <2>2
  <2>4. \A j, k \in 1 .. n : (j < k /\ after(j)) => after(k)
    BY <2>2
  <2>5. \A j, k \in 1 .. n : j < k => pos(j) # pos(k)
    <3> HIDE DEF after
    <3> QED
      BY <2>2, <2>4
  <2>6. \A j, k \in 1 .. n : pos(j) = pos(k) => j = k
    <3> HIDE DEF pos
    <3> QED
      BY <2>2, <2>5
  <2> HIDE DEF f, n, pos
  <2> QED
    BY <2>1, <2>2, <2>3, <2>6
<1>2. CASE ~ \E k \in DOMAIN txt : txt[k] = owner
  BY <1>2 DEF removeOwnershipRecord
<1> QED
  BY <1>1, <1>2

(* Of a record that has the value once, nothing of it is left. *)
LEMMA RemoveOnce ==
  ASSUME NEW owner \in TXTValues, NEW txt \in Seq(TXTValues),
         \A j, k \in DOMAIN txt : (txt[j] = owner /\ txt[k] = owner) => j = k
  PROVE  LET new == removeOwnershipRecord(owner, txt) IN
         \A j \in DOMAIN new : new[j] # owner
<1>1. CASE \E k \in DOMAIN txt : txt[k] = owner
  <2> DEFINE n == Len(txt) - 1
             f == [j \in 1 .. n |->
                     IF \E k \in 1 .. j : txt[k] = owner THEN txt[j + 1] ELSE txt[j]]
  <2>1. removeOwnershipRecord(owner, txt) = f
    BY <1>1 DEF removeOwnershipRecord
  <2>2. n \in Nat /\ DOMAIN f = 1 .. n /\ DOMAIN txt = 1 .. n + 1
    BY <1>1
  <2>3. ASSUME NEW j \in 1 .. n PROVE f[j] # owner
    <3>1. CASE \E k \in 1 .. j : txt[k] = owner
      <4>1. PICK k \in 1 .. j : txt[k] = owner
        BY <3>1
      <4>2. k \in DOMAIN txt /\ j + 1 \in DOMAIN txt /\ k # j + 1
        BY <2>2, <4>1
      <4>3. f[j] = txt[j + 1]
        BY <3>1
      <4> QED
        BY <4>1, <4>2, <4>3
    <3>2. CASE ~ \E k \in 1 .. j : txt[k] = owner
      <4>1. f[j] = txt[j] /\ j \in 1 .. j
        BY <2>2, <3>2
      <4> QED
        BY <3>2, <4>1
    <3> QED
      BY <3>1, <3>2
  <2> HIDE DEF f, n
  <2> QED
    BY <2>1, <2>2, <2>3
<1>2. CASE ~ \E k \in DOMAIN txt : txt[k] = owner
  BY <1>2 DEF removeOwnershipRecord
<1> QED
  BY <1>1, <1>2

(* A change batch turns record sets a zone may hold into others.           *)
LEMMA UpsertType ==
  ASSUME NEW aliases, aliases.target \in Targets \cup {None}, aliases.owner \in OwnerValues,
         NEW seen \in Zones, NEW zone \in Zones
  PROVE  UpsertChanges(aliases, seen, zone) \in Zones
<1>1. ASSUME NEW h \in Hosts
      PROVE  upsertEntry(aliases, seen[h], zone[h]) \in RecordSets
  <2>1. seen[h].txt \in Seq(TXTValues) /\ zone[h] \in RecordSets
    BY DEF Zones, RecordSets
  <2>2. ensureTXTValue(aliases.owner, seen[h].txt) \in Seq(TXTValues)
    BY <2>1, EnsureTXT DEF TXTValues
  <2>3. [t \in RRTypes |-> IF t \in aliases.types THEN aliases.target ELSE zone[h].addr[t]]
          \in [RRTypes -> Targets \cup {None}]
    BY <2>1 DEF RecordSets
  <2> QED
    BY <2>1, <2>2, <2>3 DEF upsertEntry, RecordSets
<1> QED
  BY <1>1 DEF UpsertChanges, Zones

LEMMA DeleteType ==
  ASSUME NEW aliases, aliases.owner \in OwnerValues, NEW seen \in Zones, NEW zone \in Zones
  PROVE  DeleteChanges(aliases, seen, zone) \in Zones
<1>1. ASSUME NEW h \in Hosts
      PROVE  deleteEntry(aliases, seen[h], zone[h]) \in RecordSets
  <2>1. seen[h].txt \in Seq(TXTValues) /\ zone[h] \in RecordSets
    BY DEF Zones, RecordSets
  <2>2. removeOwnershipRecord(aliases.owner, seen[h].txt) \in Seq(TXTValues)
    BY <2>1, RemoveTXT DEF TXTValues
  <2>3. [t \in RRTypes |-> IF t \in aliases.types THEN None ELSE zone[h].addr[t]]
          \in [RRTypes -> Targets \cup {None}]
    BY <2>1 DEF RecordSets
  <2> QED
    BY <2>1, <2>2, <2>3 DEF deleteEntry, RecordSets
<1> QED
  BY <1>1 DEF DeleteChanges, Zones

(* The types and the names NewAliases gives the entries. *)
LEMMA AliasesFields ==
  ASSUME NEW target, NEW owner, NEW ds, NEW ipv6 \in BOOLEAN
  PROVE  LET aliases == NewAliases(target, owner, ds, ipv6) IN
         /\ aliases.target = target
         /\ aliases.owner = owner
         /\ "A" \in aliases.types
         /\ ipv6 => aliases.types = RRTypes
         /\ ~ipv6 => aliases.types = {"A"}
         /\ aliases.entries = NormalizeDomains(ds)
  BY DEF NewAliases, RRTypes
=============================================================================
