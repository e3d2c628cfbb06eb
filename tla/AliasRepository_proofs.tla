----------------------- MODULE AliasRepository_proofs -----------------------
(***************************************************************************)
(* Proofs about AliasRepository, for any number of controllers, hosts and  *)
(* values, whatever their settings of IPv6: type correctness, that a name  *)
(* never has two ownership values, that its A record and its ownership     *)
(* value change together, and how an AAAA record can lose its owner.       *)
(***************************************************************************)
EXTENDS AliasRepository, Route53_proofs

LEMMA NoCallType == NoCall \in CallStates
  BY NoRecordsType DEF NoCall, CallStates, NothingSeen, Operations

(* What c's calls send: its own owner value and target, for its names. *)
LEMMA CallAliases ==
  ASSUME TypeOK, NEW c \in Controllers
  PROVE  /\ Aliases(c).target = TargetOf[c]
         /\ Aliases(c).owner = OwnerOf[c]
         /\ "A" \in Aliases(c).types
         /\ call[c].ipv6 => Aliases(c).types = RRTypes
         /\ ~call[c].ipv6 => Aliases(c).types = {"A"}
         /\ Names(Aliases(c)) = call[c].names
<1> DEFINE ds == {[host |-> h, dot |-> FALSE] : h \in call[c].names}
<1>1. Aliases(c) = NewAliases(TargetOf[c], OwnerOf[c], ds, call[c].ipv6)
  BY DEF Aliases
<1>2. \A e \in NormalizeDomains(ds) : e.host \in call[c].names
  <2>1. \A d \in ds : normalizeDomain(d).host \in call[c].names
    BY DEF normalizeDomain
  <2> QED
    BY <2>1 DEF NormalizeDomains
<1>3. \A h \in call[c].names : \E e \in NormalizeDomains(ds) : e.host = h
  <2>1. ASSUME NEW h \in call[c].names
        PROVE  \E e \in NormalizeDomains(ds) : e.host = h
    <3> DEFINE d == [host |-> h, dot |-> FALSE]
    <3>1. d \in ds /\ normalizeDomain(d).host = h
      BY DEF normalizeDomain
    <3> HIDE DEF d
    <3> QED
      BY <3>1 DEF NormalizeDomains
  <2> QED
    BY <2>1
<1>4. call[c].ipv6 \in BOOLEAN
  BY DEF TypeOK, CallStates
<1> HIDE DEF ds
<1> QED
  BY <1>1, <1>2, <1>3, <1>4, AliasesFields DEF Names

LEMMA TypeInit == Init => TypeOK
<1> SUFFICES ASSUME Init PROVE TypeOK
  OBVIOUS
<1>1. InitialRecords \subseteq RecordSets
  <2>1. \A v \in ForeignValues : [NoRecords EXCEPT !.txt = <<v>>] \in RecordSets
    <3>1. \A v \in ForeignValues : <<v>> \in Seq(TXTValues)
      BY DEF TXTValues
    <3> QED
      BY <3>1, NoRecordsType DEF RecordSets
  <2>2. \A x \in Targets : [NoRecords EXCEPT !.addr["A"] = x] \in RecordSets
    BY NoRecordsType DEF RecordSets, RRTypes
  <2> QED
    BY <2>1, <2>2, NoRecordsType DEF InitialRecords
<1>2. zone \in Zones
  BY <1>1 DEF Init, Zones
<1>3. edits \in 0 .. MaxEdits
  BY ControllersAssumption DEF Init
<1> QED
  BY <1>2, <1>3, NoCallType DEF Init, TypeOK

(* What both List calls returned for an entry, put together. *)
LEMMA FilterType ==
  ASSUME NEW first \in RecordSets, NEW second \in RecordSets
  PROVE  /\ filterRecordSets(first, second) \in RecordSets
         /\ \/ filterRecordSets(first, second).txt = first.txt
            \/ filterRecordSets(first, second).txt = second.txt
  BY DEF filterRecordSets, RecordSets

(* A third party's edit of a TXT record. *)
ForeignEdit(v, txt) ==
    IF \E k \in DOMAIN txt : txt[k] = v THEN removeOwnershipRecord(v, txt) ELSE Append(txt, v)

LEMMA ForeignEditTXT ==
  ASSUME NEW v \in ForeignValues, NEW txt \in Seq(TXTValues)
  PROVE  LET new == ForeignEdit(v, txt) IN
         /\ new \in Seq(TXTValues)
         /\ \A k \in DOMAIN new : new[k] = v \/ \E j \in DOMAIN txt : new[k] = txt[j]
         /\ \A j \in DOMAIN txt : txt[j] # v => \E k \in DOMAIN new : new[k] = txt[j]
<1>0. v \in TXTValues
  BY DEF TXTValues
<1>1. CASE \E k \in DOMAIN txt : txt[k] = v
  BY <1>0, <1>1, RemoveTXT DEF ForeignEdit
<1>2. CASE ~ \E k \in DOMAIN txt : txt[k] = v
  <2>1. ForeignEdit(v, txt) = Append(txt, v)
    BY <1>2 DEF ForeignEdit
  <2>2. \A j \in DOMAIN txt : j \in DOMAIN Append(txt, v) /\ Append(txt, v)[j] = txt[j]
    BY <1>0
  <2>3. \A k \in DOMAIN Append(txt, v) :
           Append(txt, v)[k] = v \/ \E j \in DOMAIN txt : Append(txt, v)[k] = txt[j]
    BY <1>0
  <2> QED
    BY <1>0, <2>1, <2>2, <2>3
<1> QED
  BY <1>1, <1>2

LEMMA TypeStep == TypeOK /\ [Next]_vars => TypeOK'
<1> SUFFICES ASSUME TypeOK, [Next]_vars PROVE TypeOK'
  OBVIOUS
<1>0. ASSUME NEW c \in Controllers, NEW s \in CallStates, call' = [call EXCEPT ![c] = s]
      PROVE  call' \in [Controllers -> CallStates]
  BY <1>0 DEF TypeOK
<1>1. ASSUME NEW c \in Controllers, Begin(c) PROVE TypeOK'
  <2>1. PICK op \in Operations, ns \in (SUBSET Hosts) \ {{}}, ipv6 \in BOOLEAN :
          call' = [call EXCEPT ![c] = [NoCall EXCEPT !.phase = "list", !.op = op, !.ipv6 = ipv6,
                                                     !.names = ns, !.todo = ns]]
    <3>1. \A op : IPv6Enabled(c, op) \subseteq BOOLEAN
      BY ControllersAssumption DEF IPv6Enabled
    <3> QED
      BY <1>1, <3>1 DEF Begin
  <2>2. [NoCall EXCEPT !.phase = "list", !.op = op, !.ipv6 = ipv6, !.names = ns, !.todo = ns]
          \in CallStates
    BY NoCallType DEF CallStates
  <2> QED
    BY <1>0, <1>1, <2>1, <2>2 DEF Begin, TypeOK
<1>2. ASSUME NEW c \in Controllers, ListAddress(c) PROVE TypeOK'
  <2>1. PICK h \in call[c].todo :
          call' = [call EXCEPT ![c] = [call[c] EXCEPT !.phase = "listTXT", !.entry = h,
                                          !.todo = call[c].todo \ {h}, !.first = zone[h]]]
    BY <1>2 DEF ListAddress
  <2>2. h \in Hosts /\ zone[h] \in RecordSets
    BY DEF TypeOK, CallStates, Zones
  <2>3. [call[c] EXCEPT !.phase = "listTXT", !.entry = h,
                        !.todo = call[c].todo \ {h}, !.first = zone[h]] \in CallStates
    BY <2>2 DEF TypeOK, CallStates
  <2> QED
    BY <1>0, <1>2, <2>1, <2>3 DEF ListAddress, TypeOK
<1>3. ASSUME NEW c \in Controllers, ListTXT(c) PROVE TypeOK'
  <2> DEFINE h == call[c].entry
             rs == filterRecordSets(call[c].first, zone[h])
             phase == IF call[c].todo = {} THEN "change" ELSE "list"
             seen == [call[c].seen EXCEPT ![h] = rs]
  <2>1. \/ call' = [call EXCEPT ![c] = NoCall]
        \/ call' = [call EXCEPT ![c] = [call[c] EXCEPT !.phase = phase, !.entry = None,
                                                     !.first = NoRecords, !.seen = seen]]
    BY <1>3 DEF ListTXT
  <2>2. /\ call[c] \in CallStates
        /\ call[c].seen \in [Hosts -> RecordSets]
        /\ call[c].first \in RecordSets
    BY DEF TypeOK, CallStates
  <2>3. h \in Hosts => rs \in RecordSets
    BY <2>2, FilterType DEF TypeOK, Zones
  <2>4. seen \in [Hosts -> RecordSets]
    <3> HIDE DEF rs, h
    <3> QED
      BY <2>2, <2>3
  <2>5. phase \in {"change", "list"}
    OBVIOUS
  <2>6. [call[c] EXCEPT !.phase = phase, !.entry = None, !.first = NoRecords, !.seen = seen]
          \in CallStates
    <3> HIDE DEF phase, seen
    <3> QED
      BY <2>2, <2>4, <2>5, NoRecordsType DEF CallStates
  <2> QED
    BY <1>0, <1>3, <2>1, <2>6, NoCallType DEF ListTXT, TypeOK
<1>4. ASSUME NEW c \in Controllers, ChangeUpsert(c) PROVE TypeOK'
  <2>1. call[c].seen \in Zones /\ zone \in Zones
    BY DEF TypeOK, CallStates, Zones
  <2>2. UpsertChanges(Aliases(c), call[c].seen, zone) \in Zones
    BY <2>1, UpsertType, CallAliases, ControllersAssumption
  <2> QED
    BY <1>0, <1>4, <2>2, NoCallType DEF ChangeUpsert, TypeOK
<1>5. ASSUME NEW c \in Controllers, ChangeDelete(c) PROVE TypeOK'
  <2>1. call[c].seen \in Zones /\ zone \in Zones
    BY DEF TypeOK, CallStates, Zones
  <2>2. DeleteChanges(Aliases(c), call[c].seen, zone) \in Zones
    BY <2>1, DeleteType, CallAliases, ControllersAssumption
  <2> QED
    BY <1>0, <1>5, <2>2, NoCallType DEF ChangeDelete, TypeOK
<1>6. ASSUME NEW c \in Controllers, Abort(c) PROVE TypeOK'
  BY <1>0, <1>6, NoCallType DEF Abort, TypeOK
<1>7. ASSUME NEW h \in Hosts, ForeignTXT(h) PROVE TypeOK'
  <2>1. PICK v \in ForeignValues :
          zone' = [zone EXCEPT ![h] = [zone[h] EXCEPT !.txt = ForeignEdit(v, zone[h].txt)]]
    BY <1>7 DEF ForeignTXT, ForeignEdit
  <2>2. zone[h] \in RecordSets /\ zone[h].txt \in Seq(TXTValues)
    BY DEF TypeOK, Zones, RecordSets
  <2>3. ForeignEdit(v, zone[h].txt) \in Seq(TXTValues)
    BY <2>2, ForeignEditTXT
  <2>4. zone' \in Zones
    BY <2>1, <2>2, <2>3 DEF TypeOK, Zones, RecordSets
  <2>5. edits' \in 0 .. MaxEdits
    BY <1>7, ControllersAssumption DEF ForeignTXT, TypeOK
  <2> QED
    BY <1>7, <2>4, <2>5 DEF ForeignTXT, TypeOK
<1>8. ASSUME NEW h \in Hosts, ForeignAddress(h) PROVE TypeOK'
  <2>0. PICK x \in Targets : zone' = [zone EXCEPT ![h].addr["A"] = x]
    BY <1>8 DEF ForeignAddress
  <2>1. zone' \in Zones
    <3>1. zone[h] \in RecordSets
      BY DEF TypeOK, Zones
    <3>2. [zone[h] EXCEPT !.addr["A"] = x] \in RecordSets
      BY <3>1 DEF RecordSets, RRTypes
    <3>3. zone' = [zone EXCEPT ![h] = [zone[h] EXCEPT !.addr["A"] = x]]
      BY <2>0
    <3> QED
      BY <3>2, <3>3 DEF TypeOK, Zones
  <2>2. edits' \in 0 .. MaxEdits
    BY <1>8, ControllersAssumption DEF ForeignAddress, TypeOK
  <2> QED
    BY <1>8, <2>1, <2>2 DEF ForeignAddress, TypeOK
<1>9. CASE UNCHANGED vars
  BY <1>9 DEF vars, TypeOK
<1> QED
  BY <1>1, <1>2, <1>3, <1>4, <1>5, <1>6, <1>7, <1>8, <1>9 DEF Next, Controller

(* Type correctness: no batch, however stale what it was computed from,    *)
(* leaves the zone ill-formed.                                             *)
THEOREM TypeCorrect == Spec => []TypeOK
  BY TypeInit, TypeStep, PTL DEF Spec

-----------------------------------------------------------------------------
(* What rewriting a TXT record does to ownership values                    *)

(* All ownership values of a TXT record are this one. *)
OnlyOwner(o, txt) == \A k \in DOMAIN txt : txt[k] \in OwnerValues => txt[k] = o

(* validateRecordSets lets a TXT record through only if no other class     *)
(* owns it.                                                                *)
LEMMA ValidatedOwner ==
  ASSUME NEW owner \in OwnerValues, NEW types, NEW rs \in RecordSets, SingleOwner(rs.txt),
         validateRecordSets(owner, types, rs)
  PROVE  OnlyOwner(owner, rs.txt)
<1> SUFFICES ASSUME NEW k \in DOMAIN rs.txt, rs.txt[k] \in OwnerValues, rs.txt[k] # owner
             PROVE  FALSE
  BY DEF OnlyOwner
<1>0. rs.txt \in Seq(TXTValues)
  BY DEF RecordSets
<1>1. containsOwnershipRecord(rs.txt)
  BY DEF containsOwnershipRecord
<1>2. validateOwnership(owner, rs.txt)
  BY <1>1 DEF validateRecordSets
<1>3. PICK j \in 1 .. k - 1 : rs.txt[j] = owner
  BY <1>2 DEF validateOwnership
<1>4. j \in DOMAIN rs.txt
  BY <1>0
<1> QED
  BY <1>3, <1>4 DEF SingleOwner

(* ensureTXTValue does not add an ownership value next to another one. *)
LEMMA EnsureSingle ==
  ASSUME NEW owner \in OwnerValues, NEW txt \in Seq(TXTValues),
         OnlyOwner(owner, txt), SingleOwner(txt)
  PROVE  /\ OnlyOwner(owner, ensureTXTValue(owner, txt))
         /\ SingleOwner(ensureTXTValue(owner, txt))
<1>1. CASE \E k \in DOMAIN txt : txt[k] = owner
  BY <1>1 DEF ensureTXTValue
<1>2. CASE ~ \E k \in DOMAIN txt : txt[k] = owner
  <2> DEFINE new == Append(txt, owner)
  <2>1. ensureTXTValue(owner, txt) = new
    BY <1>2 DEF ensureTXTValue
  <2>2. \A k \in DOMAIN txt : txt[k] \notin OwnerValues
    BY <1>2 DEF OnlyOwner
  <2>3. \A k \in DOMAIN new : k = Len(txt) + 1 \/ (k \in DOMAIN txt /\ new[k] = txt[k])
    BY DEF TXTValues
  <2>4. new[Len(txt) + 1] = owner
    BY DEF TXTValues
  <2> HIDE DEF new
  <2> QED
    BY <2>1, <2>2, <2>3, <2>4 DEF OnlyOwner, SingleOwner
<1> QED
  BY <1>1, <1>2

(* removeOwnershipRecord keeps the others apart. *)
LEMMA RemoveSingle ==
  ASSUME NEW v \in TXTValues, NEW txt \in Seq(TXTValues), SingleOwner(txt)
  PROVE  SingleOwner(removeOwnershipRecord(v, txt))
  BY RemovePositions DEF SingleOwner

(* What is left of a record that has no other owner. *)
LEMMA RemoveOwn ==
  ASSUME NEW owner \in OwnerValues, NEW txt \in Seq(TXTValues),
         OnlyOwner(owner, txt), SingleOwner(txt)
  PROVE  \A k \in DOMAIN removeOwnershipRecord(owner, txt) :
            removeOwnershipRecord(owner, txt)[k] \notin OwnerValues
<1> DEFINE new == removeOwnershipRecord(owner, txt)
<1>1. \A j, k \in DOMAIN txt : (txt[j] = owner /\ txt[k] = owner) => j = k
  BY DEF SingleOwner
<1>2. \A k \in DOMAIN new : new[k] # owner
  BY <1>1, RemoveOnce DEF TXTValues
<1>3. \A k \in DOMAIN new : \E j \in DOMAIN txt : new[k] = txt[j]
  BY RemoveTXT DEF TXTValues
<1> HIDE DEF new
<1>4. \A k \in DOMAIN new : new[k] \notin OwnerValues
  BY <1>2, <1>3 DEF OnlyOwner
<1> QED
  BY <1>4 DEF new

LEMMA ForeignSingle ==
  ASSUME NEW v \in ForeignValues, NEW txt \in Seq(TXTValues), SingleOwner(txt)
  PROVE  SingleOwner(ForeignEdit(v, txt))
<1>0. v \in TXTValues /\ v \notin OwnerValues
  BY ForeignNotOwner DEF TXTValues
<1>1. CASE \E k \in DOMAIN txt : txt[k] = v
  BY <1>0, <1>1, RemoveSingle DEF ForeignEdit
<1>2. CASE ~ \E k \in DOMAIN txt : txt[k] = v
  <2> DEFINE new == Append(txt, v)
  <2>1. ForeignEdit(v, txt) = new
    BY <1>2 DEF ForeignEdit
  <2>2. \A k \in DOMAIN new : new[k] = v \/ (k \in DOMAIN txt /\ new[k] = txt[k])
    BY <1>0
  <2> HIDE DEF new
  <2> QED
    BY <1>0, <2>1, <2>2 DEF SingleOwner
<1> QED
  BY <1>1, <1>2

-----------------------------------------------------------------------------
(* One ownership value per name                                            *)

SawOneOwner(c, s) ==
    /\ SingleOwner(s.first.txt)
    /\ \A h \in Hosts : OnlyOwner(OwnerOf[c], s.seen[h].txt) /\ SingleOwner(s.seen[h].txt)

(* What makes OneOwner inductive: a batch is computed from answers that    *)
(* may be stale, but a stale answer had one owner, and once validated that *)
(* owner was the caller's class.                                           *)
CallsSawOneOwner == \A c \in Controllers : SawOneOwner(c, call[c])

OwnerInv == TypeOK /\ OneOwner /\ CallsSawOneOwner

(* What a batch of c makes of a name. *)
LEMMA Upserted ==
  ASSUME OwnerInv, NEW c \in Controllers, NEW h \in Hosts
  PROVE  LET new == upsertEntry(Aliases(c), call[c].seen[h], zone[h]) IN
         /\ new.addr["A"] = TargetOf[c]
         /\ new.addr["AAAA"] = IF call[c].ipv6 THEN TargetOf[c] ELSE zone[h].addr["AAAA"]
         /\ OnlyOwner(OwnerOf[c], new.txt)
         /\ SingleOwner(new.txt)
         /\ HasOwner(new, c)
<1> DEFINE new == upsertEntry(Aliases(c), call[c].seen[h], zone[h])
           txt == ensureTXTValue(OwnerOf[c], call[c].seen[h].txt)
<1>0. TypeOK
  BY DEF OwnerInv
<1>1. call[c].seen[h].txt \in Seq(TXTValues) /\ zone[h] \in RecordSets /\ call[c].ipv6 \in BOOLEAN
  BY <1>0 DEF TypeOK, CallStates, RecordSets, Zones
<1>2. OwnerOf[c] \in OwnerValues /\ OwnerOf[c] \in TXTValues
  BY ControllersAssumption DEF TXTValues
<1>3. OnlyOwner(OwnerOf[c], txt) /\ SingleOwner(txt) /\ \E k \in DOMAIN txt : txt[k] = OwnerOf[c]
  BY <1>1, <1>2, EnsureTXT, EnsureSingle DEF OwnerInv, CallsSawOneOwner, SawOneOwner
<1>4. new.txt = txt
  BY <1>0, <1>1, CallAliases DEF upsertEntry, RecordSets
<1>5. \A t \in RRTypes : new.addr[t] = IF t \in Aliases(c).types THEN TargetOf[c]
                                       ELSE zone[h].addr[t]
  BY <1>0, <1>1, CallAliases DEF upsertEntry, RecordSets
<1>6. /\ new.addr["A"] = TargetOf[c]
      /\ new.addr["AAAA"] = IF call[c].ipv6 THEN TargetOf[c] ELSE zone[h].addr["AAAA"]
  <2> HIDE DEF new
  <2> QED
    BY <1>0, <1>1, <1>5, CallAliases DEF RRTypes
<1> HIDE DEF txt
<1> QED
  BY <1>3, <1>4, <1>6 DEF HasOwner

LEMMA Deleted ==
  ASSUME OwnerInv, NEW c \in Controllers, NEW h \in Hosts
  PROVE  LET new == deleteEntry(Aliases(c), call[c].seen[h], zone[h]) IN
         /\ new.addr["A"] = None
         /\ new.addr["AAAA"] = IF call[c].ipv6 THEN None ELSE zone[h].addr["AAAA"]
         /\ \A k \in DOMAIN new.txt : new.txt[k] \notin OwnerValues
<1> DEFINE new == deleteEntry(Aliases(c), call[c].seen[h], zone[h])
           txt == removeOwnershipRecord(OwnerOf[c], call[c].seen[h].txt)
<1>0. TypeOK
  BY DEF OwnerInv
<1>1. call[c].seen[h].txt \in Seq(TXTValues) /\ zone[h] \in RecordSets /\ call[c].ipv6 \in BOOLEAN
  BY <1>0 DEF TypeOK, CallStates, RecordSets, Zones
<1>2. OwnerOf[c] \in OwnerValues
  BY ControllersAssumption
<1>3. \A k \in DOMAIN txt : txt[k] \notin OwnerValues
  BY <1>1, <1>2, RemoveOwn DEF OwnerInv, CallsSawOneOwner, SawOneOwner
<1>4. new.txt = txt
  BY <1>0, <1>1, CallAliases DEF deleteEntry, RecordSets
<1>5. \A t \in RRTypes : new.addr[t] = IF t \in Aliases(c).types THEN None ELSE zone[h].addr[t]
  BY <1>0, <1>1, CallAliases DEF deleteEntry, RecordSets
<1>6. /\ new.addr["A"] = None
      /\ new.addr["AAAA"] = IF call[c].ipv6 THEN None ELSE zone[h].addr["AAAA"]
  <2> HIDE DEF new
  <2> QED
    BY <1>0, <1>1, <1>5, CallAliases DEF RRTypes
<1> HIDE DEF txt
<1> QED
  BY <1>3, <1>4, <1>6

-----------------------------------------------------------------------------
(* What a step can do to a name and to a call                              *)

Upserts(c, h) ==
    /\ call[c].phase = "change" /\ call[c].op = "Upsert" /\ h \in call[c].names
    /\ call'[c] = NoCall
    /\ zone'[h] = upsertEntry(Aliases(c), call[c].seen[h], zone[h])

Deletes(c, h) ==
    /\ call[c].phase = "change" /\ call[c].op = "Delete" /\ h \in call[c].names
    /\ call'[c] = NoCall
    /\ deleteAccepted(Aliases(c), call[c].seen[h], zone[h])
    /\ zone'[h] = deleteEntry(Aliases(c), call[c].seen[h], zone[h])

EditsTXT(h) ==
    /\ zone'[h].addr = zone[h].addr
    /\ SingleOwner(zone[h].txt) => SingleOwner(zone'[h].txt)
    /\ \A c \in Controllers : HasOwner(zone'[h], c) <=> HasOwner(zone[h], c)

EditsAddress(h) ==
    /\ zone[h].addr["A"] = None
    /\ \A c \in Controllers : zone'[h].addr["A"] # TargetOf[c]
    /\ zone'[h].addr["AAAA"] = zone[h].addr["AAAA"]
    /\ zone'[h].txt = zone[h].txt

LEMMA ZoneStep ==
  ASSUME TypeOK, [Next]_vars, NEW h \in Hosts
  PROVE  \/ zone'[h] = zone[h]
         \/ \E c \in Controllers : Upserts(c, h) \/ Deletes(c, h)
         \/ EditsTXT(h) \/ EditsAddress(h)
<1>1. ASSUME NEW c \in Controllers, ChangeUpsert(c)
      PROVE  zone'[h] = zone[h] \/ Upserts(c, h)
  <2>1. call'[c] = NoCall
    BY <1>1 DEF ChangeUpsert, TypeOK
  <2>2. CASE zone' = UpsertChanges(Aliases(c), call[c].seen, zone)
    <3>1. zone'[h] = IF h \in call[c].names THEN upsertEntry(Aliases(c), call[c].seen[h], zone[h])
                     ELSE zone[h]
      BY <2>2, CallAliases DEF UpsertChanges
    <3> QED
      BY <1>1, <2>1, <3>1 DEF ChangeUpsert, Upserts
  <2> QED
    BY <1>1, <2>2 DEF ChangeUpsert
<1>2. ASSUME NEW c \in Controllers, ChangeDelete(c)
      PROVE  zone'[h] = zone[h] \/ Deletes(c, h)
  <2>1. call'[c] = NoCall
    BY <1>2 DEF ChangeDelete, TypeOK
  <2>2. CASE /\ DeleteAccepted(Aliases(c), call[c].seen, zone)
             /\ zone' = DeleteChanges(Aliases(c), call[c].seen, zone)
    <3>1. zone'[h] = IF h \in call[c].names THEN deleteEntry(Aliases(c), call[c].seen[h], zone[h])
                     ELSE zone[h]
      BY <2>2, CallAliases DEF DeleteChanges
    <3>2. h \in call[c].names => deleteAccepted(Aliases(c), call[c].seen[h], zone[h])
      BY <2>2, CallAliases DEF DeleteAccepted
    <3> QED
      BY <1>2, <2>1, <3>1, <3>2 DEF ChangeDelete, Deletes
  <2> QED
    BY <1>2, <2>2 DEF ChangeDelete
<1>3. ASSUME NEW x \in Hosts, ForeignTXT(x) PROVE zone'[h] = zone[h] \/ EditsTXT(h)
  <2>1. PICK v \in ForeignValues :
          zone' = [zone EXCEPT ![x] = [zone[x] EXCEPT !.txt = ForeignEdit(v, zone[x].txt)]]
    BY <1>3 DEF ForeignTXT, ForeignEdit
  <2>2. zone[h].txt \in Seq(TXTValues)
    BY DEF TypeOK, Zones, RecordSets
  <2>3. CASE x = h
    <3> DEFINE new == ForeignEdit(v, zone[h].txt)
    <3>1. zone'[h].addr = zone[h].addr /\ zone'[h].txt = new
      BY <2>1, <2>3 DEF TypeOK, Zones, RecordSets
    <3>2. SingleOwner(zone[h].txt) => SingleOwner(new)
      BY <2>2, ForeignSingle
    <3>3. \A c \in Controllers : OwnerOf[c] # v
      BY ControllersAssumption, ForeignNotOwner
    <3>4. /\ \A k \in DOMAIN new : new[k] = v \/ \E j \in DOMAIN zone[h].txt : new[k] = zone[h].txt[j]
          /\ \A j \in DOMAIN zone[h].txt : zone[h].txt[j] # v => \E k \in DOMAIN new : new[k] = zone[h].txt[j]
      BY <2>2, ForeignEditTXT
    <3> HIDE DEF new
    <3>5. \A c \in Controllers : HasOwner(zone'[h], c) <=> HasOwner(zone[h], c)
      BY <3>1, <3>3, <3>4 DEF HasOwner
    <3> QED
      BY <3>1, <3>2, <3>5 DEF EditsTXT
  <2>4. CASE x # h
    BY <2>1, <2>4 DEF TypeOK, Zones
  <2> QED
    BY <2>3, <2>4
<1>4. ASSUME NEW x \in Hosts, ForeignAddress(x) PROVE zone'[h] = zone[h] \/ EditsAddress(h)
  <2>1. PICK y \in Targets \ {TargetOf[c] : c \in Controllers} :
          zone' = [zone EXCEPT ![x] = [zone[x] EXCEPT !.addr["A"] = y]]
    BY <1>4 DEF ForeignAddress
  <2>2. CASE x = h
    <3>1. /\ zone'[h].txt = zone[h].txt /\ zone'[h].addr["A"] = y
          /\ zone'[h].addr["AAAA"] = zone[h].addr["AAAA"]
      BY <2>1, <2>2 DEF TypeOK, Zones, RecordSets, RRTypes
    <3> QED
      BY <1>4, <2>2, <3>1 DEF EditsAddress, ForeignAddress
  <2>3. CASE x # h
    BY <2>1, <2>3 DEF TypeOK, Zones
  <2> QED
    BY <2>2, <2>3
<1>5. CASE UNCHANGED zone
  BY <1>5
<1> QED
  BY <1>1, <1>2, <1>3, <1>4, <1>5
     DEF Next, Controller, Begin, ListAddress, ListTXT, Abort, vars

(* Nothing is known from an earlier answer. *)
Forgotten(s) == s.phase # "listTXT" /\ s.first = NoRecords /\ s.seen = NothingSeen

Lists(d) ==
    \E h \in Hosts : /\ call'[d].phase = "listTXT" /\ call'[d].entry = h
                     /\ call'[d].first = zone[h] /\ call'[d].seen = call[d].seen
                     /\ zone' = zone

Validates(d) ==
    LET h == call[d].entry
        rs == filterRecordSets(call[d].first, zone[h])
    IN  /\ call[d].phase = "listTXT" /\ call'[d].phase # "listTXT"
        /\ existingRecordSetsOK(d, rs)
        /\ call'[d].first = NoRecords
        /\ call'[d].seen = [call[d].seen EXCEPT ![h] = rs]

LEMMA CallStep ==
  ASSUME TypeOK, [Next]_vars, NEW d \in Controllers
  PROVE  call'[d] = call[d] \/ Forgotten(call'[d]) \/ Lists(d) \/ Validates(d)
<1>0. Forgotten(NoCall)
  BY DEF Forgotten, NoCall
<1>1. ASSUME NEW c \in Controllers, NEW s, call' = [call EXCEPT ![c] = s]
      PROVE  call'[d] = IF c = d THEN s ELSE call[d]
  BY <1>1 DEF TypeOK
<1>2. ASSUME NEW c \in Controllers, Begin(c) PROVE call'[d] = call[d] \/ Forgotten(call'[d])
  <2>1. PICK op, ns, ipv6 :
          call' = [call EXCEPT ![c] = [NoCall EXCEPT !.phase = "list", !.op = op, !.ipv6 = ipv6,
                                                     !.names = ns, !.todo = ns]]
    BY <1>2 DEF Begin
  <2> DEFINE s == [NoCall EXCEPT !.phase = "list", !.op = op, !.ipv6 = ipv6,
                                 !.names = ns, !.todo = ns]
  <2>2. Forgotten(s)
    BY DEF Forgotten, NoCall
  <2> HIDE DEF s
  <2> QED
    BY <1>1, <2>1, <2>2 DEF s
<1>3. ASSUME NEW c \in Controllers, ListAddress(c) PROVE call'[d] = call[d] \/ Lists(d)
  <2>1. PICK h \in call[c].todo :
          call' = [call EXCEPT ![c] = [call[c] EXCEPT !.phase = "listTXT", !.entry = h,
                                          !.todo = call[c].todo \ {h}, !.first = zone[h]]]
    BY <1>3 DEF ListAddress
  <2> DEFINE s == [call[c] EXCEPT !.phase = "listTXT", !.entry = h,
                                  !.todo = call[c].todo \ {h}, !.first = zone[h]]
  <2>2. h \in Hosts /\ s.phase = "listTXT" /\ s.entry = h /\ s.first = zone[h] /\ s.seen = call[c].seen
    BY DEF TypeOK, CallStates
  <2> HIDE DEF s
  <2>3. call' = [call EXCEPT ![c] = s]
    BY <2>1 DEF s
  <2>4. call'[d] = IF c = d THEN s ELSE call[d]
    BY <1>1, <2>3
  <2> QED
    BY <1>3, <2>2, <2>4 DEF Lists, ListAddress
<1>4. ASSUME NEW c \in Controllers, ListTXT(c)
      PROVE  call'[d] = call[d] \/ Forgotten(call'[d]) \/ Validates(d)
  <2> DEFINE h == call[c].entry
             rs == filterRecordSets(call[c].first, zone[h])
             phase == IF call[c].todo = {} THEN "change" ELSE "list"
             seen == [call[c].seen EXCEPT ![h] = rs]
             s == [call[c] EXCEPT !.phase = phase, !.entry = None, !.first = NoRecords, !.seen = seen]
  <2>1. call' = [call EXCEPT ![c] = IF existingRecordSetsOK(c, rs) THEN s ELSE NoCall]
    BY <1>4 DEF ListTXT
  <2>2. s.phase = phase /\ s.first = NoRecords /\ s.seen = seen
    BY DEF TypeOK, CallStates
  <2>3. phase # "listTXT"
    OBVIOUS
  <2> HIDE DEF s, seen, phase
  <2>4. call'[d] = IF c = d THEN (IF existingRecordSetsOK(c, rs) THEN s ELSE NoCall) ELSE call[d]
    BY <1>1, <2>1
  <2> QED
    BY <1>0, <1>4, <2>2, <2>3, <2>4 DEF Validates, ListTXT, seen
<1>5. ASSUME NEW c \in Controllers, call' = [call EXCEPT ![c] = NoCall]
      PROVE  call'[d] = call[d] \/ Forgotten(call'[d])
  BY <1>0, <1>1, <1>5
<1>6. CASE UNCHANGED call
  BY <1>6
<1> QED
  BY <1>2, <1>3, <1>4, <1>5, <1>6
     DEF Next, Controller, ChangeUpsert, ChangeDelete, Abort, ForeignTXT, ForeignAddress, vars

LEMMA OwnerInit == Init => OneOwner /\ CallsSawOneOwner
<1> SUFFICES ASSUME Init PROVE OneOwner /\ CallsSawOneOwner
  OBVIOUS
<1>1. \A rs \in InitialRecords : SingleOwner(rs.txt)
  <2>1. SingleOwner(NoRecords.txt)
    BY DEF NoRecords, SingleOwner
  <2>2. \A v \in ForeignValues : SingleOwner([NoRecords EXCEPT !.txt = <<v>>].txt)
    BY DEF NoRecords, SingleOwner
  <2>3. \A x : [NoRecords EXCEPT !.addr["A"] = x].txt = NoRecords.txt
    BY DEF NoRecords
  <2> QED
    BY <2>1, <2>2, <2>3 DEF InitialRecords
<1>2. OneOwner
  BY <1>1 DEF Init, OneOwner
<1>3. \A c : SawOneOwner(c, NoCall)
  BY DEF NoCall, NothingSeen, NoRecords, SingleOwner, OnlyOwner, SawOneOwner
<1>4. CallsSawOneOwner
  BY <1>3 DEF Init, CallsSawOneOwner
<1> QED
  BY <1>2, <1>4

(* What a call has read and validated has no owner but the caller. *)
LEMMA ValidatedRead ==
  ASSUME OwnerInv, NEW c \in Controllers, Validates(c), call[c].entry \in Hosts
  PROVE  LET rs == filterRecordSets(call[c].first, zone[call[c].entry])
         IN  OnlyOwner(OwnerOf[c], rs.txt) /\ SingleOwner(rs.txt)
<1> DEFINE h == call[c].entry
           rs == filterRecordSets(call[c].first, zone[h])
<1>1. call[c].first \in RecordSets /\ zone[h] \in RecordSets
  BY DEF OwnerInv, TypeOK, CallStates, Zones
<1>2. SingleOwner(call[c].first.txt) /\ SingleOwner(zone[h].txt)
  BY DEF OwnerInv, OneOwner, CallsSawOneOwner, SawOneOwner
<1>3. rs \in RecordSets /\ SingleOwner(rs.txt)
  BY <1>1, <1>2, FilterType
<1>4. validateRecordSets(OwnerOf[c], Aliases(c).types, rs)
  BY DEF Validates, existingRecordSetsOK
<1> HIDE DEF rs
<1>5. OnlyOwner(OwnerOf[c], rs.txt) /\ SingleOwner(rs.txt)
  BY <1>3, <1>4, ValidatedOwner, ControllersAssumption
<1> QED
  BY <1>5 DEF rs

(* One step keeps both, whichever controller or third party takes it. *)
LEMMA OwnerStep == OwnerInv /\ [Next]_vars => OwnerInv'
<1> SUFFICES ASSUME OwnerInv, [Next]_vars PROVE OwnerInv'
  OBVIOUS
<1>0. TypeOK /\ TypeOK'
  BY TypeStep DEF OwnerInv
<1>1. ASSUME NEW h \in Hosts PROVE SingleOwner(zone'[h].txt)
  <2>0. SingleOwner(zone[h].txt)
    BY DEF OwnerInv, OneOwner
  <2>1. ASSUME NEW c \in Controllers, Upserts(c, h) PROVE SingleOwner(zone'[h].txt)
    BY <2>1, Upserted DEF Upserts
  <2>2. ASSUME NEW c \in Controllers, Deletes(c, h) PROVE SingleOwner(zone'[h].txt)
    <3>1. \A k \in DOMAIN zone'[h].txt : zone'[h].txt[k] \notin OwnerValues
      BY <2>2, Deleted DEF Deletes
    <3> QED
      BY <3>1 DEF SingleOwner
  <2> QED
    BY <1>0, <2>0, <2>1, <2>2, ZoneStep DEF EditsTXT, EditsAddress
<1>2. ASSUME NEW c \in Controllers PROVE SawOneOwner(c, call'[c])
  <2>0. SawOneOwner(c, call[c])
    BY DEF OwnerInv, CallsSawOneOwner
  <2>1. CASE Forgotten(call'[c])
    BY <2>1 DEF Forgotten, NothingSeen, NoRecords, SingleOwner, OnlyOwner, SawOneOwner
  <2>2. CASE Lists(c)
    BY <2>0, <2>2 DEF Lists, SawOneOwner, OwnerInv, OneOwner
  <2>3. CASE Validates(c)
    <3> DEFINE h == call[c].entry
               rs == filterRecordSets(call[c].first, zone[h])
    <3>1. call[c].seen \in [Hosts -> RecordSets] /\ call[c].first \in RecordSets
      BY <1>0 DEF TypeOK, CallStates
    <3>2. h \in Hosts => OnlyOwner(OwnerOf[c], rs.txt) /\ SingleOwner(rs.txt)
      BY <2>3, ValidatedRead
    <3>3. call'[c].first = NoRecords /\ call'[c].seen = [call[c].seen EXCEPT ![h] = rs]
      BY <2>3 DEF Validates
    <3> HIDE DEF rs, h
    <3>4. \A x \in Hosts : /\ OnlyOwner(OwnerOf[c], call'[c].seen[x].txt)
                           /\ SingleOwner(call'[c].seen[x].txt)
      BY <2>0, <3>1, <3>2, <3>3 DEF SawOneOwner
    <3>5. SingleOwner(NoRecords.txt)
      BY DEF NoRecords, SingleOwner
    <3> QED
      BY <3>3, <3>4, <3>5 DEF SawOneOwner
  <2> QED
    BY <1>0, <2>0, <2>1, <2>2, <2>3, CallStep
<1> QED
  BY <1>0, <1>1, <1>2 DEF OwnerInv, OneOwner, CallsSawOneOwner, SawOneOwner

(* However the List calls and batches of any number of controllers and the *)
(* edits of third parties interleave, no name gets two ownership values.   *)
THEOREM OneOwnerAlways == Spec => []OneOwner
<1>1. Init => OwnerInv
  BY TypeInit, OwnerInit DEF OwnerInv
<1>2. OwnerInv /\ [Next]_vars => OwnerInv'
  BY OwnerStep
<1>3. OwnerInv => OneOwner
  BY DEF OwnerInv
<1> QED
  BY <1>1, <1>2, <1>3, PTL DEF Spec

-----------------------------------------------------------------------------
(* A records and ownership values change together                          *)

Paired(rs) == \A c \in Controllers : rs.addr["A"] = TargetOf[c] <=> HasOwner(rs, c)

(* What a List call returned was true of the zone at some time. *)
FirstIsPaired == \A d \in Controllers : Paired(call[d].first)

(* Only d writes d's ownership value, and it has one call at a time: what  *)
(* the second List call finds of it, the first has found already.          *)
OwnValueIsSeen ==
    \A d \in Controllers, h \in Hosts :
        (call[d].phase = "listTXT" /\ call[d].entry = h /\ HasOwner(zone[h], d)) =>
            HasOwner(call[d].first, d)

(* What has been validated is no other controller's. *)
SeenIsOwn ==
    \A d, c \in Controllers, h \in Hosts :
        call[d].seen[h].addr["A"] = TargetOf[c] => c = d

AddressInv == OwnerInv /\ AddressHasOwner /\ FirstIsPaired /\ OwnValueIsSeen /\ SeenIsOwn

LEMMA NoRecordsPaired == Paired(NoRecords)
<1>1. \A c \in Controllers : NoRecords.addr["A"] # TargetOf[c]
  BY NoneNotTarget, ControllersAssumption DEF NoRecords, RRTypes
<1>2. \A c \in Controllers : ~HasOwner(NoRecords, c)
  BY DEF NoRecords, HasOwner
<1> QED
  BY <1>1, <1>2 DEF Paired

LEMMA ForgottenOK ==
  ASSUME NEW s, Forgotten(s)
  PROVE  /\ s.phase # "listTXT"
         /\ Paired(s.first)
         /\ \A c \in Controllers, h \in Hosts : s.seen[h].addr["A"] # TargetOf[c]
<1>1. \A c \in Controllers : NoRecords.addr["A"] # TargetOf[c]
  BY NoneNotTarget, ControllersAssumption DEF NoRecords, RRTypes
<1> QED
  BY <1>1, NoRecordsPaired DEF Forgotten, NothingSeen

LEMMA AddressInit == Init => AddressInv
<1> SUFFICES ASSUME Init PROVE AddressInv
  OBVIOUS
<1>0. OwnerInv
  BY TypeInit, OwnerInit DEF OwnerInv
<1>1. \A rs \in InitialRecords : Paired(rs)
  <2>1. ASSUME NEW v \in ForeignValues PROVE Paired([NoRecords EXCEPT !.txt = <<v>>])
    <3> DEFINE rs == [NoRecords EXCEPT !.txt = <<v>>]
    <3>1. rs.addr = NoRecords.addr /\ rs.txt = <<v>>
      BY DEF NoRecords
    <3>2. \A c \in Controllers : OwnerOf[c] # v
      BY ControllersAssumption, ForeignNotOwner
    <3> HIDE DEF rs
    <3>3. \A c \in Controllers : ~HasOwner(rs, c) /\ ~HasOwner(NoRecords, c)
      BY <3>1, <3>2 DEF HasOwner, NoRecords
    <3>4. Paired(rs)
      BY <3>1, <3>3, NoRecordsPaired DEF Paired
    <3> QED
      BY <3>4 DEF rs
  <2>2. ASSUME NEW x \in Targets \ {TargetOf[c] : c \in Controllers}
        PROVE  Paired([NoRecords EXCEPT !.addr["A"] = x])
    <3> DEFINE rs == [NoRecords EXCEPT !.addr["A"] = x]
    <3>1. rs.addr["A"] = x /\ rs.txt = <<>>
      BY DEF NoRecords, RRTypes
    <3> HIDE DEF rs
    <3>2. \A c \in Controllers : ~HasOwner(rs, c) /\ rs.addr["A"] # TargetOf[c]
      BY <3>1 DEF HasOwner
    <3>3. Paired(rs)
      BY <3>2 DEF Paired
    <3> QED
      BY <3>3 DEF rs
  <2> QED
    BY <2>1, <2>2, NoRecordsPaired DEF InitialRecords
<1>2. AddressHasOwner
  BY <1>1 DEF Init, AddressHasOwner, Paired
<1>3. \A d \in Controllers : Forgotten(call[d])
  BY DEF Init, NoCall, Forgotten
<1> QED
  BY <1>0, <1>2, <1>3, ForgottenOK DEF AddressInv, FirstIsPaired, OwnValueIsSeen, SeenIsOwn

(* A name that a controller deletes by A entries only, and whose A record  *)
(* points to a controller, is its own.                                     *)
LEMMA DeletesOwn ==
  ASSUME AddressInv, NEW c \in Controllers, NEW d \in Controllers, NEW h \in Hosts,
         Deletes(d, h), ~call[d].ipv6, zone[h].addr["A"] = TargetOf[c]
  PROVE  c = d
<1>0. TypeOK
  BY DEF AddressInv, OwnerInv
<1>1. Aliases(d).types = {"A"} /\ Aliases(d).target = TargetOf[d]
  BY <1>0, CallAliases
<1>2. zone[h].addr["A"] = deletionTarget(Aliases(d), call[d].seen[h])
  BY <1>1 DEF Deletes, deleteAccepted
<1>3. \/ zone[h].addr["A"] = call[d].seen[h].addr["A"]
      \/ zone[h].addr["A"] = TargetOf[d]
  BY <1>1, <1>2 DEF deletionTarget
<1>4. CASE zone[h].addr["A"] = call[d].seen[h].addr["A"]
  BY <1>4 DEF AddressInv, SeenIsOwn
<1>5. CASE zone[h].addr["A"] = TargetOf[d]
  BY <1>5, ControllersAssumption
<1> QED
  BY <1>3, <1>4, <1>5

(* An entry that validates and has an A record of a controller is the      *)
(* caller's: its ownership value was there, and had been before.           *)
LEMMA ValidatesOwn ==
  ASSUME AddressInv, NEW c \in Controllers, NEW d \in Controllers, Validates(d),
         call[d].entry \in Hosts, call[d].first.addr["A"] = TargetOf[c]
  PROVE  c = d
<1> DEFINE h == call[d].entry
           rs == filterRecordSets(call[d].first, zone[h])
<1>0. OwnerInv /\ TypeOK
  BY DEF AddressInv, OwnerInv
<1>1. /\ call[d].first \in RecordSets /\ zone[h] \in RecordSets
      /\ OwnerOf[d] \in OwnerValues /\ TargetOf[c] \in Targets
  BY <1>0, ControllersAssumption DEF TypeOK, CallStates, Zones
<1>2. rs.addr = call[d].first.addr /\ (rs.txt = call[d].first.txt \/ rs.txt = zone[h].txt)
  BY <1>1 DEF filterRecordSets, RecordSets
<1>3. OnlyOwner(OwnerOf[d], rs.txt)
  BY <1>0, ValidatedRead
<1>4. validateRecordSets(OwnerOf[d], Aliases(d).types, rs) /\ "A" \in Aliases(d).types
  BY <1>0, CallAliases DEF Validates, existingRecordSetsOK
<1> HIDE DEF rs
<1>5. containsOwnershipRecord(rs.txt)
  BY <1>1, <1>2, <1>4, NoneNotTarget DEF validateRecordSets
<1>6. \E k \in DOMAIN rs.txt : rs.txt[k] = OwnerOf[d]
  BY <1>3, <1>5 DEF containsOwnershipRecord, OnlyOwner
<1>7. HasOwner(call[d].first, d) \/ HasOwner(zone[h], d)
  BY <1>2, <1>6 DEF HasOwner
<1>8. HasOwner(call[d].first, d)
  BY <1>7 DEF AddressInv, OwnValueIsSeen, Validates
<1>9. call[d].first.addr["A"] = TargetOf[d]
  BY <1>8 DEF AddressInv, FirstIsPaired, Paired
<1> QED
  BY <1>9, ControllersAssumption

LEMMA AddressStep == AddressInv /\ [Next]_vars => AddressInv'
<1> SUFFICES ASSUME AddressInv, [Next]_vars PROVE AddressInv'
  OBVIOUS
<1>0. OwnerInv /\ TypeOK /\ OwnerInv'
  BY OwnerStep DEF AddressInv, OwnerInv
<1>a. \A c, d \in Controllers : c # d => OwnerOf[c] # OwnerOf[d] /\ TargetOf[c] # TargetOf[d]
  BY ControllersAssumption
<1>b. \A c \in Controllers : OwnerOf[c] \in OwnerValues /\ TargetOf[c] # None
  BY ControllersAssumption, NoneNotTarget
<1>u. ASSUME NEW c \in Controllers, NEW h \in Hosts, Upserts(c, h)
      PROVE  /\ zone'[h].addr["A"] = TargetOf[c] /\ HasOwner(zone'[h], c)
             /\ \A d \in Controllers : d # c => ~HasOwner(zone'[h], d)
  BY <1>0, <1>a, <1>b, <1>u, Upserted DEF Upserts, OnlyOwner, HasOwner
<1>d. ASSUME NEW c \in Controllers, NEW h \in Hosts, Deletes(c, h)
      PROVE  /\ zone'[h].addr["A"] = None
             /\ \A d \in Controllers : ~HasOwner(zone'[h], d)
  BY <1>0, <1>b, <1>d, Deleted DEF Deletes, HasOwner
<1>1. ASSUME NEW h \in Hosts PROVE Paired(zone'[h])
  <2>0. Paired(zone[h])
    BY DEF AddressInv, AddressHasOwner, Paired
  <2>1. ASSUME NEW c \in Controllers, Upserts(c, h) PROVE Paired(zone'[h])
    BY <1>a, <1>u, <2>1 DEF Paired
  <2>2. ASSUME NEW c \in Controllers, Deletes(c, h) PROVE Paired(zone'[h])
    BY <1>b, <1>d, <2>2 DEF Paired
  <2>3. CASE EditsTXT(h)
    BY <2>0, <2>3 DEF Paired, EditsTXT
  <2>4. CASE EditsAddress(h)
    BY <1>b, <2>0, <2>4 DEF Paired, EditsAddress, HasOwner
  <2> QED
    BY <1>0, <2>0, <2>1, <2>2, <2>3, <2>4, ZoneStep
<1>2. ASSUME NEW d \in Controllers PROVE Paired(call'[d].first)
  <2>1. Paired(call[d].first) /\ \A h \in Hosts : Paired(zone[h])
    BY DEF AddressInv, FirstIsPaired, AddressHasOwner, Paired
  <2> QED
    BY <1>0, <2>1, CallStep, ForgottenOK, NoRecordsPaired DEF Lists, Validates
<1>3. ASSUME NEW d \in Controllers, NEW h \in Hosts, call'[d].phase = "listTXT",
             call'[d].entry = h, HasOwner(zone'[h], d)
      PROVE  HasOwner(call'[d].first, d)
  <2>1. CASE call'[d] = call[d]
    <3>1. ASSUME NEW c \in Controllers, Upserts(c, h) PROVE FALSE
      <4>1. c = d
        BY <1>3, <1>u, <3>1
      <4> QED
        BY <1>3, <3>1, <4>1 DEF Upserts, NoCall
    <3>2. ASSUME NEW c \in Controllers, Deletes(c, h) PROVE FALSE
      BY <1>3, <1>d, <3>2
    <3>3. HasOwner(zone[h], d)
      BY <1>0, <1>3, <3>1, <3>2, ZoneStep DEF EditsTXT, EditsAddress, HasOwner
    <3> QED
      BY <1>3, <2>1, <3>3 DEF AddressInv, OwnValueIsSeen
  <2>2. CASE Lists(d)
    BY <1>3, <2>2 DEF Lists
  <2> QED
    BY <1>0, <1>3, <2>1, <2>2, CallStep DEF Forgotten, Validates
<1>4. ASSUME NEW d \in Controllers, NEW c \in Controllers, NEW h \in Hosts,
             call'[d].seen[h].addr["A"] = TargetOf[c]
      PROVE  c = d
  <2>0. call[d].seen[h].addr["A"] = TargetOf[c] => c = d
    BY DEF AddressInv, SeenIsOwn
  <2>1. CASE Forgotten(call'[d])
    BY <1>4, <2>1, ForgottenOK
  <2>2. CASE Validates(d)
    <3> DEFINE rs == filterRecordSets(call[d].first, zone[call[d].entry])
    <3>1. call[d].seen \in [Hosts -> RecordSets] /\ call[d].first \in RecordSets
      BY <1>0 DEF TypeOK, CallStates
    <3>2. rs.addr = call[d].first.addr
      BY <3>1 DEF filterRecordSets, RecordSets
    <3>3. call'[d].seen = [call[d].seen EXCEPT ![call[d].entry] = rs]
      BY <2>2 DEF Validates
    <3> HIDE DEF rs
    <3>4. CASE h = call[d].entry
      <4>1. call[d].first.addr["A"] = TargetOf[c]
        BY <1>4, <3>1, <3>2, <3>3, <3>4
      <4> QED
        BY <2>2, <3>4, <4>1, ValidatesOwn
    <3>5. CASE h # call[d].entry
      BY <1>4, <2>0, <3>1, <3>3, <3>5
    <3> QED
      BY <3>4, <3>5
  <2> QED
    BY <1>0, <1>4, <2>0, <2>1, <2>2, CallStep DEF Lists
<1>5. AddressHasOwner'
  BY <1>1 DEF AddressHasOwner, Paired, HasOwner
<1>6. FirstIsPaired' /\ OwnValueIsSeen' /\ SeenIsOwn'
  BY <1>2, <1>3, <1>4 DEF FirstIsPaired, OwnValueIsSeen, SeenIsOwn, Paired, HasOwner
<1> QED
  BY <1>0, <1>5, <1>6 DEF AddressInv

(* However calls and edits interleave, and whatever their settings of IPv6, *)
(* the A record of a name points to a controller's distribution exactly     *)
(* when that controller's ownership value is there.                         *)
THEOREM AddressHasOwnerAlways == Spec => []AddressHasOwner
<1>1. AddressInv => AddressHasOwner
  BY DEF AddressInv
<1> QED
  BY <1>1, AddressInit, AddressStep, PTL DEF Spec

-----------------------------------------------------------------------------
(* How an AAAA record loses its owner                                      *)

LosesOwner(h, c) == ~UnownedIPv6(h, c) /\ UnownedIPv6(h, c)'

Takes(d, c, h) ==
    /\ call[d].phase = "change" /\ h \in call[d].names /\ ~call[d].ipv6
    /\ IF d = c THEN call[d].op = "Delete" ELSE call[d].op = "Upsert"

LEMMA IPv6Step ==
  ASSUME AddressInv, [Next]_vars, NEW h \in Hosts, NEW c \in Controllers, LosesOwner(h, c)
  PROVE  \E d \in Controllers : Takes(d, c, h)
<1>0. OwnerInv /\ TypeOK
  BY DEF AddressInv, OwnerInv
<1>1. /\ zone'[h].addr["AAAA"] = TargetOf[c] /\ ~HasOwner(zone'[h], c)
      /\ zone[h].addr["AAAA"] = TargetOf[c] => HasOwner(zone[h], c)
  BY DEF LosesOwner, UnownedIPv6, HasOwner
<1>2. \A d \in Controllers : call[d].ipv6 \in BOOLEAN
  BY <1>0 DEF TypeOK, CallStates
<1>3. ASSUME NEW d \in Controllers, Upserts(d, h) PROVE Takes(d, c, h)
  <2>1. /\ zone'[h].addr["AAAA"] = IF call[d].ipv6 THEN TargetOf[d] ELSE zone[h].addr["AAAA"]
        /\ HasOwner(zone'[h], d)
    BY <1>0, <1>3, Upserted DEF Upserts, HasOwner
  <2>2. c # d
    BY <1>1, <2>1
  <2>3. ~call[d].ipv6
    BY <1>1, <1>2, <2>1, <2>2, ControllersAssumption
  <2> QED
    BY <1>3, <2>2, <2>3 DEF Takes, Upserts
<1>4. ASSUME NEW d \in Controllers, Deletes(d, h) PROVE Takes(d, c, h)
  <2>1. zone'[h].addr["AAAA"] = IF call[d].ipv6 THEN None ELSE zone[h].addr["AAAA"]
    BY <1>0, <1>4, Deleted DEF Deletes
  <2>2. ~call[d].ipv6
    BY <1>1, <1>2, <2>1, ControllersAssumption, NoneNotTarget
  <2>3. HasOwner(zone[h], c)
    BY <1>1, <2>1, <2>2
  <2>4. zone[h].addr["A"] = TargetOf[c]
    BY <2>3 DEF AddressInv, AddressHasOwner
  <2>5. c = d
    BY <1>4, <2>2, <2>4, DeletesOwn
  <2> QED
    BY <1>4, <2>2, <2>5 DEF Takes, Deletes
<1>5. ~(zone'[h] = zone[h] \/ EditsTXT(h) \/ EditsAddress(h))
  BY <1>1 DEF EditsTXT, EditsAddress, HasOwner
<1> QED
  BY <1>0, <1>3, <1>4, <1>5, ZoneStep

(* An AAAA record loses its owner's value only to a stale Upsert of a      *)
(* controller without IPv6, or in a Delete of its owner without AAAA.      *)
THEOREM IPv6LosesOwnerOnlySo == Spec => IPv6LosesOwner
<1>1. AddressInv /\ [Next]_vars =>
        [\A h \in Hosts, c \in Controllers :
            (~UnownedIPv6(h, c) /\ UnownedIPv6(h, c)') =>
               \E d \in Controllers :
                  /\ call[d].phase = "change" /\ h \in call[d].names /\ ~call[d].ipv6
                  /\ IF d = c THEN call[d].op = "Delete" ELSE call[d].op = "Upsert"]_vars
  BY IPv6Step DEF LosesOwner, Takes
<1> QED
  BY <1>1, AddressInit, AddressStep, PTL DEF Spec, IPv6LosesOwner
=============================================================================
