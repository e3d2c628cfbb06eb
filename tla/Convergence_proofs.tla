------------------------- MODULE Convergence_proofs -------------------------
(***************************************************************************)
(* The proof that a controller with nothing left to do has served every    *)
(* live Ingress: QuiescentServed.                                          *)
(*                                                                         *)
(* It rests on what is true of one Ingress while others are being worked   *)
(* on: an Ingress that the cache shows as live, and that neither waits in  *)
(* the queue nor is the request of the call in progress, is served as the  *)
(* cache has it.  A call for another Ingress of the group rewrites the     *)
(* distribution, the records and the CDNStatus this one depends on, from a *)
(* listing that may be stale by then; what makes that harmless is that     *)
(* every delivery since the listing has put its Ingress on the queue.      *)
(*                                                                         *)
(* With alias records the claim needs ENABLE_DELETION off: a Reconcile     *)
(* call whose upsertDistribution failed goes on with an empty distribution *)
(* and then deletes the records of every Ingress of the group.  It also    *)
(* needs every domain spelled in one way, with the trailing dot or without *)
(* it: CloudFront keeps two spellings in two distributions, Route 53 has   *)
(* one name for both.                                                      *)
(***************************************************************************)
EXTENDS Finalizer_proofs

(* The domains users write. *)
SpecDomains == UNION {s.domains : s \in UNION {Specs[i] : i \in Ingresses}}

OneSpelling == \A x, y \in SpecDomains : x.host = y.host => x = y

AliasesStay == CreateAlias => ~DeletionEnabled /\ OneSpelling

-----------------------------------------------------------------------------
(* The inductive invariant                                                 *)

LiveObject(o) == /\ o # None /\ ~o.deleting /\ o.spec.group # None
                 /\ o.spec.lb /\ o.spec.syntax = "ok"

Pending(i) == i \in queue \/ (w.pc # "idle" /\ w.i = i)

Settled(i) == LiveObject(cache[i]) /\ ~Pending(i)

(* The conditions of Served, for the contents s and the distribution d. *)
ServedBy(i, s, d) ==
    /\ dist[d].enabled
    /\ i \in dist[d].members
    /\ s.domains \subseteq dist[d].domains
    /\ CreateAlias => HasRecords(d, s.domains)
    /\ cdn[s.group] # None
    /\ cdn[s.group].id = d
    /\ cdn[s.group].refs[i] = "Synced"

(* A live Ingress nothing is going to be done about is served as the cache *)
(* has it, and its finalizer is on its way to the cache at least.          *)
SettledServed ==
    \A i \in Ingresses : Settled(i) =>
        \E d \in ARNByGroup(cache[i].spec.group) : ServedBy(i, cache[i].spec, d)

SettledFinalized ==
    \A i \in Ingresses : Settled(i) => cache[i].fin \/ (ing[i] # None /\ ing[i].fin)

Syncing == w.pc \notin {"idle", "started", "dist"}
Saving == w.pc \in {"statusDelete", "statusCreate", "statusUpdate"}
Stays(o) == ~o.deleting /\ o.spec.group # None

(* Only its finalizer tells the Ingress of a call from the one it read. *)
SameRequest ==
    w.pc # "idle" => w.obj.spec = w.read.spec /\ w.obj.deleting = w.read.deleting

(* A call knows the current contents of its Ingress, or comes again. *)
ReadIsCached ==
    (w.pc # "idle" /\ w.i \notin queue /\ LiveObject(cache[w.i])) => cache[w.i] = w.read

(* The listing has every live Ingress of the group, with its domains,      *)
(* except those a delivery has put on the queue since.                     *)
ListIsCached ==
    w.pc \notin {"idle", "started"} =>
        \A i \in Ingresses \ queue :
            (LiveObject(cache[i]) /\ cache[i].spec.group = w.obj.spec.group)
              => i \in w.desired /\ cache[i].spec.domains \subseteq w.domains

(* After a syncDist without error the distribution is the desired one and  *)
(* the CDNStatus that is to be saved says so.                              *)
OutputIsDesired ==
    (Syncing /\ ~w.errs /\ w.desired # {}) =>
        /\ w.out.target \in DistIds
        /\ w.out.domains = w.domains
        /\ w.out.ipv6 = IPv6Enabled
        /\ dist[w.out.target] = DesiredDistribution
        /\ w.st.id = w.out.target
        /\ Stays(w.obj) => w.st.refs[w.i] = "Synced"

(* After a failed one, or for an empty group, there is nothing to upsert. *)
NoOutput == (w.pc = "aliasUpsert" /\ (w.errs \/ w.desired = {})) => w.out.domains = {}

RecordsWritten ==
    (CreateAlias /\ Syncing /\ w.pc # "aliasUpsert" /\ ~w.errs /\ w.desired # {}) =>
        w.errUp \/ HasRecords(w.out.target, w.domains)

UpsertErrorKept == (CreateAlias /\ (w.pc = "finalizer" \/ Saving) /\ w.errUp) => w.errs

(* The CDNStatus to be saved takes nothing from the other Ingresses: their *)
(* references stay, and so does the ID of the distribution they are in.    *)
StatusKeeps ==
    (w.pc \notin {"idle", "started"} /\ w.base # None) =>
        /\ \A i \in Ingresses \ {w.i} : w.base.refs[i] = "Synced" => w.st.refs[i] = "Synced"
        /\ w.st.id = w.base.id \/ (Syncing /\ w.base.id \notin ARNByGroup(w.obj.spec.group))

FinalizerSaved ==
    (Saving /\ ~w.errs /\ Stays(w.obj)) => ing[w.i] # None /\ ing[w.i].fin

DeletesEmpty == w.pc = "statusDelete" => w.desired = {}

(* What is true of the call in progress. *)
CallInv == /\ SameRequest /\ ReadIsCached /\ ListIsCached
           /\ OutputIsDesired /\ NoOutput /\ RecordsWritten /\ UpsertErrorKept
           /\ StatusKeeps /\ FinalizerSaved /\ DeletesEmpty

OwnTXT == CreateAlias => \A h \in Hosts : zone[h].txt \in {<<>>, <<Owner>>}

DomainsDisjoint ==
    \A d, e \in DistIds :
        (d # e /\ dist[d] # None /\ dist[e] # None) => dist[d].domains \cap dist[e].domains = {}

DomainsFromUsers ==
    /\ \A i \in Ingresses : /\ ing[i] # None => ing[i].spec.domains \subseteq SpecDomains
                            /\ cache[i] # None => cache[i].spec.domains \subseteq SpecDomains
    /\ w.domains \subseteq SpecDomains
    /\ \A d \in DistIds : dist[d] # None => dist[d].domains \subseteq SpecDomains

CInv == /\ FInv /\ SettledServed /\ SettledFinalized /\ CallInv
        /\ OwnTXT /\ DomainsDisjoint /\ DomainsFromUsers

-----------------------------------------------------------------------------
(* What the steps do                                                       *)

(* The DNS methods of a CDNStatus keep its ID and its references. *)
LEMMA DNSMethodsKeep ==
  ASSUME NEW st \in CS!Statuses, NEW ds, NEW b
  PROVE  /\ CS!UpsertDNSRecords(st, ds).id = st.id /\ CS!UpsertDNSRecords(st, ds).refs = st.refs
         /\ CS!RemoveDNSRecords(st, ds).id = st.id /\ CS!RemoveDNSRecords(st, ds).refs = st.refs
         /\ CS!SetDNSSync(st, b).id = st.id /\ CS!SetDNSSync(st, b).refs = st.refs
<1>1. ASSUME NEW dns
      PROVE  [st EXCEPT !.dns = dns].id = st.id /\ [st EXCEPT !.dns = dns].refs = st.refs
  BY DEF CS!Statuses
<1> QED
  BY <1>1 DEF CS!UpsertDNSRecords, CS!RemoveDNSRecords, CS!SetDNSSync

(* What upsertDistribution and reconcileFinalizer do to an ID and to       *)
(* references.                                                             *)
LEMMA RefMethods ==
  ASSUME NEW st \in CS!Statuses, NEW i \in Ingresses, NEW b \in BOOLEAN, NEW d, NEW ds
  PROVE  LET failed == CS!SetIngressRef(st, b, i)
             synced == CS!SetAliases(CS!SetInfo(CS!SetIngressRef(st, b, i), d), ds)
         IN  /\ failed.id = st.id /\ synced.id = d
             /\ b => synced.refs[i] = "Synced"
             /\ \A j \in Ingresses \ {i} : /\ failed.refs[j] = st.refs[j]
                                           /\ synced.refs[j] = st.refs[j]
  BY DEF CS!SetAliases, CS!SetInfo, CS!SetIngressRef, CS!Statuses

LEMMA RemovedRef ==
  ASSUME NEW st \in CS!Statuses, NEW i \in Ingresses
  PROVE  /\ CS!RemoveIngressRef(st, i).id = st.id
         /\ \A j \in Ingresses \ {i} : CS!RemoveIngressRef(st, i).refs[j] = st.refs[j]
  BY DEF CS!RemoveIngressRef, CS!Statuses

LEMMA UserKeepsFinalizer ==
  ASSUME TypeOK, NEW i \in Ingresses, Edit(i) \/ Delete(i), NEW j \in Ingresses,
         ing[j] # None, ing[j].fin
  PROVE  ing'[j] # None /\ ing'[j].fin
<1>o. ing[j] \in Objects
  BY DEF TypeOK
<1>1. CASE j # i
  BY <1>1, UserParts
<1>2. CASE j = i /\ Edit(i)
  <2>1. PICK s \in Specs[i] :
          ing' = [ing EXCEPT ![i] = IF ing[i] = None THEN NewObject(s)
                                    ELSE [ing[i] EXCEPT !.spec = s]]
    BY <1>2 DEF Edit
  <2>2. [ing[j] EXCEPT !.spec = s] \in Objects /\ [ing[j] EXCEPT !.spec = s].fin
    BY <1>o, SpecsAssumption, <1>2 DEF Objects
  <2> QED
    BY <1>2, <2>1, <2>2, NoneAssumption DEF TypeOK
<1>3. CASE j = i /\ Delete(i)
  <2>1. [ing[j] EXCEPT !.deleting = TRUE] \in Objects /\ [ing[j] EXCEPT !.deleting = TRUE].fin
    BY <1>o DEF Objects
  <2> QED
    BY <1>3, <2>1, NoneAssumption DEF Delete, TypeOK
<1> QED
  BY <1>1, <1>2, <1>3

(* What desiredState adds to a call that goes on. *)
LEMMA ListParts ==
  ASSUME TypeOK, HasRequest, DesiredState
  PROVE  \/ Return(TRUE)
         \/ /\ w'.pc = "dist" /\ w'.i = w.i /\ w'.obj = w.obj /\ w'.read = w.read
            /\ w'.desired = desiredIngresses(w.obj.spec.group)
            /\ w'.domains = AlternateDomains(desiredIngresses(w.obj.spec.group))
            /\ w'.base # None => w'.st = w'.base
            /\ UNCHANGED queue
<1> DEFINE g == w.obj.spec.group
           js == desiredIngresses(g)
           ds == AlternateDomains(js)
           arn == IF ARNByGroup(g) = {} THEN None ELSE CHOOSE d \in ARNByGroup(g) : TRUE
           base == CachedStatus(g)
           st == IF base = None THEN newCDNStatus(js) ELSE base
<1>1. CASE /\ w' = [w EXCEPT !.pc = "dist", !.desired = js, !.domains = ds, !.arn = arn,
                             !.base = base, !.st = st]
           /\ UNCHANGED queue
  <2>1. base # None => st = base
    OBVIOUS
  <2> HIDE DEF g, js, ds, arn, base, st
  <2>2. /\ w'.pc = "dist" /\ w'.i = w.i /\ w'.obj = w.obj /\ w'.read = w.read
        /\ w'.desired = js /\ w'.domains = ds /\ w'.base = base /\ w'.st = st
    BY <1>1 DEF TypeOK, Workers
  <2>3. w'.base # None => w'.st = w'.base
    BY <2>1, <2>2
  <2> USE DEF g, js, ds
  <2> QED
    BY <1>1, <2>2, <2>3
<1> QED
  BY <1>1, DesiredStateNext

(* The locals after upsertDistribution. *)
LEMMA UpsertedParts ==
  ASSUME TypeOK, HasRequest, w.pc # "idle", NEW d \in DistIds, NEW ok \in BOOLEAN, Upserted(d, ok)
  PROVE  /\ w'.pc = AfterDist /\ w'.errs = ~ok
         /\ w'.out = IF ok THEN [target |-> d, domains |-> w.domains, ipv6 |-> IPv6Enabled]
                     ELSE EmptyOutput
         /\ w'.st.id = IF ok THEN d ELSE w.st.id
         /\ ok => w'.st.refs[w.i] = "Synced"
         /\ \A j \in Ingresses \ {w.i} : w'.st.refs[j] = w.st.refs[j]
<1> DEFINE failed == CS!SetIngressRef(w.st, ok, w.i)
           synced == CS!SetAliases(CS!SetInfo(CS!SetIngressRef(w.st, ok, w.i), d), w.domains)
           st == IF ok THEN synced ELSE failed
           out == IF ok THEN [target |-> d, domains |-> w.domains, ipv6 |-> IPv6Enabled]
                  ELSE EmptyOutput
<1>1. w' = [w EXCEPT !.pc = AfterDist, !.errs = ~ok, !.st = st, !.out = out]
  BY DEF Upserted
<1>2. w.st \in CS!Statuses /\ w.i \in Ingresses
  BY DEF TypeOK, Workers, HasRequest
<1>3. /\ failed.id = w.st.id /\ synced.id = d
      /\ ok => synced.refs[w.i] = "Synced"
      /\ \A j \in Ingresses \ {w.i} : failed.refs[j] = w.st.refs[j] /\ synced.refs[j] = w.st.refs[j]
  BY <1>2, RefMethods
<1> HIDE DEF failed, synced
<1>4. /\ st.id = IF ok THEN d ELSE w.st.id
      /\ ok => st.refs[w.i] = "Synced"
      /\ \A j \in Ingresses \ {w.i} : st.refs[j] = w.st.refs[j]
  BY <1>3
<1> HIDE DEF st, out
<1>5. w'.pc = AfterDist /\ w'.errs = ~ok /\ w'.st = st /\ w'.out = out
  BY <1>1 DEF TypeOK, Workers
<1> QED
  BY <1>4, <1>5 DEF out

(* The locals and the zone after the upsert of the aliases. *)
LEMMA UpsertAliasesParts ==
  ASSUME TypeOK, HasRequest, UpsertAliases
  PROVE  /\ w.pc = "aliasUpsert" /\ w'.pc = "aliasDelete"
         /\ w'.out = w.out /\ w'.errs = w.errs
         /\ w'.st.id = w.st.id /\ w'.st.refs = w.st.refs
         /\ zone' = zone \/ zone' = UpsertChanges(toUpsert, zone, zone)
         /\ ~w'.errUp => zone' = UpsertChanges(toUpsert, zone, zone)
         /\ dist' = dist
<1> DEFINE done == UpsertValid(toUpsert, zone) /\ UpsertAccepted(toUpsert, zone)
<1>1. PICK o \in Outcomes("alias") :
        /\ zone' = IF o.applied /\ done THEN UpsertChanges(toUpsert, zone, zone) ELSE zone
        /\ w' = [w EXCEPT !.pc = "aliasDelete",
                          !.errUp = ~(o.ok /\ done),
                          !.st = IF o.ok /\ done THEN CS!UpsertDNSRecords(w.st, toUpsert.entries)
                                 ELSE w.st]
  BY DEF UpsertAliases
<1>2. o.ok => o.applied
  BY DEF Outcomes
<1> DEFINE err == ~(o.ok /\ done)
           st == IF o.ok /\ done THEN CS!UpsertDNSRecords(w.st, toUpsert.entries) ELSE w.st
<1>3. w.st \in CS!Statuses
  BY DEF TypeOK, Workers
<1>4. st.id = w.st.id /\ st.refs = w.st.refs
  BY <1>3, DNSMethodsKeep
<1>5. /\ w' = [w EXCEPT !.pc = "aliasDelete", !.errUp = err, !.st = st]
      /\ ~err => zone' = UpsertChanges(toUpsert, zone, zone)
      /\ zone' = zone \/ zone' = UpsertChanges(toUpsert, zone, zone)
  BY <1>1, <1>2
<1> HIDE DEF st, err, done
<1>6. w'.pc = "aliasDelete" /\ w'.errUp = err /\ w'.st = st /\ w'.out = w.out /\ w'.errs = w.errs
  BY <1>5 DEF TypeOK, Workers
<1> QED
  BY <1>4, <1>5, <1>6 DEF UpsertAliases, aliasLeaves

LEMMA DeleteAliasesParts ==
  ASSUME TypeOK, HasRequest, DeleteAliases
  PROVE  /\ w.pc = "aliasDelete" /\ w'.pc = "finalizer"
         /\ w'.out = w.out /\ w'.errUp = w.errUp
         /\ (w.errs \/ w.errUp) => w'.errs
         /\ w'.st.id = w.st.id /\ w'.st.refs = w.st.refs
         /\ ~DeletionEnabled => zone' = zone
         /\ dist' = dist
<1> DEFINE done == DeleteValid(toDelete, zone) /\ DeleteAccepted(toDelete, zone, zone)
           removed == CS!RemoveDNSRecords(w.st, toDelete.entries)
<1>1. PICK o \in Outcomes("alias") :
        LET ok == o.ok /\ done
            st == IF ok THEN removed ELSE w.st
        IN  /\ zone' = IF o.applied /\ done THEN DeleteChanges(toDelete, zone, zone) ELSE zone
            /\ w' = [w EXCEPT !.pc = "finalizer",
                              !.st = IF w.errUp \/ ~ok THEN CS!SetDNSSync(st, FALSE) ELSE st,
                              !.errs = w.errs \/ w.errUp \/ ~ok]
  BY DEF DeleteAliases
<1> DEFINE ok == o.ok /\ done
           st == IF ok THEN removed ELSE w.st
           st2 == IF w.errUp \/ ~ok THEN CS!SetDNSSync(st, FALSE) ELSE st
           errs == w.errs \/ w.errUp \/ ~ok
<1>2. w' = [w EXCEPT !.pc = "finalizer", !.st = st2, !.errs = errs]
  BY <1>1
<1>3. w.st \in CS!Statuses /\ removed \in CS!Statuses
  BY AliasesType, DNSMethods DEF TypeOK, Workers
<1>4. removed.id = w.st.id /\ removed.refs = w.st.refs
  BY <1>3, DNSMethodsKeep
<1>5. zone' = zone \/ zone' = DeleteChanges(toDelete, zone, zone)
  BY <1>1
<1>6. ~DeletionEnabled => DeleteChanges(toDelete, zone, zone) = zone
  <2> SUFFICES ASSUME ~DeletionEnabled PROVE DeleteChanges(toDelete, zone, zone) = zone
    OBVIOUS
  <2>1. Names(toDelete) = {}
    BY AliasesType DEF Names
  <2> QED
    BY <2>1 DEF DeleteChanges, TypeOK, Zones
<1>7. (w.errs \/ w.errUp) => errs
  OBVIOUS
<1> HIDE DEF removed, ok, done
<1>8. st \in CS!Statuses /\ st.id = w.st.id /\ st.refs = w.st.refs
  BY <1>3, <1>4
<1> HIDE DEF st
<1>9. st2.id = w.st.id /\ st2.refs = w.st.refs
  BY <1>8, DNSMethodsKeep
<1> HIDE DEF st2, errs
<1>10. w'.pc = "finalizer" /\ w'.st = st2 /\ w'.errs = errs /\ w'.out = w.out /\ w'.errUp = w.errUp
  BY <1>2 DEF TypeOK, Workers
<1> QED
  BY <1>5, <1>6, <1>7, <1>9, <1>10 DEF DeleteAliases, aliasLeaves

LEMMA EnsureOwnTXT ==
  ASSUME NEW owner, NEW txt \in {<<>>, <<owner>>}
  PROVE  ensureTXTValue(owner, txt) = <<owner>>
<1>1. CASE txt = <<>>
  <2>1. ~ \E k \in DOMAIN txt : txt[k] = owner
    BY <1>1
  <2>2. Append(txt, owner) = <<owner>>
    BY <1>1
  <2> QED
    BY <2>1, <2>2 DEF ensureTXTValue
<1>2. CASE txt = <<owner>>
  <2>1. 1 \in DOMAIN txt /\ txt[1] = owner
    BY <1>2
  <2> QED
    BY <1>2, <2>1 DEF ensureTXTValue
<1> QED
  BY <1>1, <1>2

(* The records of a name after the upsert: rewritten if it is one of the   *)
(* output's domains, as before otherwise.                                  *)
LEMMA RecordsAfterUpsert ==
  ASSUME TypeOK, OwnTXT, CreateAlias, NEW h \in Hosts
  PROVE  LET new == UpsertChanges(toUpsert, zone, zone)[h] IN
         /\ new.txt \in {<<>>, <<Owner>>}
         /\ (\E x \in w.out.domains : x.host = h) =>
               /\ \A t \in IF w.out.ipv6 THEN RRTypes ELSE {"A"} : new.addr[t] = w.out.target
               /\ new.txt = <<Owner>>
         /\ (~ \E x \in w.out.domains : x.host = h) => new = zone[h]
<1> DEFINE new == UpsertChanges(toUpsert, zone, zone)[h]
<1>0. zone[h] \in RecordSets /\ zone[h].txt \in {<<>>, <<Owner>>}
  BY DEF TypeOK, Zones, OwnTXT
<1>1. /\ toUpsert.target = w.out.target /\ toUpsert.owner = Owner
      /\ toUpsert.types = IF w.out.ipv6 THEN RRTypes ELSE {"A"}
      /\ toUpsert.entries = NormalizeDomains(w.out.domains)
  <2>1. w.out.ipv6 \in BOOLEAN
    BY DEF TypeOK, Workers, Outputs
  <2> QED
    BY <2>1, AliasesFields DEF toUpsert
<1>2. h \in Names(toUpsert) <=> \E x \in w.out.domains : x.host = h
  <2>1. \A x \in w.out.domains : normalizeDomain(x).host = x.host
    BY DEF normalizeDomain, TypeOK, Workers, Outputs, Domains
  <2> QED
    BY <1>1, <2>1 DEF Names, NormalizeDomains
<1>3. ensureTXTValue(Owner, zone[h].txt) = <<Owner>>
  BY <1>0, EnsureOwnTXT
<1>4. CASE h \in Names(toUpsert)
  <2>1. new = upsertEntry(toUpsert, zone[h], zone[h])
    BY <1>4 DEF UpsertChanges
  <2>2. /\ new.txt = ensureTXTValue(toUpsert.owner, zone[h].txt)
        /\ \A t \in RRTypes : t \in toUpsert.types => new.addr[t] = toUpsert.target
    BY <1>0, <2>1 DEF upsertEntry, RecordSets
  <2>3. new.txt = <<Owner>>
    BY <1>1, <1>3, <2>2
  <2>4. \A t \in IF w.out.ipv6 THEN RRTypes ELSE {"A"} : new.addr[t] = w.out.target
    BY <1>1, <2>2 DEF RRTypes
  <2> HIDE DEF new
  <2>5. new.txt \in {<<>>, <<Owner>>}
    BY <2>3
  <2> QED
    BY <1>2, <1>4, <2>3, <2>4, <2>5 DEF new
<1>5. CASE h \notin Names(toUpsert)
  <2>1. new = zone[h]
    BY <1>5 DEF UpsertChanges
  <2> QED
    BY <1>0, <1>2, <1>5, <2>1
<1> QED
  BY <1>4, <1>5

(* The locals and the Ingress after reconcileFinalizer. *)
LEMMA FinalizerLocals ==
  ASSUME TypeOK, HasRequest, ReconcileFinalizer
  PROVE  /\ w'.i = w.i /\ w'.read = w.read /\ w'.desired = w.desired /\ w'.domains = w.domains
         /\ w'.base = w.base /\ w'.out = w.out /\ w'.errUp = w.errUp
         /\ w'.obj.spec = w.obj.spec /\ w'.obj.deleting = w.obj.deleting
         /\ w.errs => w'.errs
         /\ w'.st.id = w.st.id
         /\ \A j \in Ingresses \ {w.i} : w'.st.refs[j] = w.st.refs[j]
         /\ Stays(w.obj) => w'.st = w.st
         /\ w'.pc = "statusDelete" => w.desired = {}
         /\ (Stays(w.obj) /\ ~w'.errs) => ing'[w.i] # None /\ ing'[w.i].fin
<1> DEFINE fin == w.errs \/ ~IsBeingRemovedFromDesiredState(w.obj)
           obj == [w.obj EXCEPT !.fin = fin]
<1>0. w.pc = "finalizer" /\ w.obj \in Objects /\ w.i \in Ingresses /\ w.st \in CS!Statuses
  BY DEF ReconcileFinalizer, HasRequest, TypeOK, Workers
<1>1. PICK o \in Outcomes("ingress") :
        /\ UpdateIngress(fin, o)
        /\ LET errs == w.errs \/ ~UpdateIngressOK(o) IN
           w' = [w EXCEPT !.obj = obj,
                          !.errs = errs,
                          !.st = IF ~errs /\ IsBeingRemovedFromDesiredState(obj)
                                   THEN CS!RemoveIngressRef(w.st, w.i) ELSE w.st,
                          !.pc = IF ~errs /\ w.desired = {} THEN "statusDelete"
                                 ELSE IF w.base = None THEN "statusCreate"
                                 ELSE "statusUpdate"]
  BY DEF ReconcileFinalizer
<1> DEFINE errs == w.errs \/ ~UpdateIngressOK(o)
           gone == CS!RemoveIngressRef(w.st, w.i)
           st == IF ~errs /\ IsBeingRemovedFromDesiredState(obj) THEN gone ELSE w.st
           pc == IF ~errs /\ w.desired = {} THEN "statusDelete"
                 ELSE IF w.base = None THEN "statusCreate" ELSE "statusUpdate"
<1>2. w' = [w EXCEPT !.obj = obj, !.errs = errs, !.st = st, !.pc = pc]
  BY <1>1
<1>3. fin \in BOOLEAN /\ (w.errs => errs) /\ (pc = "statusDelete" => w.desired = {})
  OBVIOUS
<1>4. /\ obj \in Objects /\ obj.spec = w.obj.spec /\ obj.deleting = w.obj.deleting /\ obj.fin = fin
  <2> HIDE DEF fin
  <2> QED
    BY <1>0, <1>3 DEF Objects
<1>5. gone.id = w.st.id /\ \A j \in Ingresses \ {w.i} : gone.refs[j] = w.st.refs[j]
  BY <1>0, RemovedRef
<1>6. Stays(w.obj) => fin /\ st = w.st
  <2> HIDE DEF fin, obj
  <2>1. Stays(w.obj) => ~IsBeingRemovedFromDesiredState(obj)
    BY <1>4 DEF Stays, IsBeingRemovedFromDesiredState, HasGroupAnnotation
  <2>2. Stays(w.obj) => ~IsBeingRemovedFromDesiredState(w.obj)
    BY DEF Stays, IsBeingRemovedFromDesiredState, HasGroupAnnotation
  <2> QED
    BY <2>1, <2>2 DEF fin
<1>7. (Stays(w.obj) /\ ~errs) => ing'[w.i] = obj
  <2>1. o.ok => o.applied
    BY DEF Outcomes
  <2> SUFFICES ASSUME Stays(w.obj), ~errs PROVE ing'[w.i] = obj
    OBVIOUS
  <2>2. fin /\ o.ok /\ ing[w.i] = w.read
    BY <1>6 DEF UpdateIngressOK
  <2>3. ing' = [ing EXCEPT ![w.i] = obj]
    BY <1>1, <2>1, <2>2 DEF UpdateIngress
  <2> QED
    BY <1>0, <2>3 DEF TypeOK
<1> HIDE DEF fin, errs, gone, pc, obj
<1>8. st.id = w.st.id /\ \A j \in Ingresses \ {w.i} : st.refs[j] = w.st.refs[j]
  BY <1>5
<1> HIDE DEF st
<1>9. /\ w'.obj = obj /\ w'.errs = errs /\ w'.st = st /\ w'.pc = pc
      /\ w'.i = w.i /\ w'.read = w.read /\ w'.desired = w.desired /\ w'.domains = w.domains
      /\ w'.base = w.base /\ w'.out = w.out /\ w'.errUp = w.errUp
  BY <1>2 DEF TypeOK, Workers
<1>10. (Stays(w.obj) /\ ~w'.errs) => ing'[w.i] # None /\ ing'[w.i].fin
  BY <1>4, <1>6, <1>7, <1>9, NoneAssumption
<1> QED
  BY <1>3, <1>4, <1>6, <1>8, <1>9, <1>10

-----------------------------------------------------------------------------
(* Domains                                                                 *)

(* Contents of an Ingress come from users, or were there before. *)
LEMMA IngressContents ==
  ASSUME CInv, [Next]_vars, NEW j \in Ingresses, ing'[j] # None
  PROVE  \/ ing[j] # None /\ ing'[j].spec = ing[j].spec
         \/ ing'[j].spec \in Specs[j]
<1>t. TypeOK /\ HasRequest
  BY DEF CInv, FInv, IInv
<1>1. ASSUME NEW i \in Ingresses, Edit(i)
      PROVE  ing'[j] = ing[j] \/ ing'[j].spec \in Specs[j]
  <2>1. PICK s \in Specs[i] :
          ing' = [ing EXCEPT ![i] = IF ing[i] = None THEN NewObject(s)
                                    ELSE [ing[i] EXCEPT !.spec = s]]
    BY <1>1 DEF Edit
  <2>2. NewObject(s).spec = s /\ (ing[i] # None => [ing[i] EXCEPT !.spec = s].spec = s)
    BY <1>t DEF NewObject, TypeOK, Objects
  <2> QED
    BY <1>t, <2>1, <2>2 DEF TypeOK
<1>2. ASSUME NEW i \in Ingresses, Delete(i)
      PROVE  ing'[j].spec = ing[j].spec /\ ing[j] # None
  <2>1. ing[i] \in Objects /\ [ing[i] EXCEPT !.deleting = TRUE].spec = ing[i].spec
    BY <1>2, <1>t DEF Delete, TypeOK, Objects
  <2>2. ing' = [ing EXCEPT ![i] = IF ing[i].fin THEN [ing[i] EXCEPT !.deleting = TRUE] ELSE None]
    BY <1>2 DEF Delete
  <2> QED
    BY <1>t, <1>2, <2>1, <2>2 DEF TypeOK, Delete
<1>3. CASE RemoveFinalizerUngrouped \/ ReconcileFinalizer
  <2>0. PICK fin \in BOOLEAN : \E o : UpdateIngress(fin, o)
    <3>1. CASE RemoveFinalizerUngrouped
      BY <3>1 DEF RemoveFinalizerUngrouped
    <3>2. CASE ReconcileFinalizer
      BY <3>2, <1>t, FinalizerParts
    <3> QED
      BY <1>3, <3>1, <3>2
  <2>1. PICK o : UpdateIngress(fin, o)
    BY <2>0
  <2>2. w.pc # "idle" /\ w.i \in Ingresses /\ w.obj \in Objects /\ w.read = w.obj
    BY <1>3, <1>t DEF RemoveFinalizerUngrouped, ReconcileFinalizer, HasRequest, CInv, FInv,
                      ObjAsRead, Reading
  <2>3. CASE j = w.i /\ ing' # ing
    <3>1. ing[j] = w.read /\ ing'[j].spec = w.obj.spec
      BY <1>t, <2>1, <2>2, <2>3, UpdateParts
    <3> QED
      BY <2>2, <3>1, NoneAssumption
  <2>4. CASE j # w.i \/ ing' = ing
    BY <1>t, <2>1, <2>2, <2>4, UpdateParts
  <2> QED
    BY <2>3, <2>4
<1>4. CASE UNCHANGED ing
  BY <1>4
<1> QED
  BY <1>1, <1>2, <1>3, <1>4
     DEF Next, User, Worker, Deliver, DeliverStatus, informerLeaves, Start, RejectIngress,
         DesiredState, SkipDeletion, DeleteDistribution, UpdateDistribution, CreateDistribution,
         distLeaves, UpsertAliases, DeleteAliases, aliasLeaves, deleteCDNStatus, createCDNStatus,
         updateCDNStatus, statusLeaves, Crash, vars

LEMMA DomainsStep == CInv /\ [Next]_vars => DomainsFromUsers' /\ DomainsDisjoint'
<1> SUFFICES ASSUME CInv, [Next]_vars PROVE DomainsFromUsers' /\ DomainsDisjoint'
  OBVIOUS
<1>t. TypeOK /\ HasRequest /\ IInv /\ DomainsFromUsers /\ DomainsDisjoint
  BY DEF CInv, FInv, IInv
<1>1. \A i \in Ingresses : ing'[i] # None => ing'[i].spec.domains \subseteq SpecDomains
  <2> SUFFICES ASSUME NEW i \in Ingresses, ing'[i] # None
               PROVE  ing'[i].spec.domains \subseteq SpecDomains
    OBVIOUS
  <2>1. CASE ing[i] # None /\ ing'[i].spec = ing[i].spec
    BY <1>t, <2>1 DEF DomainsFromUsers
  <2>2. CASE ing'[i].spec \in Specs[i]
    BY <2>2 DEF SpecDomains
  <2> QED
    BY <2>1, <2>2, IngressContents
<1>2. \A i \in Ingresses : cache'[i] # None => cache'[i].spec.domains \subseteq SpecDomains
  <2>1. ASSUME NEW i \in Ingresses PROVE cache'[i] = cache[i] \/ cache'[i] = ing[i]
    BY <1>t DEF Next, User, Worker, Edit, Delete, userLeaves, Deliver, DeliverStatus, informerLeaves,
         Start, RejectIngress, RemoveFinalizerUngrouped,
         DesiredState, SkipDeletion, DeleteDistribution, UpdateDistribution, CreateDistribution,
         distLeaves, UpsertAliases, DeleteAliases, aliasLeaves, ReconcileFinalizer, deleteCDNStatus,
         createCDNStatus, updateCDNStatus, statusLeaves, workerLeaves, Crash, vars, TypeOK
  <2> QED
    BY <1>t, <2>1 DEF DomainsFromUsers
<1>3. w'.domains \subseteq SpecDomains
  <2>i. Idle.domains = {}
    BY DEF Idle
  <2>0. CASE w' = Idle \/ w'.domains = w.domains
    BY <1>t, <2>i, <2>0 DEF DomainsFromUsers
  <2>1. ASSUME NEW i \in Ingresses, Start(i) PROVE w'.domains = {}
    BY <2>1, <2>i DEF Start, Idle
  <2>2. CASE DesiredState
    <3>1. AlternateDomains(desiredIngresses(w.obj.spec.group)) \subseteq SpecDomains
      BY <1>t DEF AlternateDomains, desiredIngresses, DomainsFromUsers
    <3> QED
      BY <1>t, <2>0, <2>2, <3>1, ListParts DEF Return
  <2>3. CASE \/ SkipDeletion \/ DeleteDistribution \/ UpdateDistribution \/ CreateDistribution
             \/ UpsertAliases \/ DeleteAliases
    BY <1>t, <2>0, <2>3, CallGoesOn
  <2>4. CASE ReconcileFinalizer
    BY <1>t, <2>0, <2>4, FinalizerLocals
  <2>5. CASE createCDNStatus
    <3>1. w' = Idle \/ w' = [w EXCEPT !.pc = "statusUpdate", !.base = CS!EmptyStatus]
      BY <2>5 DEF createCDNStatus, Return
    <3> QED
      BY <1>t, <2>0, <3>1 DEF TypeOK, Workers
  <2> QED
    BY <2>0, <2>1, <2>2, <2>3, <2>4, <2>5
       DEF Next, User, Worker, Edit, Delete, userLeaves, Deliver, DeliverStatus, informerLeaves,
           RejectIngress, RemoveFinalizerUngrouped, deleteCDNStatus, updateCDNStatus, Return,
           Crash, vars
<1>4. /\ \A d \in DistIds : dist'[d] # None => dist'[d].domains \subseteq SpecDomains
      /\ DomainsDisjoint'
  <2>1. CASE UNCHANGED dist
    BY <1>t, <2>1 DEF DomainsFromUsers, DomainsDisjoint
  <2>2. CASE DeleteDistribution
    <3>1. \A d \in DistIds : dist'[d] # None => dist[d] # None /\ dist'[d].domains = dist[d].domains
      <4>1. dist[w.arn] \in Distributions
        BY <1>t, <2>2 DEF DeleteDistribution, IInv, ARNIsCurrent, TypeOK, Workers
      <4>2. /\ [dist[w.arn] EXCEPT !.enabled = FALSE].domains = dist[w.arn].domains
            /\ dist[w.arn] # None
        BY <4>1, NoneAssumption DEF Distributions
      <4>3. \/ dist' = dist
            \/ dist' = [dist EXCEPT ![w.arn] = [dist[w.arn] EXCEPT !.enabled = FALSE]]
            \/ dist' = [dist EXCEPT ![w.arn] = None]
        BY <2>2 DEF DeleteDistribution
      <4> QED
        BY <1>t, <4>2, <4>3 DEF TypeOK
    <3> QED
      BY <1>t, <3>1 DEF DomainsFromUsers, DomainsDisjoint
  <2>3. CASE UpdateDistribution \/ CreateDistribution
    <3>1. PICK d \in DistIds : \/ dist' = dist
                               \/ /\ dist' = [dist EXCEPT ![d] = DesiredDistribution]
                                  /\ DomainsAreFree(w.domains, d)
      BY <1>t, <2>3, UpsertParts
    <3>2. CASE /\ dist' = [dist EXCEPT ![d] = DesiredDistribution]
               /\ DomainsAreFree(w.domains, d)
      <4>1. dist'[d].domains = w.domains
        BY <1>t, <3>2 DEF TypeOK, DesiredDistribution
      <4>2. \A e \in DistIds \ {d} : /\ dist'[e] = dist[e]
                                     /\ dist[e] # None => dist[e].domains \cap w.domains = {}
        BY <1>t, <3>2 DEF TypeOK, DomainsAreFree
      <4> QED
        BY <1>t, <4>1, <4>2 DEF DomainsFromUsers, DomainsDisjoint
    <3> QED
      BY <2>1, <3>1, <3>2
  <2> QED
    BY <2>1, <2>2, <2>3
       DEF Next, User, Worker, Edit, Delete, userLeaves, Deliver, DeliverStatus, informerLeaves,
           Start, RejectIngress, RemoveFinalizerUngrouped, DesiredState, SkipDeletion,
           UpsertAliases, DeleteAliases, aliasLeaves, ReconcileFinalizer, deleteCDNStatus,
           createCDNStatus, updateCDNStatus, statusLeaves, Crash, vars
<1> QED
  BY <1>1, <1>2, <1>3, <1>4 DEF DomainsFromUsers

(* Only this controller's ownership value is ever written. *)
LEMMA OwnTXTStep == AliasesStay /\ CInv /\ [Next]_vars => OwnTXT'
<1> SUFFICES ASSUME AliasesStay, CInv, [Next]_vars, CreateAlias
             PROVE  \A h \in Hosts : zone'[h].txt \in {<<>>, <<Owner>>}
  BY DEF OwnTXT
<1>t. TypeOK /\ HasRequest /\ OwnTXT
  BY DEF CInv, FInv, IInv
<1>1. CASE UNCHANGED zone
  BY <1>t, <1>1 DEF OwnTXT
<1>2. CASE DeleteAliases
  BY <1>t, <1>1, <1>2, DeleteAliasesParts DEF AliasesStay
<1>3. CASE UpsertAliases
  <2>1. zone' = zone \/ zone' = UpsertChanges(toUpsert, zone, zone)
    BY <1>t, <1>3, UpsertAliasesParts
  <2> QED
    BY <1>t, <1>1, <2>1, RecordsAfterUpsert
<1> QED
  BY <1>1, <1>2, <1>3
     DEF Next, User, Worker, Edit, Delete, userLeaves, Deliver, DeliverStatus, informerLeaves,
         Start, RejectIngress, RemoveFinalizerUngrouped, DesiredState, SkipDeletion,
         DeleteDistribution, UpdateDistribution, CreateDistribution, distLeaves, ReconcileFinalizer,
         deleteCDNStatus, createCDNStatus, updateCDNStatus, statusLeaves, Crash, vars

-----------------------------------------------------------------------------
(* The call in progress                                                    *)

(* What syncDist and syncAliases leave alone. *)
LEMMA RequestKept ==
  ASSUME CInv,
         \/ SkipDeletion \/ DeleteDistribution \/ UpdateDistribution \/ CreateDistribution
         \/ UpsertAliases \/ DeleteAliases
  PROVE  SameRequest' /\ ReadIsCached' /\ ListIsCached' /\ FinalizerSaved' /\ DeletesEmpty'
<1>1. /\ w.pc \in {"dist", "aliasUpsert", "aliasDelete"}
      /\ w'.pc \in {"aliasUpsert", "aliasDelete", "finalizer"}
      /\ w'.i = w.i /\ w'.obj = w.obj /\ w'.read = w.read
      /\ w'.desired = w.desired /\ w'.domains = w.domains
      /\ queue' = queue /\ cache' = cache
  BY CallGoesOn DEF CInv, FInv, IInv
<1>2. SameRequest' /\ ReadIsCached'
  BY <1>1 DEF CInv, CallInv, SameRequest, ReadIsCached
<1>3. ListIsCached'
  BY <1>1 DEF CInv, CallInv, ListIsCached
<1>4. FinalizerSaved' /\ DeletesEmpty'
  BY <1>1 DEF FinalizerSaved, DeletesEmpty, Saving
<1> QED
  BY <1>2, <1>3, <1>4

LEMMA CallUsers ==
  ASSUME CInv, NEW i \in Ingresses, Edit(i) \/ Delete(i)
  PROVE  CallInv'
<1>t. TypeOK /\ HasRequest /\ CallInv
  BY DEF CInv, FInv, IInv
<1>1. UNCHANGED <<cache, queue, cdn, dist, zone, w>>
  BY <1>t, UserParts DEF userLeaves
<1>2. SameRequest' /\ ReadIsCached' /\ ListIsCached'
  BY <1>t, <1>1 DEF CallInv, SameRequest, ReadIsCached, ListIsCached
<1>3. OutputIsDesired' /\ NoOutput' /\ RecordsWritten' /\ UpsertErrorKept' /\ StatusKeeps' /\ DeletesEmpty'
  BY <1>t, <1>1 DEF CallInv, OutputIsDesired, NoOutput, RecordsWritten, UpsertErrorKept, StatusKeeps,
       DeletesEmpty, Syncing, Saving, DesiredDistribution, HasRecords, ARNByGroup
<1>4. FinalizerSaved'
  <2>1. Saving => w.i \in Ingresses
    BY <1>t DEF Saving, HasRequest
  <2> QED
    BY <1>t, <1>1, <2>1, UserKeepsFinalizer DEF CallInv, FinalizerSaved, Saving
<1> QED
  BY <1>2, <1>3, <1>4 DEF CallInv

(* A delivery of a live Ingress passes ingressPredicate. *)
LEMMA DeliveryQueues ==
  ASSUME TypeOK, NEW i \in Ingresses, Deliver(i)
  PROVE  /\ cache'[i] = ing[i] /\ \A j \in Ingresses \ {i} : cache'[j] = cache[j]
         /\ queue \subseteq queue'
         /\ LiveObject(cache'[i]) => i \in queue'
         /\ UNCHANGED <<ing, cdn, dist, zone, w>>
<1>1. LiveObject(ing[i]) => ingressPredicate(ing[i]) /\ ing[i] # None
  BY DEF LiveObject, ingressPredicate, HasGroupAnnotation, HasLoadBalancer
<1> QED
  BY <1>1 DEF Deliver, informerLeaves, TypeOK

LEMMA CallDeliver ==
  ASSUME CInv, NEW i \in Ingresses, Deliver(i)
  PROVE  CallInv'
<1>t. TypeOK /\ HasRequest /\ CallInv
  BY DEF CInv, FInv, IInv
<1>1. /\ \A j \in Ingresses \ {i} : cache'[j] = cache[j]
      /\ queue \subseteq queue'
      /\ LiveObject(cache'[i]) => i \in queue'
      /\ UNCHANGED <<ing, cdn, dist, zone, w>>
  BY <1>t, DeliveryQueues
<1>2. SameRequest' /\ ReadIsCached'
  <2>1. w.pc # "idle" => w.i \in Ingresses
    BY <1>t DEF HasRequest
  <2> QED
    BY <1>t, <1>1, <2>1 DEF CallInv, SameRequest, ReadIsCached, LiveObject
<1>3. ListIsCached'
  <2> SUFFICES ASSUME w.pc \notin {"idle", "started"}, NEW j \in Ingresses, j \notin queue',
                      LiveObject(cache'[j]), cache'[j].spec.group = w.obj.spec.group
               PROVE  j \in w.desired /\ cache'[j].spec.domains \subseteq w.domains
    BY <1>1 DEF ListIsCached, LiveObject
  <2>1. j # i /\ cache'[j] = cache[j] /\ j \notin queue
    BY <1>1
  <2> QED
    BY <1>t, <2>1 DEF CallInv, ListIsCached
<1>4. OutputIsDesired' /\ NoOutput' /\ RecordsWritten' /\ UpsertErrorKept' /\ StatusKeeps'
  BY <1>t, <1>1 DEF CallInv, OutputIsDesired, NoOutput, RecordsWritten, UpsertErrorKept, StatusKeeps,
       Syncing, Saving, DesiredDistribution, HasRecords, ARNByGroup
<1>5. FinalizerSaved' /\ DeletesEmpty'
  BY <1>t, <1>1 DEF CallInv, FinalizerSaved, DeletesEmpty, Saving
<1> QED
  BY <1>2, <1>3, <1>4, <1>5 DEF CallInv

LEMMA CallStart ==
  ASSUME CInv, NEW i \in Ingresses, Start(i)
  PROVE  CallInv'
<1>t. TypeOK
  BY DEF CInv, FInv, IInv
<1>1. /\ \/ w'.pc = "idle"
         \/ /\ w'.pc = "started" /\ w'.i = i
            /\ w'.obj = cache[i] /\ w'.read = cache[i]
      /\ cache' = cache
  BY <1>t, StartParts, IdleType
<1> QED
  BY <1>1 DEF CallInv, SameRequest, ReadIsCached, ListIsCached, OutputIsDesired, NoOutput,
              RecordsWritten, UpsertErrorKept, StatusKeeps, FinalizerSaved, DeletesEmpty,
              Syncing, Saving

LEMMA CallDesired ==
  ASSUME CInv, DesiredState
  PROVE  CallInv'
<1>t. TypeOK /\ HasRequest /\ CallInv
  BY DEF CInv, FInv, IInv
<1>0. w.pc = "started" /\ UNCHANGED <<ing, cache, cdn, dist, zone>>
  BY <1>t, DesiredParts
<1>1. CASE Return(TRUE)
  BY <1>1, IdleType DEF Return, CallInv, SameRequest, ReadIsCached, ListIsCached, OutputIsDesired,
       NoOutput, RecordsWritten, UpsertErrorKept, StatusKeeps, FinalizerSaved, DeletesEmpty,
       Syncing, Saving
<1>2. CASE /\ w'.pc = "dist" /\ w'.i = w.i /\ w'.obj = w.obj /\ w'.read = w.read
           /\ w'.desired = desiredIngresses(w.obj.spec.group)
           /\ w'.domains = AlternateDomains(desiredIngresses(w.obj.spec.group))
           /\ w'.base # None => w'.st = w'.base
           /\ UNCHANGED queue
  <2>1. SameRequest' /\ ReadIsCached'
    BY <1>t, <1>0, <1>2 DEF CallInv, SameRequest, ReadIsCached, LiveObject
  <2>2. ASSUME NEW i \in Ingresses, LiveObject(cache[i]), cache[i].spec.group = w.obj.spec.group
        PROVE  /\ i \in desiredIngresses(w.obj.spec.group)
               /\ cache[i].spec.domains \subseteq AlternateDomains(desiredIngresses(w.obj.spec.group))
    <3>1. i \in desiredIngresses(w.obj.spec.group)
      BY <2>2 DEF LiveObject, desiredIngresses, isPartOfDesiredState, HasLoadBalancer,
                  IsBeingRemovedFromDesiredState, HasGroupAnnotation
    <3> QED
      BY <3>1 DEF AlternateDomains
  <2>3. ListIsCached'
    BY <1>0, <1>2, <2>2 DEF ListIsCached, LiveObject
  <2>4. StatusKeeps'
    BY <1>2 DEF StatusKeeps
  <2> QED
    BY <1>2, <2>1, <2>3, <2>4
       DEF CallInv, OutputIsDesired, NoOutput, RecordsWritten, UpsertErrorKept, FinalizerSaved,
           DeletesEmpty, Syncing, Saving
<1> QED
  BY <1>t, <1>1, <1>2, ListParts

LEMMA CallEmptyGroup ==
  ASSUME CInv, SkipDeletion \/ DeleteDistribution
  PROVE  CallInv'
<1>t. TypeOK /\ HasRequest /\ CallInv /\ IInv
  BY DEF CInv, FInv, IInv
<1>0. w.pc = "dist" /\ w.desired = {}
  BY DEF SkipDeletion, DeleteDistribution
<1>1. /\ w'.pc = AfterDist /\ w'.out.domains = {} /\ w'.st = w.st
      /\ w'.i = w.i /\ w'.desired = w.desired /\ w'.base = w.base
  BY <1>t DEF SkipDeletion, DeleteDistribution, EmptyDesiredOutput, EmptyOutput, TypeOK, Workers
<1>2. w'.pc \in {"aliasUpsert", "finalizer"} /\ (CreateAlias => w'.pc = "aliasUpsert")
  BY <1>1 DEF AfterDist
<1>3. OutputIsDesired' /\ RecordsWritten'
  BY <1>0, <1>1 DEF OutputIsDesired, RecordsWritten
<1>4. NoOutput' /\ UpsertErrorKept'
  BY <1>1, <1>2 DEF NoOutput, UpsertErrorKept, Saving
<1>5. StatusKeeps'
  BY <1>t, <1>0, <1>1, <1>2 DEF CallInv, StatusKeeps, Syncing
<1> QED
  BY <1>3, <1>4, <1>5, RequestKept DEF CallInv

LEMMA CallUpsert ==
  ASSUME CInv, UpdateDistribution \/ CreateDistribution
  PROVE  CallInv'
<1>t. TypeOK /\ HasRequest /\ CallInv /\ IInv
  BY DEF CInv, FInv, IInv
<1>1. PICK d \in DistIds, ok \in BOOLEAN :
        /\ Upserted(d, ok)
        /\ ARNByGroup(w.obj.spec.group) \subseteq {d}
        /\ \/ dist' = dist /\ ~ok
           \/ dist' = [dist EXCEPT ![d] = DesiredDistribution]
  BY <1>t, UpsertParts
<1>2. w.pc = "dist" /\ w.i \in Ingresses
  BY <1>t, UpsertParts DEF HasRequest
<1>3. /\ w'.pc = AfterDist /\ w'.errs = ~ok
      /\ w'.out = IF ok THEN [target |-> d, domains |-> w.domains, ipv6 |-> IPv6Enabled]
                  ELSE EmptyOutput
      /\ w'.st.id = IF ok THEN d ELSE w.st.id
      /\ ok => w'.st.refs[w.i] = "Synced"
      /\ \A j \in Ingresses \ {w.i} : w'.st.refs[j] = w.st.refs[j]
  BY <1>t, <1>1, <1>2, UpsertedParts
<1>4. /\ w'.i = w.i /\ w'.obj = w.obj /\ w'.desired = w.desired /\ w'.domains = w.domains
      /\ w'.base = w.base
  BY <1>t, CallGoesOn
<1>5. w'.pc \in {"aliasUpsert", "finalizer"} /\ (CreateAlias => w'.pc = "aliasUpsert")
  BY <1>3 DEF AfterDist
<1>6. OutputIsDesired'
  <2> SUFFICES ASSUME ok
               PROVE  /\ w'.out.target \in DistIds
                      /\ w'.out.domains = w'.domains
                      /\ w'.out.ipv6 = IPv6Enabled
                      /\ dist'[w'.out.target] = DesiredDistribution'
                      /\ w'.st.id = w'.out.target
                      /\ w'.st.refs[w'.i] = "Synced"
    BY <1>3 DEF OutputIsDesired
  <2>1. w'.out.target = d /\ w'.out.domains = w.domains /\ w'.out.ipv6 = IPv6Enabled
    BY <1>3
  <2>2. dist'[d] = DesiredDistribution
    BY <1>t, <1>1 DEF TypeOK
  <2>3. DesiredDistribution' = DesiredDistribution
    BY <1>4 DEF DesiredDistribution
  <2> QED
    BY <1>3, <1>4, <2>1, <2>2, <2>3
<1>7. NoOutput'
  <2>1. w.desired # {}
    BY <1>t, UpsertParts
  <2>2. ~ok => w'.out.domains = {}
    BY <1>3 DEF EmptyOutput
  <2> QED
    BY <1>3, <1>4, <2>1, <2>2 DEF NoOutput
<1>8. RecordsWritten' /\ UpsertErrorKept'
  BY <1>5 DEF RecordsWritten, UpsertErrorKept, Saving
<1>9. StatusKeeps'
  <2> SUFFICES ASSUME w.base # None
               PROVE  /\ \A i \in Ingresses \ {w.i} : w.base.refs[i] = "Synced" => w'.st.refs[i] = "Synced"
                      /\ w'.st.id = w.base.id \/ w.base.id \notin ARNByGroup(w.obj.spec.group)'
    BY <1>4, <1>5 DEF StatusKeeps, Syncing
  <2>1. /\ \A i \in Ingresses \ {w.i} : w.base.refs[i] = "Synced" => w.st.refs[i] = "Synced"
        /\ w.st.id = w.base.id
    BY <1>t, <1>2 DEF CallInv, StatusKeeps, Syncing
  <2>2. \A i \in Ingresses \ {w.i} : w.base.refs[i] = "Synced" => w'.st.refs[i] = "Synced"
    BY <1>3, <2>1
  <2>3. CASE ~ok
    BY <1>3, <2>1, <2>2, <2>3
  <2>4. CASE ok
    <3>1. \A e \in DistIds \ {d} : dist'[e] = dist[e]
      BY <1>t, <1>1 DEF TypeOK
    <3>2. \A e \in DistIds \ {d} : ~(dist'[e] # None /\ dist'[e].group = w.obj.spec.group)
      BY <1>1, <3>1 DEF ARNByGroup
    <3>3. ARNByGroup(w.obj.spec.group)' \subseteq {d}
      BY <1>4, <3>2 DEF ARNByGroup
    <3> QED
      BY <1>3, <2>2, <2>4, <3>3
  <2> QED
    BY <2>3, <2>4
<1> QED
  BY <1>6, <1>7, <1>8, <1>9, RequestKept DEF CallInv

LEMMA CallUpsertAliases ==
  ASSUME CInv, UpsertAliases
  PROVE  CallInv'
<1>t. TypeOK /\ HasRequest /\ CallInv /\ OwnTXT
  BY DEF CInv, FInv, IInv
<1>1. /\ w.pc = "aliasUpsert" /\ w'.pc = "aliasDelete"
      /\ w'.out = w.out /\ w'.errs = w.errs
      /\ w'.st.id = w.st.id /\ w'.st.refs = w.st.refs
      /\ ~w'.errUp => zone' = UpsertChanges(toUpsert, zone, zone)
      /\ dist' = dist
  BY <1>t, UpsertAliasesParts
<1>2. /\ w'.i = w.i /\ w'.obj = w.obj /\ w'.desired = w.desired /\ w'.domains = w.domains
      /\ w'.base = w.base
  BY <1>t, CallGoesOn
<1>3. OutputIsDesired'
  BY <1>t, <1>1, <1>2 DEF CallInv, OutputIsDesired, Syncing, DesiredDistribution
<1>4. RecordsWritten'
  <2> SUFFICES ASSUME CreateAlias, ~w.errs, w.desired # {}, ~w'.errUp
               PROVE  HasRecords(w.out.target, w.domains)'
    BY <1>1, <1>2 DEF RecordsWritten
  <2>1. w.out.domains = w.domains /\ w.out.ipv6 = IPv6Enabled
    BY <1>t, <1>1 DEF CallInv, OutputIsDesired, Syncing
  <2>2. \A x \in w.domains : x.host \in Hosts
    BY <1>t DEF TypeOK, Workers, Domains
  <2>3. \A x \in w.domains :
           /\ \A t \in IF IPv6Enabled THEN RRTypes ELSE {"A"} : zone'[x.host].addr[t] = w.out.target
           /\ zone'[x.host].txt = <<Owner>>
    BY <1>t, <1>1, <2>1, <2>2, RecordsAfterUpsert
  <2> QED
    BY <1>1, <1>2, <2>3 DEF HasRecords
<1>5. NoOutput' /\ UpsertErrorKept'
  BY <1>1 DEF NoOutput, UpsertErrorKept, Saving
<1>6. StatusKeeps'
  BY <1>t, <1>1, <1>2 DEF CallInv, StatusKeeps, Syncing, ARNByGroup
<1> QED
  BY <1>3, <1>4, <1>5, <1>6, RequestKept DEF CallInv

LEMMA CallDeleteAliases ==
  ASSUME AliasesStay, CInv, DeleteAliases
  PROVE  CallInv'
<1>t. TypeOK /\ HasRequest /\ CallInv
  BY DEF CInv, FInv, IInv
<1>1. /\ w.pc = "aliasDelete" /\ w'.pc = "finalizer"
      /\ w'.out = w.out /\ w'.errUp = w.errUp
      /\ (w.errs \/ w.errUp) => w'.errs
      /\ w'.st.id = w.st.id /\ w'.st.refs = w.st.refs
      /\ CreateAlias => zone' = zone
      /\ dist' = dist
  BY <1>t, DeleteAliasesParts DEF AliasesStay
<1>2. /\ w'.i = w.i /\ w'.obj = w.obj /\ w'.desired = w.desired /\ w'.domains = w.domains
      /\ w'.base = w.base
  BY <1>t, CallGoesOn
<1>3. OutputIsDesired'
  BY <1>t, <1>1, <1>2 DEF CallInv, OutputIsDesired, Syncing, DesiredDistribution
<1>4. RecordsWritten'
  BY <1>t, <1>1, <1>2 DEF CallInv, RecordsWritten, Syncing, HasRecords
<1>5. NoOutput' /\ UpsertErrorKept'
  BY <1>1 DEF NoOutput, UpsertErrorKept, Saving
<1>6. StatusKeeps'
  BY <1>t, <1>1, <1>2 DEF CallInv, StatusKeeps, Syncing, ARNByGroup
<1> QED
  BY <1>3, <1>4, <1>5, <1>6, RequestKept DEF CallInv

LEMMA CallFinalizer ==
  ASSUME CInv, ReconcileFinalizer
  PROVE  CallInv'
<1>t. TypeOK /\ HasRequest /\ CallInv
  BY DEF CInv, FInv, IInv
<1>1. /\ w.pc = "finalizer" /\ w'.pc \in {"statusDelete", "statusCreate", "statusUpdate"}
      /\ UNCHANGED <<queue, cache, cdn, cdnCache, dist, zone>>
  BY <1>t, FinalizerParts
<1>2. /\ w'.i = w.i /\ w'.read = w.read /\ w'.desired = w.desired /\ w'.domains = w.domains
      /\ w'.base = w.base /\ w'.out = w.out /\ w'.errUp = w.errUp
      /\ w'.obj.spec = w.obj.spec /\ w'.obj.deleting = w.obj.deleting
      /\ w.errs => w'.errs
      /\ w'.st.id = w.st.id
      /\ \A j \in Ingresses \ {w.i} : w'.st.refs[j] = w.st.refs[j]
      /\ Stays(w.obj) => w'.st = w.st
      /\ w'.pc = "statusDelete" => w.desired = {}
      /\ (Stays(w.obj) /\ ~w'.errs) => ing'[w.i] # None /\ ing'[w.i].fin
  BY <1>t, FinalizerLocals
<1>3. Stays(w'.obj) => Stays(w.obj)
  BY <1>2 DEF Stays
<1>4. SameRequest' /\ ReadIsCached'
  BY <1>t, <1>1, <1>2 DEF CallInv, SameRequest, ReadIsCached, LiveObject
<1>5. ListIsCached'
  BY <1>t, <1>1, <1>2 DEF CallInv, ListIsCached, LiveObject
<1>6. OutputIsDesired'
  BY <1>t, <1>1, <1>2, <1>3 DEF CallInv, OutputIsDesired, Syncing, DesiredDistribution
<1>7. RecordsWritten' /\ NoOutput'
  BY <1>t, <1>1, <1>2 DEF CallInv, RecordsWritten, NoOutput, Syncing, HasRecords
<1>8. UpsertErrorKept'
  BY <1>t, <1>1, <1>2 DEF CallInv, UpsertErrorKept, Saving
<1>9. StatusKeeps'
  BY <1>t, <1>1, <1>2 DEF CallInv, StatusKeeps, Syncing, ARNByGroup
<1>10. FinalizerSaved' /\ DeletesEmpty'
  BY <1>2, <1>3 DEF FinalizerSaved, DeletesEmpty
<1> QED
  BY <1>4, <1>5, <1>6, <1>7, <1>8, <1>9, <1>10 DEF CallInv

LEMMA CallOver ==
  ASSUME w'.pc = "idle"
  PROVE  CallInv'
  BY DEF CallInv, SameRequest, ReadIsCached, ListIsCached, OutputIsDesired, NoOutput, RecordsWritten,
         UpsertErrorKept, StatusKeeps, FinalizerSaved, DeletesEmpty, Syncing, Saving

(* The CDNStatus that is created empty has nothing the update could lose. *)
LEMMA CallCreateStatus ==
  ASSUME CInv, createCDNStatus
  PROVE  CallInv'
<1>t. TypeOK /\ HasRequest /\ CallInv
  BY DEF CInv, FInv, IInv
<1>0. w.pc = "statusCreate" /\ UNCHANGED <<ing, cache, dist, zone>>
  BY DEF createCDNStatus, statusLeaves, workerLeaves
<1>1. CASE w' = Idle
  BY <1>1, IdleType, CallOver
<1>2. CASE w' = [w EXCEPT !.pc = "statusUpdate", !.base = CS!EmptyStatus] /\ queue' = queue
  <2>1. /\ w'.pc = "statusUpdate" /\ w'.base = CS!EmptyStatus
        /\ w'.i = w.i /\ w'.read = w.read /\ w'.desired = w.desired /\ w'.domains = w.domains
        /\ w'.out = w.out /\ w'.errUp = w.errUp /\ w'.obj = w.obj /\ w'.errs = w.errs
        /\ w'.st = w.st
    BY <1>t, <1>2 DEF TypeOK, Workers
  <2>2. SameRequest' /\ ReadIsCached' /\ ListIsCached'
    BY <1>t, <1>0, <1>2, <2>1 DEF CallInv, SameRequest, ReadIsCached, ListIsCached, LiveObject
  <2>3. OutputIsDesired' /\ RecordsWritten' /\ NoOutput' /\ UpsertErrorKept'
    BY <1>t, <1>0, <2>1 DEF CallInv, OutputIsDesired, RecordsWritten, NoOutput, UpsertErrorKept,
         Syncing, Saving, DesiredDistribution, HasRecords
  <2>4. FinalizerSaved' /\ DeletesEmpty'
    BY <1>t, <1>0, <2>1 DEF CallInv, FinalizerSaved, DeletesEmpty, Saving
  <2>5. StatusKeeps'
    <3>1. CS!EmptyStatus.id = None /\ \A i \in Ingresses : CS!EmptyStatus.refs[i] = "Absent"
      BY DEF CS!EmptyStatus
    <3>2. None \notin ARNByGroup(w.obj.spec.group)'
      BY NoneAssumption DEF ARNByGroup
    <3> QED
      BY <2>1, <3>1, <3>2 DEF StatusKeeps, Syncing
  <2> QED
    BY <2>2, <2>3, <2>4, <2>5 DEF CallInv
<1> QED
  BY <1>1, <1>2 DEF createCDNStatus, Return

LEMMA CallStep == AliasesStay /\ CInv /\ [Next]_vars => CallInv'
<1> SUFFICES ASSUME AliasesStay, CInv, [Next]_vars PROVE CallInv'
  OBVIOUS
<1>1. CASE UNCHANGED <<ing, cache, queue, dist, zone, w>>
  BY <1>1 DEF CInv, CallInv, SameRequest, ReadIsCached, ListIsCached, OutputIsDesired, NoOutput,
       RecordsWritten, UpsertErrorKept, StatusKeeps, FinalizerSaved, DeletesEmpty, Syncing, Saving,
       DesiredDistribution, HasRecords, ARNByGroup
<1>2. CASE RejectIngress \/ RemoveFinalizerUngrouped \/ deleteCDNStatus \/ updateCDNStatus \/ Crash
  <2>1. w' = Idle
    BY <1>2 DEF RejectIngress, RemoveFinalizerUngrouped, deleteCDNStatus, updateCDNStatus, Crash,
                Return
  <2> QED
    BY <2>1, IdleType, CallOver
<1> QED
  BY <1>1, <1>2, CallUsers, CallDeliver, CallStart, CallDesired, CallEmptyGroup, CallUpsert,
     CallUpsertAliases, CallDeleteAliases, CallFinalizer, CallCreateStatus
     DEF Next, User, Worker, DeliverStatus, informerLeaves, vars

-----------------------------------------------------------------------------
(* Settled Ingresses                                                       *)

(* What a call that is about to end knows of its own Ingress, if nothing   *)
(* has been delivered since.                                               *)
LEMMA RequestIsCurrent ==
  ASSUME CInv, w.pc # "idle", w.i \notin queue, LiveObject(cache[w.i])
  PROVE  /\ w.i \in Ingresses
         /\ cache[w.i].spec = w.obj.spec
         /\ Stays(w.obj)
         /\ w.pc # "started" => w.i \in w.desired /\ cache[w.i].spec.domains \subseteq w.domains
<1>1. w.i \in Ingresses
  BY DEF CInv, FInv, IInv, HasRequest
<1>2. cache[w.i].spec = w.obj.spec /\ cache[w.i].deleting = w.obj.deleting
  BY DEF CInv, CallInv, ReadIsCached, SameRequest
<1>3. Stays(w.obj)
  BY <1>2 DEF LiveObject, Stays
<1>4. w.pc # "started" => w.i \in w.desired /\ cache[w.i].spec.domains \subseteq w.domains
  BY <1>1, <1>2 DEF CInv, CallInv, ListIsCached
<1> QED
  BY <1>1, <1>2, <1>3, <1>4

(* An Ingress becomes settled in one way only: the call for it saves the   *)
(* CDNStatus and returns without error.                                    *)
LEMMA StillSettled ==
  ASSUME CInv, [Next]_vars, NEW i \in Ingresses, Settled(i)'
  PROVE  /\ cache'[i] = cache[i]
         /\ Settled(i) \/ (updateCDNStatus /\ i = w.i /\ w.i \notin queue)
<1>t. TypeOK /\ HasRequest
  BY DEF CInv, FInv, IInv
<1>s. LiveObject(cache'[i]) /\ i \notin queue' /\ ~(w'.pc # "idle" /\ w'.i = i)
  BY DEF Settled, Pending, LiveObject
<1>i. Idle.pc = "idle"
  BY IdleType
<1>0. ASSUME cache' = cache, queue' = queue, w'.pc # "idle", w'.i = w.i
      PROVE  cache'[i] = cache[i] /\ Settled(i)
  BY <1>0, <1>s DEF Settled, Pending
<1>1. CASE UNCHANGED <<cache, queue, w>>
  BY <1>1, <1>s DEF Settled, Pending
<1>2. ASSUME NEW j \in Ingresses, Deliver(j)
      PROVE  cache'[i] = cache[i] /\ Settled(i)
  <2>1. i # j /\ cache'[i] = cache[i] /\ i \notin queue /\ w' = w
    BY <1>t, <1>s, <1>2, DeliveryQueues
  <2> QED
    BY <1>s, <2>1 DEF Settled, Pending
<1>3. ASSUME NEW j \in Ingresses, Start(j)
      PROVE  cache'[i] = cache[i] /\ Settled(i)
  <2>1. w.pc = "idle" /\ queue' = queue \ {j} /\ cache' = cache
    BY <1>3 DEF Start, workerLeaves
  <2>2. cache[j] # None => w'.pc = "started" /\ w'.i = j
    BY <1>3, IdleType DEF Start, Workers
  <2>3. i # j
    BY <1>s, <2>1, <2>2 DEF LiveObject
  <2> QED
    BY <1>s, <2>1, <2>3 DEF Settled, Pending
<1>4. ASSUME NEW failed, Return(failed), cache' = cache, w.pc # "idle"
      PROVE  cache'[i] = cache[i] /\ (Settled(i) \/ (i = w.i /\ ~failed /\ w.i \notin queue))
  BY <1>4, <1>s DEF Return, Settled, Pending
<1>5. CASE RejectIngress
  BY <1>4, <1>5 DEF RejectIngress, workerLeaves
<1>6. CASE RemoveFinalizerUngrouped
  <2>1. /\ w.pc = "started" /\ w.obj.spec.group = None /\ cache' = cache
        /\ \E failed : Return(failed)
    BY <1>6 DEF RemoveFinalizerUngrouped, HasGroupAnnotation, workerLeaves
  <2>2. ~(i = w.i /\ w.i \notin queue)
    BY <1>s, <2>1, RequestIsCurrent DEF Stays
  <2> QED
    BY <1>4, <2>1, <2>2
<1>7. CASE DesiredState
  <2>1. w.pc = "started" /\ cache' = cache
    BY <1>7 DEF DesiredState, workerLeaves
  <2> QED
    BY <1>0, <1>4, <1>7, <1>t, <2>1, ListParts
<1>8. CASE \/ SkipDeletion \/ DeleteDistribution \/ UpdateDistribution \/ CreateDistribution
           \/ UpsertAliases \/ DeleteAliases
  BY <1>0, <1>8, <1>t, CallGoesOn
<1>9. CASE ReconcileFinalizer
  BY <1>0, <1>9, <1>t, FinalizerParts, FinalizerLocals
<1>10. CASE deleteCDNStatus
  <2>1. w.pc = "statusDelete" /\ cache' = cache /\ \E failed : Return(failed)
    BY <1>10 DEF deleteCDNStatus, statusLeaves, workerLeaves
  <2>2. w.desired = {}
    BY <2>1 DEF CInv, CallInv, DeletesEmpty
  <2>3. ~(i = w.i /\ w.i \notin queue)
    BY <1>s, <2>1, <2>2, RequestIsCurrent
  <2> QED
    BY <1>4, <2>1, <2>3
<1>11. CASE createCDNStatus
  <2>1. w.pc = "statusCreate" /\ cache' = cache
    BY <1>11 DEF createCDNStatus, statusLeaves, workerLeaves
  <2>2. \/ Return(TRUE)
        \/ w' = [w EXCEPT !.pc = "statusUpdate", !.base = CS!EmptyStatus] /\ queue' = queue
    BY <1>11 DEF createCDNStatus
  <2>3. CASE w' = [w EXCEPT !.pc = "statusUpdate", !.base = CS!EmptyStatus] /\ queue' = queue
    <3>1. w'.pc = "statusUpdate" /\ w'.i = w.i
      BY <1>t, <2>3 DEF TypeOK, Workers
    <3> QED
      BY <1>0, <2>1, <2>3, <3>1
  <2> QED
    BY <1>4, <2>1, <2>2, <2>3
<1>12. CASE updateCDNStatus
  <2>1. w.pc = "statusUpdate" /\ cache' = cache /\ \E failed : Return(failed)
    BY <1>12 DEF updateCDNStatus, statusLeaves, workerLeaves
  <2> QED
    BY <1>4, <1>12, <2>1
<1>13. CASE Crash
  <2>1. cache' = ing /\ queue' = {j \in Ingresses : ingressPredicate(ing[j])}
    BY <1>13 DEF Crash
  <2> QED
    BY <1>s, <2>1 DEF LiveObject, ingressPredicate, HasGroupAnnotation, HasLoadBalancer
<1> QED
  BY <1>1, <1>2, <1>3, <1>5, <1>6, <1>7, <1>8, <1>9, <1>10, <1>11, <1>12, <1>13
     DEF Next, User, Worker, Edit, Delete, userLeaves, DeliverStatus, informerLeaves, vars

(* The step in which the call for an Ingress ends well. *)
LEMMA SavedStatus ==
  ASSUME CInv, updateCDNStatus, NEW i \in Ingresses, i = w.i, Settled(i)'
  PROVE  /\ w.pc = "statusUpdate" /\ ~w.errs
         /\ w.i \notin queue
         /\ cdn' = [cdn EXCEPT ![w.obj.spec.group] = w.st]
         /\ LiveObject(cache[w.i]) /\ cache' = cache
         /\ UNCHANGED <<ing, dist, zone>>
<1>1. PICK o \in Outcomes("cdnstatus") :
        /\ cdn' = IF o.applied /\ cdn[StatusName] = w.base
                    THEN [cdn EXCEPT ![StatusName] = w.st] ELSE cdn
        /\ Return(w.errs \/ ~(o.ok /\ cdn[StatusName] = w.base))
  BY DEF updateCDNStatus
<1>2. w.pc = "statusUpdate" /\ UNCHANGED <<ing, dist, zone, cache>>
  BY DEF updateCDNStatus, statusLeaves, workerLeaves
<1>3. LiveObject(cache[w.i]) /\ w.i \notin queue'
  BY <1>2 DEF Settled, Pending, LiveObject
<1>4. ~w.errs /\ o.ok /\ cdn[StatusName] = w.base /\ w.i \notin queue
  BY <1>1, <1>3 DEF Return
<1>5. o.applied
  BY <1>4 DEF Outcomes
<1> QED
  BY <1>1, <1>2, <1>3, <1>4, <1>5 DEF StatusName

LEMMA FinalizedStep == CInv /\ [Next]_vars => SettledFinalized'
<1> SUFFICES ASSUME CInv, [Next]_vars, NEW i \in Ingresses, Settled(i)'
             PROVE  cache'[i].fin \/ (ing'[i] # None /\ ing'[i].fin)
  BY DEF SettledFinalized
<1>t. TypeOK /\ HasRequest
  BY DEF CInv, FInv, IInv
<1>1. cache'[i] = cache[i] /\ (Settled(i) \/ (updateCDNStatus /\ i = w.i))
  BY StillSettled
<1>2. CASE updateCDNStatus /\ i = w.i
  <2>1. /\ w.pc = "statusUpdate" /\ ~w.errs /\ w.i \notin queue /\ LiveObject(cache[w.i])
        /\ ing' = ing
    BY <1>2, SavedStatus
  <2>2. Stays(w.obj)
    BY <2>1, RequestIsCurrent
  <2> QED
    BY <1>2, <2>1, <2>2 DEF CInv, CallInv, FinalizerSaved, Saving
<1>3. CASE Settled(i)
  <2>0. cache[i].fin \/ (ing[i] # None /\ ing[i].fin)
    BY <1>3 DEF CInv, SettledFinalized
  <2>1. CASE ing'[i] = ing[i]
    BY <1>1, <2>0, <2>1
  <2>2. ASSUME NEW j \in Ingresses, Edit(j) \/ Delete(j)
        PROVE  cache'[i].fin \/ (ing'[i] # None /\ ing'[i].fin)
    BY <1>1, <1>t, <2>0, <2>2, UserKeepsFinalizer
  <2>3. CASE RemoveFinalizerUngrouped \/ ReconcileFinalizer
    <3>0. PICK fin \in BOOLEAN : \E o : UpdateIngress(fin, o)
      <4>1. CASE RemoveFinalizerUngrouped
        BY <4>1 DEF RemoveFinalizerUngrouped
      <4>2. CASE ReconcileFinalizer
        BY <4>2, <1>t, FinalizerParts
      <4> QED
        BY <2>3, <4>1, <4>2
    <3>1. PICK o : UpdateIngress(fin, o)
      BY <3>0
    <3>2. w.pc # "idle"
      BY <2>3 DEF RemoveFinalizerUngrouped, ReconcileFinalizer
    <3>3. i # w.i
      BY <1>3, <3>2 DEF Settled, Pending
    <3> QED
      BY <1>t, <2>1, <3>1, <3>2, <3>3, UpdateParts
  <2> QED
    BY <2>1, <2>2, <2>3
       DEF Next, User, Worker, Deliver, DeliverStatus, informerLeaves, Start, RejectIngress,
           DesiredState, SkipDeletion, DeleteDistribution, UpdateDistribution, CreateDistribution,
           distLeaves, UpsertAliases, DeleteAliases, aliasLeaves, deleteCDNStatus, createCDNStatus,
           updateCDNStatus, statusLeaves, Crash, vars
<1> QED
  BY <1>1, <1>2, <1>3

(* A call for one Ingress leaves every other settled one served: in its    *)
(* own group because the listing has it, in another group because the call *)
(* does not touch that group's distribution, records or CDNStatus.         *)
LEMMA KeptServed ==
  ASSUME AliasesStay, CInv, [Next]_vars, NEW i \in Ingresses, Settled(i),
         NEW s, s = cache[i].spec, NEW d \in DistIds, dist[d] # None, dist[d].group = s.group,
         ServedBy(i, s, d)
  PROVE  dist'[d] # None /\ dist'[d].group = s.group /\ ServedBy(i, s, d)'
<1>t. TypeOK /\ HasRequest /\ IInv /\ CallInv
  BY DEF CInv, FInv, IInv
<1>s. /\ i \notin queue /\ (w.pc # "idle" => w.i # i)
      /\ LiveObject(cache[i]) /\ cache[i] \in Objects /\ s \in IngressSpecs
      /\ s.group \in Groups /\ s.domains \subseteq Domains
  BY <1>t DEF Settled, Pending, LiveObject, TypeOK, Objects, IngressSpecs
<1>l. (w.pc \notin {"idle", "started"} /\ s.group = w.obj.spec.group)
        => i \in w.desired /\ s.domains \subseteq w.domains
  BY <1>s, <1>t DEF CallInv, ListIsCached
<1>1. CASE UNCHANGED <<dist, zone, cdn>>
  BY <1>1 DEF ServedBy, HasRecords
<1>2. CASE UpdateDistribution \/ CreateDistribution
  <2>1. PICK e \in DistIds : /\ dist[e] = None \/ dist[e].group = w.obj.spec.group
                             /\ \/ dist' = dist
                                \/ dist' = [dist EXCEPT ![e] = DesiredDistribution]
    BY <1>t, <1>2, UpsertParts
  <2>2. w.pc = "dist" /\ zone' = zone /\ cdn' = cdn
    BY <1>2 DEF UpdateDistribution, CreateDistribution, distLeaves
  <2>3. CASE dist'[d] = dist[d]
    BY <2>2, <2>3 DEF ServedBy, HasRecords
  <2>4. CASE dist'[d] # dist[d]
    <3>1. d = e /\ dist'[d] = DesiredDistribution /\ s.group = w.obj.spec.group
      BY <1>t, <2>1, <2>4 DEF TypeOK
    <3>2. /\ DesiredDistribution # None /\ DesiredDistribution.group = s.group
          /\ DesiredDistribution.enabled /\ DesiredDistribution.members = w.desired
          /\ DesiredDistribution.domains = w.domains
      BY <1>t, <2>2, <3>1, DesiredDistributionType, NoneAssumption DEF DesiredDistribution
    <3>3. i \in w.desired /\ s.domains \subseteq w.domains
      BY <1>l, <2>2, <3>1
    <3> QED
      BY <2>2, <3>1, <3>2, <3>3 DEF ServedBy, HasRecords
  <2> QED
    BY <2>3, <2>4
<1>3. CASE DeleteDistribution
  <2>1. /\ w.pc = "dist" /\ w.desired = {} /\ w.arn # None /\ zone' = zone /\ cdn' = cdn
    BY <1>3 DEF DeleteDistribution, distLeaves
  <2>2. w.arn # d
    BY <1>l, <1>t, <2>1 DEF IInv, ARNIsCurrent
  <2>3. dist'[d] = dist[d]
    BY <1>3, <1>t, <2>2 DEF DeleteDistribution, TypeOK
  <2> QED
    BY <2>1, <2>3 DEF ServedBy, HasRecords
<1>4. CASE UpsertAliases
  <2>1. /\ w.pc = "aliasUpsert" /\ dist' = dist
        /\ zone' = zone \/ zone' = UpsertChanges(toUpsert, zone, zone)
    BY <1>4, <1>t, UpsertAliasesParts
  <2>2. cdn' = cdn
    BY <1>4 DEF UpsertAliases, aliasLeaves
  <2>3. ASSUME CreateAlias, zone' = UpsertChanges(toUpsert, zone, zone), NEW x \in s.domains
        PROVE  /\ \A t \in IF IPv6Enabled THEN RRTypes ELSE {"A"} : zone'[x.host].addr[t] = d
               /\ zone'[x.host].txt = <<Owner>>
    <3>1. x.host \in Hosts
      BY <1>s DEF Domains
    <3>2. /\ \A t \in IF IPv6Enabled THEN RRTypes ELSE {"A"} : zone[x.host].addr[t] = d
          /\ zone[x.host].txt = <<Owner>>
      BY <2>3 DEF ServedBy, HasRecords
    <3>3. CASE ~ \E y \in w.out.domains : y.host = x.host
      BY <1>t, <2>3, <3>1, <3>2, <3>3, RecordsAfterUpsert DEF CInv
    <3>4. CASE \E y \in w.out.domains : y.host = x.host
      <4>1. PICK y \in w.out.domains : y.host = x.host
        BY <3>4
      <4>2. ~w.errs /\ w.desired # {}
        BY <1>t, <2>1, <4>1 DEF CallInv, NoOutput
      <4>3. /\ w.out.target \in DistIds /\ w.out.domains = w.domains /\ w.out.ipv6 = IPv6Enabled
            /\ dist[w.out.target] = DesiredDistribution
        BY <1>t, <2>1, <4>2 DEF CallInv, OutputIsDesired, Syncing
      <4>4. dist[w.out.target] # None /\ dist[w.out.target].domains = w.domains
        <5>1. w.pc # "idle"
          BY <2>1
        <5>2. DesiredDistribution # None
          BY <1>t, <5>1, DesiredDistributionType, NoneAssumption
        <5>3. DesiredDistribution.domains = w.domains
          BY DEF DesiredDistribution
        <5> QED
          BY <4>3, <5>2, <5>3
      <4>5. x = y
        <5>1. x \in SpecDomains /\ y \in SpecDomains
          BY <1>s, <4>1, <4>3 DEF CInv, DomainsFromUsers, LiveObject
        <5> QED
          BY <2>3, <4>1, <5>1 DEF AliasesStay, OneSpelling
      <4>6. x \in dist[d].domains /\ x \in dist[w.out.target].domains
        BY <4>1, <4>3, <4>4, <4>5 DEF ServedBy
      <4>7. w.out.target = d
        BY <4>3, <4>4, <4>6 DEF CInv, DomainsDisjoint
      <4> QED
        BY <1>t, <2>3, <3>1, <3>4, <4>3, <4>7, RecordsAfterUpsert DEF CInv
    <3> QED
      BY <3>3, <3>4
  <2>4. CASE zone' = zone
    BY <1>1, <2>1, <2>2, <2>4
  <2>5. CASE zone' = UpsertChanges(toUpsert, zone, zone)
    <3>1. CreateAlias => HasRecords(d, s.domains)'
      BY <2>3, <2>5 DEF HasRecords
    <3> QED
      BY <2>1, <2>2, <3>1 DEF ServedBy
  <2> QED
    BY <2>1, <2>4, <2>5
<1>5. CASE DeleteAliases
  <2>1. dist' = dist /\ cdn' = cdn /\ (CreateAlias => zone' = zone)
    BY <1>5, <1>t, DeleteAliasesParts DEF AliasesStay, DeleteAliases, aliasLeaves
  <2> QED
    BY <2>1 DEF ServedBy, HasRecords
<1>6. ASSUME dist' = dist, zone' = zone, cdn'[s.group] # None, cdn'[s.group].id = d,
             cdn'[s.group].refs[i] = "Synced"
      PROVE  dist'[d] # None /\ dist'[d].group = s.group /\ ServedBy(i, s, d)'
  BY <1>6 DEF ServedBy, HasRecords
<1>c. /\ cdn[s.group] # None /\ cdn[s.group].id = d /\ cdn[s.group].refs[i] = "Synced"
  BY DEF ServedBy
<1>7. CASE deleteCDNStatus
  <2>1. /\ w.pc = "statusDelete" /\ dist' = dist /\ zone' = zone
        /\ cdn' = cdn \/ cdn' = [cdn EXCEPT ![w.obj.spec.group] = None]
    BY <1>7 DEF deleteCDNStatus, statusLeaves, StatusName
  <2>2. w.desired = {}
    BY <1>t, <2>1 DEF CallInv, DeletesEmpty
  <2>3. s.group # w.obj.spec.group
    BY <1>l, <2>1, <2>2
  <2>4. cdn'[s.group] = cdn[s.group]
    BY <1>s, <1>t, <2>1, <2>3 DEF TypeOK
  <2> QED
    BY <1>6, <1>c, <2>1, <2>4
<1>8. CASE createCDNStatus
  <2>1. /\ dist' = dist /\ zone' = zone
        /\ \/ cdn' = cdn
           \/ /\ cdn[w.obj.spec.group] = None
              /\ cdn' = [cdn EXCEPT ![w.obj.spec.group] = CS!EmptyStatus]
    BY <1>8 DEF createCDNStatus, statusLeaves, StatusName
  <2>2. cdn'[s.group] = cdn[s.group]
    BY <1>c, <1>s, <1>t, <2>1 DEF TypeOK
  <2> QED
    BY <1>6, <1>c, <2>1, <2>2
<1>9. CASE updateCDNStatus
  <2>1. /\ w.pc = "statusUpdate" /\ dist' = dist /\ zone' = zone
        /\ \/ cdn' = cdn
           \/ /\ cdn[w.obj.spec.group] = w.base
              /\ cdn' = [cdn EXCEPT ![w.obj.spec.group] = w.st]
    BY <1>9 DEF updateCDNStatus, statusLeaves, StatusName
  <2>2. CASE cdn'[s.group] = cdn[s.group]
    BY <1>6, <1>c, <2>1, <2>2
  <2>3. CASE cdn'[s.group] # cdn[s.group]
    <3>1. s.group = w.obj.spec.group /\ cdn[s.group] = w.base /\ cdn'[s.group] = w.st
      BY <1>s, <1>t, <2>1, <2>3 DEF TypeOK
    <3>2. d \in ARNByGroup(w.obj.spec.group)
      BY <3>1 DEF ARNByGroup
    <3>3. w.st.refs[i] = "Synced" /\ w.st.id = d
      BY <1>c, <1>s, <1>t, <2>1, <3>1, <3>2 DEF CallInv, StatusKeeps
    <3>4. w.st # None
      BY <1>t, NoneAssumption DEF TypeOK, Workers
    <3> QED
      BY <1>6, <2>1, <3>1, <3>3, <3>4
  <2> QED
    BY <2>2, <2>3
<1> QED
  BY <1>1, <1>2, <1>3, <1>4, <1>5, <1>7, <1>8, <1>9
     DEF Next, User, Worker, Edit, Delete, userLeaves, Deliver, DeliverStatus, informerLeaves,
         Start, RejectIngress, RemoveFinalizerUngrouped, DesiredState, SkipDeletion, distLeaves,
         ReconcileFinalizer, Crash, vars

(* What the successful call for an Ingress has brought about. *)
LEMMA NewlyServed ==
  ASSUME CInv, updateCDNStatus, NEW i \in Ingresses, i = w.i, Settled(i)',
         NEW s, s = cache[i].spec
  PROVE  \E d \in DistIds : dist'[d] # None /\ dist'[d].group = s.group /\ ServedBy(i, s, d)'
<1>t. TypeOK /\ HasRequest /\ CallInv
  BY DEF CInv, FInv, IInv
<1>1. /\ w.pc = "statusUpdate" /\ ~w.errs /\ w.i \notin queue
      /\ cdn' = [cdn EXCEPT ![w.obj.spec.group] = w.st]
      /\ LiveObject(cache[w.i])
      /\ UNCHANGED <<dist, zone>>
  BY SavedStatus
<1>2. /\ s = w.obj.spec /\ Stays(w.obj) /\ i \in w.desired /\ s.domains \subseteq w.domains
  BY <1>1, RequestIsCurrent
<1> DEFINE d == w.out.target
<1>3. /\ d \in DistIds /\ dist[d] = DesiredDistribution /\ w.st.id = d
      /\ w.st.refs[i] = "Synced"
  BY <1>t, <1>1, <1>2 DEF CallInv, OutputIsDesired, Syncing
<1>4. CreateAlias => HasRecords(d, w.domains)
  BY <1>t, <1>1, <1>2 DEF CallInv, RecordsWritten, UpsertErrorKept, Syncing, Saving
<1>5. /\ DesiredDistribution.group = s.group /\ DesiredDistribution.enabled
      /\ DesiredDistribution.members = w.desired /\ DesiredDistribution.domains = w.domains
  BY <1>2 DEF DesiredDistribution
<1>6. DesiredDistribution # None
  BY <1>t, <1>1, DesiredDistributionType, NoneAssumption
<1>7. s.group \in Groups
  BY <1>t, <1>1, <1>2 DEF HasRequest, Objects, IngressSpecs, Stays
<1>8. cdn'[s.group] = w.st /\ w.st # None
  BY <1>t, <1>1, <1>2, <1>7, NoneAssumption DEF TypeOK, Workers
<1>9. PICK e \in DistIds : e = d
  BY <1>3
<1>10. CreateAlias => HasRecords(e, s.domains)'
  BY <1>1, <1>2, <1>4, <1>9 DEF HasRecords
<1>11. dist'[e] # None /\ dist'[e].group = s.group /\ ServedBy(i, s, e)'
  BY <1>1, <1>2, <1>3, <1>5, <1>6, <1>8, <1>9, <1>10 DEF ServedBy
<1> QED
  BY <1>11

LEMMA ServedStep == AliasesStay /\ CInv /\ [Next]_vars => SettledServed'
<1> SUFFICES ASSUME AliasesStay, CInv, [Next]_vars, NEW i \in Ingresses, Settled(i)'
             PROVE  (\E d \in ARNByGroup(cache[i].spec.group) : ServedBy(i, cache[i].spec, d))'
  BY DEF SettledServed
<1>1. cache'[i] = cache[i] /\ (Settled(i) \/ (updateCDNStatus /\ i = w.i))
  BY StillSettled
<1>2. PICK s : s = cache[i].spec
  OBVIOUS
<1>3. \E d \in DistIds : dist'[d] # None /\ dist'[d].group = s.group /\ ServedBy(i, s, d)'
  <2>1. CASE Settled(i)
    <3>1. PICK d \in ARNByGroup(cache[i].spec.group) : ServedBy(i, cache[i].spec, d)
      BY <2>1 DEF CInv, SettledServed
    <3>2. d \in DistIds /\ dist[d] # None /\ dist[d].group = s.group /\ ServedBy(i, s, d)
      BY <1>2, <3>1 DEF ARNByGroup
    <3> QED
      BY <1>2, <2>1, <3>2, KeptServed
  <2>2. CASE updateCDNStatus /\ i = w.i
    BY <1>2, <2>2, NewlyServed
  <2> QED
    BY <1>1, <2>1, <2>2
<1> QED
  BY <1>1, <1>2, <1>3 DEF ARNByGroup, ServedBy, HasRecords

LEMMA InitConverged == Init => CInv
<1> SUFFICES ASSUME Init PROVE CInv
  OBVIOUS
<1>1. FInv
  BY FinalizerInit
<1>2. w.pc = "idle" /\ w.domains = {}
  BY DEF Init, Idle
<1>3. SettledServed /\ SettledFinalized
  BY DEF Init, SettledServed, SettledFinalized, Settled, LiveObject
<1>4. CallInv
  BY <1>2 DEF CallInv, SameRequest, ReadIsCached, ListIsCached, OutputIsDesired, NoOutput,
       RecordsWritten, UpsertErrorKept, StatusKeeps, FinalizerSaved, DeletesEmpty, Syncing, Saving
<1>5. OwnTXT /\ DomainsDisjoint
  BY DEF Init, OwnTXT, NoRecords, DomainsDisjoint
<1>6. DomainsFromUsers
  <2>1. \A i \in Ingresses : ing[i] # None => ing[i].spec \in Specs[i]
    BY DEF Init
  <2>2. \A i \in Ingresses : ing[i] # None => ing[i].spec.domains \subseteq SpecDomains
    BY <2>1 DEF SpecDomains
  <2> QED
    BY <1>2, <2>2 DEF Init, DomainsFromUsers
<1> QED
  BY <1>1, <1>3, <1>4, <1>5, <1>6 DEF CInv

(* Where no alias record is ever deleted, the inductive invariant holds of *)
(* every behaviour: any number of Ingresses, groups, users' edits, failed  *)
(* or half-done remote calls, stale caches and restarts.                   *)
THEOREM ConvergenceInvariance ==
  ASSUME AliasesStay
  PROVE  SafetySpec => []CInv
<1>1. CInv /\ [Next]_vars => CInv'
  BY FinalizerStep, ServedStep, FinalizedStep, CallStep, OwnTXTStep, DomainsStep DEF CInv
<1> QED
  BY <1>1, InitConverged, PTL DEF SafetySpec

(* When the queue is empty, no call is in progress and the caches are up   *)
(* to date, every live Ingress has its finalizer, is served by the enabled *)
(* distribution of its group under all its domains, with its DNS records,  *)
(* and is reported Synced in the group's CDNStatus.                        *)
THEOREM QuiescentIsServed ==
  ASSUME AliasesStay
  PROVE  SafetySpec => []QuiescentServed
<1>1. CInv => QuiescentServed
  <2> SUFFICES ASSUME CInv, Quiescent, NEW i \in Ingresses, Live(i)
               PROVE  Served(i)
    BY DEF QuiescentServed
  <2>1. Settled(i) /\ cache[i] = ing[i]
    BY DEF Quiescent, Live, Settled, LiveObject, Pending
  <2>2. ing[i].fin
    BY <2>1 DEF CInv, SettledFinalized
  <2>3. PICK d \in ARNByGroup(ing[i].spec.group) : ServedBy(i, ing[i].spec, d)
    BY <2>1 DEF CInv, SettledServed
  <2> QED
    BY <2>2, <2>3 DEF Served, ServedBy
<1> QED
  BY <1>1, ConvergenceInvariance, PTL
=============================================================================
